---------------------------- MODULE EdgeProxySync ---------------------------
(***************************************************************************)
(* The redirect rules of kiac-edge-proxy on one node: one iptables family, *)
(* its KIAC-EDGE chains and the jumps into them, maintained by the sync    *)
(* loop of a proxy process (cmd/kiac-edge-proxy) that its supervisor       *)
(* restarts.  Healing the proxy (healK3sEdgeProxy) kills it and starts     *)
(* another at once, so the cleanup of the old process, its sync loop and   *)
(* the start of the new one interleave command by command.                 *)
(***************************************************************************)
EXTENDS Naturals

CONSTANTS
  Procs,       \* proxy processes that may be alive at a time
  Services,    \* LoadBalancer Services
  MaxChanges,  \* bound: changes of the Services
  MaxKills,    \* bound: SIGTERMs
  MaxFlushes,  \* bound: flushes of the nat table by others
  MaxFaults,   \* bound: failing iptables commands
  None

ASSUME SyncAssumption == /\ MaxChanges \in Nat /\ MaxKills \in Nat
                         /\ MaxFlushes \in Nat /\ MaxFaults \in Nat
                         /\ None \notin Procs

VARIABLES
  chain,    \* whether the chains exist
  jumps,    \* how many times PREROUTING and OUTPUT jump into them
  base,     \* whether they hold the base rules
  rules,    \* Services whose redirects they hold
  port,     \* the process that listens on the proxy port
  api,      \* whether the API server answers
  services, \* Services it would answer with
  pc,       \* step of each process's sync
  exit,     \* step of each process's cleanup
  ctx,      \* whether its context is cancelled
  first,    \* whether it is in the sync before it serves
  text,     \* its polled snapshot: "empty", "current", or "old" once superseded
  last,     \* its lastSnapshot, likewise, or "unset"
  found,    \* the Services of its polled snapshot
  todo,     \* those it has still to add rules for
  routes,   \* the Services its routing table knows
  dirty,    \* ghost: processes that ended otherwise than by a quiet cleanup
  changes, kills, flushes, faults

nat    == <<chain, jumps, base, rules>>
world  == <<api, services, changes>>
local  == <<pc, exit, ctx, first, text, last, found, todo, routes>>
bounds == <<kills, flushes, faults>>
vars   == <<nat, port, world, local, dirty, bounds>>

TypeOK ==
  /\ chain \in BOOLEAN /\ base \in BOOLEAN /\ api \in BOOLEAN
  /\ jumps \in Nat
  /\ rules \subseteq Services /\ services \subseteq Services
  /\ port \in Procs \cup {None}
  /\ pc \in [Procs -> {"off", "reset", "insert", "hook", "rehook", "poll", "flush", "base",
                       "add", "publish", "idle"}]
  /\ exit \in [Procs -> {"no", "unhook", "clear"}]
  /\ ctx \in [Procs -> BOOLEAN] /\ first \in [Procs -> BOOLEAN]
  /\ text \in [Procs -> {"empty", "current", "old"}]
  /\ last \in [Procs -> {"unset", "empty", "current", "old"}]
  /\ found \in [Procs -> SUBSET Services] /\ todo \in [Procs -> SUBSET Services]
  /\ routes \in [Procs -> SUBSET Services]
  /\ dirty \in BOOLEAN
  /\ changes \in 0 .. MaxChanges /\ kills \in 0 .. MaxKills
  /\ flushes \in 0 .. MaxFlushes /\ faults \in 0 .. MaxFaults

At(p, l) == pc[p] = l
Goto(p, l) == pc' = [pc EXCEPT ![p] = l]

\* A supervised process starts once the one before it was told to stop.
Start(p) ==
  /\ At(p, "off") /\ \A q \in Procs : At(q, "off") \/ ctx[q]
  /\ Goto(p, "reset")
  /\ exit' = [exit EXCEPT ![p] = "no"]
  /\ ctx' = [ctx EXCEPT ![p] = FALSE]
  /\ first' = [first EXCEPT ![p] = TRUE]
  /\ last' = [last EXCEPT ![p] = "unset"]
  /\ text' = [text EXCEPT ![p] = "empty"]
  /\ found' = [found EXCEPT ![p] = {}]
  /\ todo' = [todo EXCEPT ![p] = {}]
  /\ routes' = [routes EXCEPT ![p] = {}]
  /\ UNCHANGED <<nat, port, world, dirty, bounds>>

-----------------------------------------------------------------------------
(* One sync.                                                               *)

\* resetHook: create the chains, drop every jump, then insert one.
ResetHook(p) ==
  /\ At(p, "reset")
  /\ chain' = TRUE
  /\ jumps' = 0
  /\ Goto(p, "insert")
  /\ UNCHANGED <<base, rules, port, world, exit, ctx, first, text, last, found, todo, routes, dirty, bounds>>

\* A jump needs the chain: without it the command, and the sync, fail.
InsertHook(p) ==
  /\ pc[p] \in {"insert", "rehook"} /\ chain
  /\ jumps' = jumps + 1
  /\ Goto(p, IF At(p, "insert") THEN "hook" ELSE "poll")
  /\ UNCHANGED <<chain, base, rules, port, world, exit, ctx, first, text, last, found, todo, routes, dirty, bounds>>

\* The ticker of syncLoop fires, every three seconds from when the process starts
\* to serve; one that fails to listen is gone before that.
TickSync(p) ==
  /\ At(p, "idle") /\ ~ctx[p] /\ ~first[p] /\ exit[p] = "no"
  /\ Goto(p, "hook")
  /\ UNCHANGED <<nat, port, world, exit, ctx, first, text, last, found, todo, routes, dirty, bounds>>

\* Faulty variant: the sync does not look after the jumps.
ensureHook_never(p) ==
  /\ At(p, "hook")
  /\ Goto(p, "poll")
  /\ UNCHANGED <<nat, port, world, exit, ctx, first, text, last, found, todo, routes, dirty, bounds>>

\* ensureHook: create the chains, check for a jump and only then insert one.
ensureHook(p) ==
  /\ At(p, "hook")
  /\ chain' = TRUE
  /\ Goto(p, IF jumps = 0 THEN "rehook" ELSE "poll")
  /\ UNCHANGED <<jumps, base, rules, port, world, exit, ctx, first, text, last, found, todo, routes, dirty, bounds>>

\* clusterSnapshot and rulesMissing decide whether the rules are rebuilt.
Poll(p) ==
  /\ At(p, "poll")
  /\ text' = [text EXCEPT ![p] = IF api THEN "current" ELSE "empty"]
  /\ found' = [found EXCEPT ![p] = IF api THEN services ELSE {}]
  /\ Goto(p, IF last[p] = text'[p] /\ chain /\ base THEN "idle" ELSE "flush")
  /\ UNCHANGED <<nat, port, world, exit, ctx, first, last, todo, routes, dirty, bounds>>

FlushChains(p) ==
  /\ At(p, "flush") /\ chain
  /\ base' = FALSE
  /\ rules' = {}
  /\ Goto(p, "base")
  /\ UNCHANGED <<chain, jumps, port, world, exit, ctx, first, text, last, found, todo, routes, dirty, bounds>>

AppendBase(p) ==
  /\ At(p, "base") /\ chain
  /\ base' = TRUE
  /\ todo' = [todo EXCEPT ![p] = found[p]]
  /\ Goto(p, "add")
  /\ UNCHANGED <<chain, jumps, rules, port, world, exit, ctx, first, text, last, found, routes, dirty, bounds>>

\* addServiceRules: one Service after the other; an error ends it and is logged.
AddService(p) ==
  /\ At(p, "add") /\ chain
  /\ \E s \in todo[p] :
       /\ rules' = rules \cup {s}
       /\ todo' = [todo EXCEPT ![p] = @ \ {s}]
  /\ UNCHANGED <<chain, jumps, base, port, world, pc, exit, ctx, first, text, last, found, routes, dirty, bounds>>

ServicesAdded(p) ==
  /\ At(p, "add") /\ (todo[p] = {} \/ ~chain)
  /\ Goto(p, "publish")
  /\ UNCHANGED <<nat, port, world, exit, ctx, first, text, last, found, todo, routes, dirty, bounds>>

\* setRoutes and lastSnapshot; the first sync is followed by serve.
Publish(p) ==
  /\ At(p, "publish")
  /\ routes' = [routes EXCEPT ![p] = found[p] \ todo[p]]
  /\ last' = [last EXCEPT ![p] = text[p]]
  /\ Goto(p, "idle")
  /\ UNCHANGED <<nat, port, world, exit, ctx, first, text, found, todo, dirty, bounds>>

\* Faulty variant: cleanup is deferred only once the listeners are open.
Serve_noCleanup(p) ==
  /\ At(p, "idle") /\ first[p] /\ exit[p] = "no"
  /\ first' = [first EXCEPT ![p] = FALSE]
  /\ IF port = None /\ ~ctx[p]
       THEN port' = p /\ UNCHANGED pc
       ELSE Goto(p, "off") /\ UNCHANGED port
  /\ UNCHANGED <<nat, world, exit, ctx, text, last, found, todo, routes, dirty, bounds>>

\* serve: the listeners; an address in use, or a cancelled context, ends the
\* process through its deferred cleanup.
Serve(p) ==
  /\ At(p, "idle") /\ first[p] /\ exit[p] = "no"
  /\ first' = [first EXCEPT ![p] = FALSE]
  /\ IF port = None /\ ~ctx[p]
       THEN port' = p /\ UNCHANGED exit
       ELSE exit' = [exit EXCEPT ![p] = "unhook"] /\ UNCHANGED port
  /\ UNCHANGED <<nat, world, pc, ctx, text, last, found, todo, routes, dirty, bounds>>

-----------------------------------------------------------------------------
(* The end of a process.                                                   *)

\* A command fails: the sync returns the error, and the process ends if it does
\* not serve yet; before that sync it ends without its cleanup.
SyncFails(p) ==
  /\ Goto(p, IF At(p, "insert") THEN "off" ELSE "idle")
  /\ dirty' = (dirty \/ At(p, "insert"))
  /\ first' = [first EXCEPT ![p] = FALSE]
  /\ exit' = IF first[p] /\ ~At(p, "insert") THEN [exit EXCEPT ![p] = "unhook"] ELSE exit
  /\ UNCHANGED <<nat, port, world, ctx, text, last, found, todo, routes>>

CommandFails(p) ==
  /\ faults < MaxFaults
  /\ pc[p] \in {"insert", "rehook", "flush", "base"}
  /\ faults' = faults + 1
  /\ SyncFails(p)
  /\ UNCHANGED <<kills, flushes>>

\* The chain was deleted under the sync.
ChainGone(p) ==
  /\ ~chain /\ pc[p] \in {"insert", "rehook", "flush", "base"}
  /\ SyncFails(p)
  /\ UNCHANGED bounds

\* SIGTERM: a serving process closes its listeners and cleans up, while its sync
\* goroutine carries on; one that does not serve yet finishes its first sync.
Terminate(p) ==
  /\ ~At(p, "off") /\ ~ctx[p] /\ kills < MaxKills
  /\ kills' = kills + 1
  /\ ctx' = [ctx EXCEPT ![p] = TRUE]
  /\ IF port = p
       THEN port' = None /\ exit' = [exit EXCEPT ![p] = "unhook"]
       ELSE UNCHANGED <<port, exit>>
  /\ UNCHANGED <<nat, world, pc, first, text, last, found, todo, routes, dirty, flushes, faults>>

\* cleanup deletes jumps until there is none, ...
Unhook(p) ==
  /\ exit[p] = "unhook"
  /\ jumps' = 0
  /\ exit' = [exit EXCEPT ![p] = "clear"]
  /\ dirty' = (dirty \/ pc[p] # "idle")
  /\ UNCHANGED <<chain, base, rules, port, world, pc, ctx, first, text, last, found, todo, routes, bounds>>

\* ... flushes the chains and deletes them unless a jump refers to them.  The
\* process ends, and its sync goroutine with it, wherever that is.
ClearChains(p) ==
  /\ exit[p] = "clear"
  /\ base' = FALSE
  /\ rules' = {}
  /\ chain' = (chain /\ jumps > 0)
  /\ exit' = [exit EXCEPT ![p] = "no"]
  /\ Goto(p, "off")
  /\ UNCHANGED <<jumps, port, world, ctx, first, text, last, found, todo, routes, dirty, bounds>>

-----------------------------------------------------------------------------
(* The world around it.                                                    *)

Superseded == /\ text' = [p \in Procs |-> IF text[p] = "current" THEN "old" ELSE text[p]]
              /\ last' = [p \in Procs |-> IF last[p] = "current" THEN "old" ELSE last[p]]

\* kubelets refresh their Node's status: the snapshot's text changes.
Heartbeat ==
  /\ api
  /\ \E p \in Procs : "current" \in {text[p], last[p]}
  /\ Superseded
  /\ UNCHANGED <<nat, port, world, pc, exit, ctx, first, found, todo, routes, dirty, bounds>>

ChangeServices ==
  /\ changes < MaxChanges
  /\ changes' = changes + 1
  /\ \/ \E s \in SUBSET Services : s # services /\ services' = s /\ Superseded /\ UNCHANGED api
     \/ api' = ~api /\ UNCHANGED <<services, text, last>>
  /\ UNCHANGED <<nat, port, pc, exit, ctx, first, found, todo, routes, dirty, bounds>>

\* Another program flushes or restores the nat table.
FlushTable ==
  /\ flushes < MaxFlushes
  /\ flushes' = flushes + 1
  /\ chain' = FALSE /\ jumps' = 0 /\ base' = FALSE /\ rules' = {}
  /\ UNCHANGED <<port, world, local, dirty, kills, faults>>

-----------------------------------------------------------------------------

Init ==
  /\ chain = FALSE /\ jumps = 0 /\ base = FALSE /\ rules = {}
  /\ port = None
  /\ api = TRUE /\ services = {}
  /\ pc = [p \in Procs |-> "off"]
  /\ exit = [p \in Procs |-> "no"]
  /\ ctx = [p \in Procs |-> FALSE] /\ first = [p \in Procs |-> FALSE]
  /\ text = [p \in Procs |-> "empty"] /\ last = [p \in Procs |-> "unset"]
  /\ found = [p \in Procs |-> {}] /\ todo = [p \in Procs |-> {}]
  /\ routes = [p \in Procs |-> {}]
  /\ dirty = FALSE
  /\ changes = 0 /\ kills = 0 /\ flushes = 0 /\ faults = 0

SyncStep(p) ==
  \/ ResetHook(p) \/ InsertHook(p) \/ ensureHook(p) \/ Poll(p) \/ FlushChains(p)
  \/ AppendBase(p) \/ AddService(p) \/ ServicesAdded(p) \/ Publish(p) \/ Serve(p)
  \/ ChainGone(p)

ExitStep(p) == Unhook(p) \/ ClearChains(p)

Next ==
  \/ \E p \in Procs : \/ Start(p) \/ SyncStep(p) \/ TickSync(p) \/ ExitStep(p)
                      \/ CommandFails(p) \/ Terminate(p)
  \/ Heartbeat \/ ChangeServices \/ FlushTable

Fairness ==
  /\ \A p \in Procs : /\ WF_vars(Start(p)) /\ WF_vars(SyncStep(p))
                      /\ WF_vars(TickSync(p)) /\ WF_vars(ExitStep(p))
  /\ WF_vars(Heartbeat)

Spec == Init /\ [][Next]_vars /\ Fairness

-----------------------------------------------------------------------------
(* Properties.                                                             *)

\* Once every proxy on the node has ended through its cleanup with its sync loop
\* at rest, nothing is redirected to the port nobody listens on any more: also
\* when two processes overlapped and each inserted a jump.
NoLeftoverJump == (\A p \in Procs : At(p, "off")) /\ ~dirty => jumps = 0

\* What the node redirects and routes when all is well.
Programmed ==
  \E p \in Procs :
    LET known == IF api THEN services ELSE {}
    IN port = p /\ chain /\ jumps > 0 /\ base /\ rules = known /\ routes[p] = known

\* The proxy heals itself: after a flush by another program, a failed command, a
\* restart that overlaps the old process or an API outage, a serving proxy is
\* programmed for the current Services again.
RulesRestored == []<>Programmed

=============================================================================
