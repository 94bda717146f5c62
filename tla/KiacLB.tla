------------------------------- MODULE KiacLB -------------------------------
(***************************************************************************)
(* kiac-lb, the shell loop of pkg/cluster/lb.go that gives every Service   *)
(* of type LoadBalancer a node address per requested family.  A pass reads *)
(* the nodes, then the Services, and then decides and patches one Service  *)
(* after the other, while nodes fail and return with other addresses and   *)
(* Services come and go.                                                   *)
(***************************************************************************)
EXTENDS Naturals, FiniteSets

CONSTANTS
  Nodes, Workers,    \* Nodes are numbered in the order kubectl lists them
  Primary,           \* the node labelled kiac.io/lb-primary
  Services,          \* numbered in the order kubectl lists them
  IPs, Family,       \* addresses and the family of each, "v4" or "v6"
  Ports,
  InitPorts,         \* the ports of a Service when it is first created
  Declared,          \* spec.ipFamilies of a Service
  InitAddrs,         \* the InternalIPs of the nodes at first
  MaxChanges         \* bound on changes of the cluster, crashes and failures

ASSUME LBAssumption ==
  /\ Nodes \subseteq Nat /\ Services \subseteq Nat
  /\ Workers \subseteq Nodes /\ Primary \in Nodes
  /\ Family \in [IPs -> {"v4", "v6"}]
  /\ InitPorts \in [Services -> SUBSET Ports]
  /\ Declared \in [Services -> SUBSET {"v4", "v6"}]
  /\ InitAddrs \in [Nodes -> SUBSET IPs]
  /\ MaxChanges \in Nat

VARIABLES
  ready, addrs,      \* Nodes: the Ready condition and the InternalIPs
  live,              \* Services of type LoadBalancer
  ports, ingress,    \* a Service's ports and its status.loadBalancer.ingress
  edited,            \* ghost: Services whose ports were ever edited
  pc,                \* the loop: about to read "nodes" or "svcs", or in the second "sweep"
  nodes,             \* $DIR/nodes: the addresses of the eligible nodes, {} for others
  svcs, svcPorts,    \* $DIR/svcs: ingress and ports of the Services read
  todo,              \* lines of $DIR/svcs the second sweep has not reached
  used,              \* $DIR/used
  changes            \* changes left

cluster == <<ready, addrs, live, ports, edited>>
files == <<nodes, svcs, svcPorts, todo, used>>
vars == <<ready, addrs, live, ports, edited, ingress, pc, nodes, svcs, svcPorts, todo, used, changes>>

TypeOK ==
  /\ ready \in [Nodes -> BOOLEAN] /\ addrs \in [Nodes -> SUBSET IPs]
  /\ live \subseteq Services /\ edited \subseteq Services
  /\ ports \in [Services -> SUBSET Ports] /\ ingress \in [Services -> SUBSET IPs]
  /\ pc \in {"nodes", "svcs", "sweep"}
  /\ nodes \in [Nodes -> SUBSET IPs]
  /\ svcs \in [Services -> SUBSET IPs] /\ svcPorts \in [Services -> SUBSET Ports]
  /\ todo \subseteq Services
  /\ used \subseteq IPs \X Ports
  /\ changes \in Nat

-----------------------------------------------------------------------------
(* Helpers of the script.                                                  *)

\* eligible_nodes: Ready workers, or every Ready node of a cluster without workers.
eligible_nodes ==
  [n \in Nodes |-> IF ready[n] /\ (Workers = {} \/ n \in Workers) THEN addrs[n] ELSE {}]

is_eligible_ip(ip) == \E n \in Nodes : ip \in nodes[n]

claim(ip, ps) == {<<ip, p>> : p \in ps}

conflicts(ip, ps) == claim(ip, ps) \cap used # {}

svc_families(s) == IF Declared[s] = {} THEN {"v4"} ELSE Declared[s]

\* The addresses of family f on node n that the ports ps do not collide on.
FreeOn(n, f, ps) == {ip \in nodes[n] : Family[ip] = f /\ ~conflicts(ip, ps)}

\* choose_addr for a Service with ready endpoints on the nodes eps: an address of
\* one of those, else of the primary node, else of the first node that has one.
choose_addr(eps, f, ps) ==
  LET free == {n \in Nodes : FreeOn(n, f, ps) # {}}
      from == IF eps \cap free # {} THEN eps \cap free
              ELSE IF Primary \in free THEN {Primary}
              ELSE {n \in free : \A m \in free : n <= m}
  IN  UNION {FreeOn(n, f, ps) : n \in from}

\* The address of family f the second sweep may keep for Service s.
Kept(s, f) == {ip \in svcs[s] : Family[ip] = f /\ is_eligible_ip(ip)}

\* Faulty variant: an address is chosen anew on every pass.
Wanted_afresh(s, f, eps) == choose_addr(eps, f, svcPorts[s])

\* Faulty variant: an ingress address is kept whatever became of its node.
Wanted_stale(s, f, eps) ==
  LET old == {ip \in svcs[s] : Family[ip] = f}
  IN  IF old # {} THEN old ELSE choose_addr(eps, f, svcPorts[s])

Wanted(s, f, eps) ==
  IF Kept(s, f) # {} THEN Kept(s, f) ELSE choose_addr(eps, f, svcPorts[s])

-----------------------------------------------------------------------------
(* A pass.  A failing kubectl ends it, and the next one starts over.       *)

ReadNodes ==
  /\ pc = "nodes"
  /\ nodes' = eligible_nodes
  /\ pc' = IF \A n \in Nodes : eligible_nodes[n] = {} THEN "nodes" ELSE "svcs"
  /\ UNCHANGED <<cluster, ingress, svcs, svcPorts, todo, used, changes>>

\* Faulty variant: the first sweep is left out.
ReadServices_noSweep ==
  /\ pc = "svcs"
  /\ svcs' = [s \in Services |-> IF s \in live THEN ingress[s] ELSE {}]
  /\ svcPorts' = ports
  /\ used' = {}
  /\ todo' = live
  /\ pc' = "sweep"
  /\ UNCHANGED <<cluster, ingress, nodes, changes>>

\* The Services are read, and the first sweep records what they hold.
ReadServices ==
  /\ pc = "svcs"
  /\ svcs' = [s \in Services |-> IF s \in live THEN ingress[s] ELSE {}]
  /\ svcPorts' = ports
  /\ used' = UNION {UNION {claim(ip, ports[s]) : ip \in {x \in ingress[s] : is_eligible_ip(x)}} :
                      s \in live}
  /\ todo' = live
  /\ pc' = "sweep"
  /\ UNCHANGED <<cluster, ingress, nodes, changes>>

\* patch_svc: a Service that is gone cannot be patched; want # {} is written when it
\* differs from what was read.
patch_svc(s, want) ==
  ingress' = IF s \in live /\ want # {} /\ want # svcs[s]
             THEN [ingress EXCEPT ![s] = want] ELSE ingress

\* One line of the second sweep: an address per family, claimed at once, and one
\* patch, which may fail.
SweepService(s) ==
  /\ pc = "sweep" /\ s \in todo /\ \A t \in todo : s <= t
  /\ \E eps \in SUBSET Nodes : \E want \in SUBSET IPs :
       /\ \A ip \in want : Family[ip] \in svc_families(s)
       /\ \A f \in svc_families(s) :
            LET chosen == {ip \in want : Family[ip] = f}
            IN  IF Wanted(s, f, eps) = {} THEN chosen = {}
                ELSE \E ip \in Wanted(s, f, eps) : chosen = {ip}
       /\ used' = used \cup UNION {claim(ip, svcPorts[s]) : ip \in want}
       /\ \/ /\ patch_svc(s, want) /\ UNCHANGED changes
          \/ /\ changes > 0 /\ changes' = changes - 1
             /\ UNCHANGED ingress
  /\ todo' = todo \ {s}
  /\ UNCHANGED <<cluster, pc, nodes, svcs, svcPorts>>

EndPass ==
  /\ pc = "sweep" /\ todo = {}
  /\ pc' = "nodes"
  /\ UNCHANGED <<cluster, ingress, files, changes>>

\* A kubectl get fails, or the script dies and systemd or the supervisor restarts it.
Restart ==
  /\ pc # "nodes" /\ changes > 0
  /\ pc' = "nodes" /\ changes' = changes - 1
  /\ UNCHANGED <<cluster, ingress, files>>

-----------------------------------------------------------------------------
(* The cluster.                                                            *)

NodeFails(n) ==
  /\ changes > 0 /\ ready[n]
  /\ ready' = [ready EXCEPT ![n] = FALSE]
  /\ changes' = changes - 1
  /\ UNCHANGED <<addrs, live, ports, edited, ingress, pc, files>>

\* A node returns with addresses that no other Ready node has.
NodeReturns(n) ==
  /\ changes > 0 /\ ~ready[n]
  /\ \E new \in SUBSET IPs :
       /\ \A f \in {"v4", "v6"} : \A x, y \in new : Family[x] = f /\ Family[y] = f => x = y
       /\ \E x \in new : TRUE
       /\ \A m \in Nodes \ {n} : ready[m] => addrs[m] \cap new = {}
       /\ addrs' = [addrs EXCEPT ![n] = new]
  /\ ready' = [ready EXCEPT ![n] = TRUE]
  /\ changes' = changes - 1
  /\ UNCHANGED <<live, ports, edited, ingress, pc, files>>

CreateService(s) ==
  /\ changes > 0 /\ s \notin live
  /\ live' = live \cup {s}
  /\ ingress' = [ingress EXCEPT ![s] = {}]
  /\ changes' = changes - 1
  /\ UNCHANGED <<ready, addrs, ports, edited, pc, files>>

DeleteService(s) ==
  /\ changes > 0 /\ s \in live
  /\ live' = live \ {s}
  /\ ingress' = [ingress EXCEPT ![s] = {}]
  /\ changes' = changes - 1
  /\ UNCHANGED <<ready, addrs, ports, edited, pc, files>>

EditPorts(s) ==
  /\ changes > 0 /\ s \in live
  /\ \E ps \in SUBSET Ports : ps # {} /\ ports' = [ports EXCEPT ![s] = ps]
  /\ edited' = edited \cup {s} /\ changes' = changes - 1
  /\ UNCHANGED <<ready, addrs, live, ingress, pc, files>>

-----------------------------------------------------------------------------
Init ==
  /\ ready = [n \in Nodes |-> TRUE] /\ addrs = InitAddrs
  /\ live = {} /\ ports = InitPorts /\ edited = {}
  /\ ingress = [s \in Services |-> {}]
  /\ pc = "nodes"
  /\ nodes = [n \in Nodes |-> {}]
  /\ svcs = [s \in Services |-> {}] /\ svcPorts = InitPorts
  /\ todo = {} /\ used = {}
  /\ changes = MaxChanges

PassStep == ReadNodes \/ ReadServices \/ (\E s \in Services : SweepService(s)) \/ EndPass

Next ==
  \/ PassStep \/ Restart
  \/ \E n \in Nodes : NodeFails(n) \/ NodeReturns(n)
  \/ \E s \in Services : CreateService(s) \/ DeleteService(s) \/ EditPorts(s)

Spec == Init /\ [][Next]_vars

\* The loop never exits, and what ends it restarts it.
FairSpec == Spec /\ WF_vars(PassStep)

-----------------------------------------------------------------------------
(* Properties.                                                             *)

\* Two LoadBalancer Services whose ports are never edited never hold the same address
\* with a port in common: a connection to an address and port has one Service.  The
\* claims of one pass have to cover what earlier passes assigned while nodes went away
\* and came back with the addresses of others.  (Ports edited into a collision stay in
\* it: a pass keeps an eligible address without looking at the claims.)
PortsDisjoint ==
  \A s, t \in live \ edited :
    s # t /\ ingress[s] \cap ingress[t] # {} => ports[s] \cap ports[t] = {}

\* In a sweep, what a Service holds, or will be found to hold, on an eligible node is
\* claimed, and no two such holdings collide: the inductive form of PortsDisjoint.
Holds(s, ip) ==
  \/ s \in live /\ ip \in ingress[s]
  \/ pc = "sweep" /\ s \in todo /\ ip \in svcs[s] /\ is_eligible_ip(ip)

ClaimsCover ==
  /\ pc = "sweep" => \A s \in Services \ edited : svcPorts[s] = ports[s]
  /\ pc = "sweep" => \A s \in Services \ edited : \A ip \in IPs :
       Holds(s, ip) /\ is_eligible_ip(ip) => claim(ip, ports[s]) \subseteq used
  /\ \A s, t \in Services \ edited : \A ip \in IPs :
       s # t /\ Holds(s, ip) /\ Holds(t, ip) => ports[s] \cap ports[t] = {}

\* kiac-lb never takes a Service off an address that was eligible when the pass read
\* the nodes: clients of a healthy node are not moved about.
StickyAddress ==
  [][\A s \in live \cap live' : \A ip \in ingress[s] :
       pc = "sweep" /\ is_eligible_ip(ip) /\ Family[ip] \in svc_families(s) => ip \in ingress'[s]]_vars

HeldByOther(s, ip) ==
  \E t \in live \ {s} : ip \in ingress[t] /\ ports[s] \cap ports[t] # {}

Eligible(ip) == \E n \in Nodes : ip \in eligible_nodes[n]

Served(s, f) ==
  \/ \E ip \in ingress[s] : Family[ip] = f /\ Eligible(ip)
  \/ \A ip \in IPs : Family[ip] = f /\ Eligible(ip) => HeldByOther(s, ip)

\* Once the cluster stops changing every Service gets an address of a Ready node in
\* each family it asks for, unless other Services hold its ports on all of them; a
\* stale address is re-pointed.
Settles == <>[](\A s \in live : \A f \in svc_families(s) : Served(s, f))

=============================================================================
