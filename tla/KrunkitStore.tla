---------------------------- MODULE KrunkitStore ----------------------------
(***************************************************************************)
(* The krunkit backend's durable store (pkg/runtime/krunkit.go,            *)
(* krunkit_state.go, krunkit_address.go): kiac processes that create,      *)
(* start, stop, remove, list and exec into VMs, against a host whose       *)
(* processes die, whose PIDs are reused and which may kill kiac anywhere.  *)
(*                                                                         *)
(* Lifecycle operations run under one flock (lock); Exec and IP read the   *)
(* store without it.  A step below is the code between two points at which *)
(* a crash, a failure or another process can be observed.  Nodes are       *)
(* numbered in the order os.ReadDir lists their directories.  The address  *)
(* of a VM is abstracted to the number of the boot that obtained it.       *)
(***************************************************************************)
EXTENDS Naturals, FiniteSets

CONSTANTS
  Clients,     \* kiac processes (or goroutines) using the store
  Nodes,       \* VM names, as positive numbers in directory order
  NetIDs,      \* network IDs, one per cluster
  NetOf,       \* the network each node is created in
  Pool,        \* number of candidate 192.168.x.0/24 subnets (145 in the code)
  Hash,        \* fnv32(id) % Pool for each network ID
  Pids,        \* host process IDs
  Legacy,      \* nodes whose state predates process identity and reports
  PsMayFail,   \* whether ps may fail transiently
  MayStick,    \* whether a started process may outlive SIGKILL's wait
  MaxClock,    \* bound: seconds the process start time can tell apart
  MaxBoots,    \* bound: VM boots
  MaxKills,    \* bound: kills of a kiac process
  MaxReboots,  \* bound: host reboots
  None         \* "no client", "no process", "no state", "no report"

ASSUME ConstantsAssumption ==
  /\ Nodes \subseteq Nat \ {0} /\ Nodes # {}
  /\ NetOf \in [Nodes -> NetIDs]
  /\ Pool \in Nat \ {0}
  /\ Hash \in [NetIDs -> 0 .. Pool - 1]
  /\ Pids \subseteq Nat \ {0}
  /\ Legacy \subseteq Nodes
  /\ PsMayFail \in BOOLEAN /\ MayStick \in BOOLEAN
  /\ MaxClock \in Nat \ {0} /\ MaxBoots \in Nat \ {0} /\ MaxKills \in Nat /\ MaxReboots \in Nat
  /\ None \notin Clients /\ None \notin Nodes

VARIABLES
  lock,       \* the client holding <root>/.lock, or None
  pc,         \* where each client is
  op,         \* the operation each client executes
  arg,        \* the node it is about
  st,         \* the KrunkitNodeState each client has in hand
  addr,       \* the address an Exec resolved
  dirs,       \* nodes whose directory exists
  store,      \* nodes/<name>/state.json, None when absent
  netfile,    \* networks/<id>.json: the subnet's third octet, None when absent
  generation, \* guest-status/generation.json, 0 when absent
  report,     \* guest-status/address.json, None when absent
  procs,      \* the host's process table
  clock,      \* the second the host is in
  boots,      \* boots so far: the next boot's identity is boots + 1
  lost,       \* ghost: live VM processes that kiac let go of without stopping
  strays,     \* ghost: nodes that ever had a lost process
  kills, reboots

client == <<lock, pc, op, arg, st, addr>>
disk   == <<dirs, store, netfile, generation, report>>
host   == <<procs, clock, boots, lost, strays, kills, reboots>>
vars   == <<client, disk, host>>

Octets  == 0 .. Pool - 1
Seconds == 0 .. MaxClock
BootIDs == 0 .. MaxBoots

\* The fields of KrunkitNodeState the lifecycle depends on.  octet is
\* NetworkCIDR, hash the node whose command line was recorded, guest is
\* GuestAddressReport and gen AddressGeneration; 0 stands for "not set".
KrunkitNodeState ==
  [status : {"running", "stopped"}, pid : Pids \cup {0}, start : Seconds,
   hash : Nodes \cup {0}, ip : BootIDs, gen : BootIDs,
   octet : Octets, guest : BOOLEAN]

\* A live process: a VM of a node, or (node = 0) any unrelated program.
Process == [node : Nodes \cup {0}, start : Seconds, boot : BootIDs]

\* None is none of the values it stands for the absence of.
ASSUME NoneAssumption ==
  None \notin KrunkitNodeState /\ None \notin Process /\ None \notin Octets

Ops == {"create", "start", "stop", "remove", "exec"}

\* The program points at which the store lock is held.
Locked == {"net", "dir", "start", "prep", "spawned", "recorded", "clean",
           "forget", "stopping", "signalled", "rmdir"}
Points == Locked \cup {"idle", "addr", "ssh"}

NoNodeState == [status |-> "stopped", pid |-> 0, start |-> 0, hash |-> 0,
                ip |-> 0, gen |-> 0, octet |-> 0, guest |-> TRUE]

SomeNode == CHOOSE n \in Nodes : TRUE

TypeOK ==
  /\ lock \in Clients \cup {None}
  /\ pc \in [Clients -> Points]
  /\ op \in [Clients -> Ops]
  /\ arg \in [Clients -> Nodes]
  /\ st \in [Clients -> KrunkitNodeState]
  /\ addr \in [Clients -> BootIDs]
  /\ dirs \subseteq Nodes
  /\ store \in [Nodes -> KrunkitNodeState \cup {None}]
  /\ netfile \in [NetIDs -> Octets \cup {None}]
  /\ generation \in [Nodes -> BootIDs]
  /\ report \in [Nodes -> [gen : BootIDs, ip : BootIDs] \cup {None}]
  /\ procs \in [Pids -> Process \cup {None}]
  /\ clock \in Seconds
  /\ boots \in BootIDs
  /\ lost \subseteq Pids
  /\ strays \subseteq Nodes
  /\ kills \in 0 .. MaxKills
  /\ reboots \in 0 .. MaxReboots

-----------------------------------------------------------------------------
(* Reading the store and the process table.                                *)

Owns(n) == store[n] # None

\* Faulty variant: the command line is not compared, nor looked at for a state
\* that has no start time.
processOwned_startOnly(n, s) ==
  /\ s.pid # 0
  /\ procs[s.pid] # None
  /\ s.start # 0 => procs[s.pid].start = s.start

\* Whether the process the state names is this node's VM.  State of the
\* pre-identity backend (no start time) is adopted only when the live command
\* points back to this VM.
processOwned(n, s) ==
  /\ s.pid # 0
  /\ procs[s.pid] # None
  /\ IF s.start # 0
       THEN /\ procs[s.pid].start = s.start
            /\ procs[s.pid].node = s.hash
       ELSE procs[s.pid].node = n

\* What the code is told: a failing ps reads as "not this VM".
ownedAnswers(n, s) ==
  {processOwned(n, s)} \cup (IF PsMayFail THEN {FALSE} ELSE {})

\* processOwned fills in the identity of a legacy VM it adopts.
adopted(n, s) ==
  IF s.pid # 0 /\ s.start = 0 /\ processOwned(n, s)
    THEN [s EXCEPT !.start = procs[s.pid].start, !.hash = procs[s.pid].node]
    ELSE s

\* Faulty variant: any report will do, whichever boot it is from.
nodeAddress_anyGeneration(n, s) ==
  IF netfile[NetOf[n]] = None \/ netfile[NetOf[n]] # s.octet \/ report[n] = None
    THEN {0} ELSE {report[n].ip}

\* The addresses nodeAddress may return for a node in state s, 0 for an error.
\* A reporting VM is known by its report of the recorded boot generation only;
\* a legacy one by ARP (its live process) or by the address saved last.
nodeAddress(n, s) ==
  IF netfile[NetOf[n]] = None \/ netfile[NetOf[n]] # s.octet
    THEN {0}
  ELSE IF s.guest
    THEN IF report[n] # None /\ s.gen # 0 /\ report[n].gen = s.gen
           THEN {report[n].ip} ELSE {0}
    ELSE {s.ip} \cup {procs[p].boot : p \in {q \in Pids : procs[q] # None /\ procs[q].node = n}}

anonymous(s) == [s EXCEPT !.pid = 0, !.start = 0, !.hash = 0]
cleared(s) == [anonymous(s) EXCEPT !.status = "stopped"]

\* Ghost: the VM of a node goes on running while kiac stops naming it.
Lose(n, p) == lost' = lost \cup {p} /\ strays' = strays \cup {n}

LoseIfOwned(n, s) ==
  IF processOwned(n, s) THEN Lose(n, s.pid) ELSE UNCHANGED <<lost, strays>>

-----------------------------------------------------------------------------
(* Steps of a client.                                                      *)

At(c, l) == pc[c] = l
Goto(c, l) == pc' = [pc EXCEPT ![c] = l]

\* lockStore: taken by an idle client when nobody holds it.
Acquire(c, o, n, l) ==
  /\ At(c, "idle") /\ lock = None
  /\ lock' = c
  /\ Goto(c, l)
  /\ op' = [op EXCEPT ![c] = o]
  /\ arg' = [arg EXCEPT ![c] = n]

\* The operation returns; what the client had in hand is gone.
Return(c) ==
  /\ Goto(c, "idle")
  /\ op' = [op EXCEPT ![c] = "exec"]
  /\ arg' = [arg EXCEPT ![c] = SomeNode]
  /\ st' = [st EXCEPT ![c] = NoNodeState]
  /\ addr' = [addr EXCEPT ![c] = 0]

Release(c) == lock' = None /\ Return(c)

\* An operation that takes the lock, does its work and returns in one step.
Atomically(c) == At(c, "idle") /\ lock = None /\ UNCHANGED <<lock, pc, op, arg>>

\* Faulty variant: only the host's interfaces are avoided.
ChosenOctet_ifacesOnly(id, ifaces, o) == o \notin ifaces

\* The subnet of a new network: the first candidate, counting from the hash of
\* its ID, that neither an interface of the host nor a recorded network uses.
ChosenOctet(id, ifaces, o) ==
  LET used == ifaces \cup {netfile[i] : i \in {j \in NetIDs : netfile[j] # None}}
      candidate(k) == (Hash[id] + k) % Pool
  IN \E k \in 0 .. Pool - 1 :
       /\ o = candidate(k)
       /\ o \notin used
       /\ \A j \in 0 .. k - 1 : candidate(j) \in used

\* RunDetached up to ensureNetwork; with no free subnet it returns an error
\* and changes nothing.
RunDetached(c, n) ==
  /\ Acquire(c, "create", n, "net")
  /\ ~Owns(n)
  /\ \/ netfile[NetOf[n]] # None /\ UNCHANGED netfile
     \/ /\ netfile[NetOf[n]] = None
        /\ \E ifaces \in SUBSET Octets, o \in Octets :
             /\ ChosenOctet(NetOf[n], ifaces, o)
             /\ netfile' = [netfile EXCEPT ![NetOf[n]] = o]
  /\ UNCHANGED <<st, addr, dirs, store, generation, report, host>>

MakeNodeDir(c) ==
  /\ At(c, "net")
  /\ Goto(c, "dir")
  /\ dirs' = dirs \cup {arg[c]}
  /\ UNCHANGED <<lock, op, arg, st, addr, store, netfile, generation, report, host>>

\* The disk and the seed are made; state.json appears with status "stopped".
WriteNewState(c) ==
  LET s == [NoNodeState EXCEPT !.octet = netfile[NetOf[arg[c]]]]
  IN /\ At(c, "dir")
     /\ Goto(c, "start")
     /\ st' = [st EXCEPT ![c] = s]
     /\ store' = [store EXCEPT ![arg[c]] = s]
     /\ UNCHANGED <<lock, op, arg, addr, dirs, netfile, generation, report, host>>

Start(c, n) ==
  /\ Acquire(c, "start", n, "start")
  /\ Owns(n)
  /\ st' = [st EXCEPT ![c] = store[n]]
  /\ UNCHANGED <<addr, disk, host>>

\* startState on a VM that runs already only records so.
AlreadyRunning(c) ==
  /\ At(c, "start")
  /\ processOwned(arg[c], st[c])
  /\ store' = [store EXCEPT ![arg[c]] = [adopted(arg[c], st[c]) EXCEPT !.status = "running"]]
  /\ Release(c)
  /\ UNCHANGED <<dirs, netfile, generation, report, host>>

\* Faulty variant: a VM that may be running already is booted.
PrepareBoot_unchecked(c) ==
  /\ At(c, "start")
  /\ netfile[NetOf[arg[c]]] # None
  /\ boots < MaxBoots
  /\ boots' = boots + 1
  /\ report' = [report EXCEPT ![arg[c]] = None]
  /\ generation' = [generation EXCEPT ![arg[c]] = boots + 1]
  /\ st' = [st EXCEPT ![c].gen = boots + 1, ![c].ip = 0]
  /\ Goto(c, "prep")
  /\ UNCHANGED <<lock, op, arg, addr, dirs, store, netfile, procs, clock, lost, strays,
                 kills, reboots>>

\* prepareGuestAddressReport, after loadNetwork: the old report is removed
\* before the new boot's generation is published.
PrepareBoot(c) ==
  /\ At(c, "start")
  /\ FALSE \in ownedAnswers(arg[c], st[c])
  /\ netfile[NetOf[arg[c]]] # None
  /\ boots < MaxBoots
  /\ boots' = boots + 1
  /\ IF st[c].guest
       THEN /\ report' = [report EXCEPT ![arg[c]] = None]
            /\ generation' = [generation EXCEPT ![arg[c]] = boots + 1]
            /\ st' = [st EXCEPT ![c].gen = boots + 1, ![c].ip = 0]
       ELSE UNCHANGED <<report, generation, st>>
  /\ LoseIfOwned(arg[c], st[c])
  /\ Goto(c, "prep")
  /\ UNCHANGED <<lock, op, arg, addr, dirs, store, netfile, procs, clock, kills, reboots>>

\* cmd.Start: the VM runs, and only this client knows its PID.
Spawn(c) ==
  /\ At(c, "prep")
  /\ \E p \in Pids :
       /\ procs[p] = None
       /\ procs' = [procs EXCEPT ![p] = [node |-> arg[c], start |-> clock, boot |-> boots]]
       /\ st' = [st EXCEPT ![c].pid = p, ![c].start = clock, ![c].hash = arg[c],
                           ![c].ip = 0, ![c].status = "running"]
  /\ Goto(c, "spawned")
  /\ UNCHANGED <<lock, op, arg, addr, disk, clock, boots, lost, strays, kills, reboots>>

\* The identity of the process is read and state.json names it.
RecordProcess(c) ==
  /\ At(c, "spawned")
  /\ store' = [store EXCEPT ![arg[c]] = st[c]]
  /\ Goto(c, "recorded")
  /\ UNCHANGED <<lock, op, arg, st, addr, dirs, netfile, generation, report, host>>

\* cmd.Process.Release succeeds and the operation returns.
Started(c) ==
  /\ At(c, "recorded")
  /\ Release(c)
  /\ UNCHANGED <<disk, host>>

\* A failing step of startState: RunDetached undoes the creation, Start returns.
AfterFailure(c) ==
  IF op[c] = "create"
    THEN Goto(c, "clean") /\ UNCHANGED <<lock, op, arg, st, addr>>
    ELSE Release(c)

\* Post-start bookkeeping fails: terminateStartedCommand signals the process it
\* started and waits for it, though not forever.
TerminateStarted(c) ==
  /\ pc[c] \in {"spawned", "recorded"}
  /\ LET p == st[c].pid
         mine == processOwned(arg[c], st[c])
     IN \/ /\ procs' = IF mine THEN [procs EXCEPT ![p] = None] ELSE procs
           /\ lost' = lost \ {p}
           /\ UNCHANGED strays
        \/ /\ MayStick /\ mine
           /\ Lose(arg[c], p)
           /\ UNCHANGED procs
  /\ AfterFailure(c)
  /\ UNCHANGED <<disk, clock, boots, kills, reboots>>

\* Faulty variant: the early return skips the unlock.
FailEarly_locked(c) ==
  /\ pc[c] \in {"net", "dir", "start", "prep"}
  /\ Return(c)
  /\ UNCHANGED <<lock, disk, host>>

\* Any other error between ensureNetwork and cmd.Start.
FailEarly(c) ==
  /\ pc[c] \in {"net", "dir", "start", "prep"}
  /\ IF pc[c] = "net"
       THEN Goto(c, "forget") /\ UNCHANGED <<lock, op, arg, st, addr>>
       ELSE AfterFailure(c)
  /\ UNCHANGED <<disk, host>>

\* os.RemoveAll of a node directory, which may fail half way: the error is
\* ignored by RunDetached and only remembered by Remove.
RemoveNodeDir(c, l) ==
  LET n == arg[c]
  IN /\ \/ dirs' = dirs \ {n} /\ store' = [store EXCEPT ![n] = None]
           /\ report' = [report EXCEPT ![n] = None]
           /\ generation' = [generation EXCEPT ![n] = 0]
        \/ UNCHANGED <<dirs, report, generation>> /\ store' = [store EXCEPT ![n] = None]
        \/ UNCHANGED <<dirs, report, generation, store>>
     /\ Goto(c, l)
     /\ UNCHANGED <<lock, op, arg, st, addr, netfile, host>>

CleanNodeDir(c) == At(c, "clean") /\ RemoveNodeDir(c, "forget")

RemoveStoppedDir(c) == At(c, "rmdir") /\ RemoveNodeDir(c, "forget")

\* removeUnusedNetwork: the network goes once no readable state names it.
removeUnusedNetwork(c) ==
  LET id == NetOf[arg[c]]
  IN /\ At(c, "forget")
     /\ netfile' = IF \E n \in Nodes : store[n] # None /\ NetOf[n] = id
                     THEN netfile ELSE [netfile EXCEPT ![id] = None]
     /\ Release(c)
     /\ UNCHANGED <<dirs, store, generation, report, host>>

\* stopLocked, from Stop and from Remove: a VM that does not run is recorded as
\* stopped at once (its saved address stays), a running one is asked to stop.
StopNotRunning(c, o, n) ==
  /\ Acquire(c, o, n, IF o = "remove" THEN "rmdir" ELSE "signalled")
  /\ Owns(n)
  /\ FALSE \in ownedAnswers(n, store[n])
  /\ store' = [store EXCEPT ![n] = cleared(store[n])]
  /\ st' = [st EXCEPT ![c] = cleared(store[n])]
  /\ LoseIfOwned(n, store[n])
  /\ UNCHANGED <<addr, dirs, netfile, generation, report, procs, clock, boots, kills, reboots>>

\* Faulty variant: Remove does not wait for the VM to stop.
StopRunning_noWait(c, o, n) ==
  /\ Acquire(c, o, n, IF o = "remove" THEN "rmdir" ELSE "stopping")
  /\ Owns(n)
  /\ processOwned(n, store[n])
  /\ st' = [st EXCEPT ![c] = adopted(n, store[n])]
  /\ UNCHANGED <<addr, disk, host>>

StopRunning(c, o, n) ==
  /\ Acquire(c, o, n, "stopping")
  /\ Owns(n)
  /\ processOwned(n, store[n])
  /\ st' = [st EXCEPT ![c] = adopted(n, store[n])]
  /\ UNCHANGED <<addr, disk, host>>

Stop(c, n) == StopNotRunning(c, "stop", n) \/ StopRunning(c, "stop", n)
Remove(c, n) == StopNotRunning(c, "remove", n) \/ StopRunning(c, "remove", n)

\* The REST request, SIGTERM and SIGKILL, each sent only to an owned process.
SignalProcess(c) ==
  /\ At(c, "stopping")
  /\ processOwned(arg[c], st[c])
  /\ procs' = [procs EXCEPT ![st[c].pid] = None]
  /\ lost' = lost \ {st[c].pid}
  /\ UNCHANGED <<client, disk, clock, boots, strays, kills, reboots>>

\* The process is gone (or ps says so): state.json no longer names it.
StopFinished(c) ==
  /\ At(c, "stopping")
  /\ FALSE \in ownedAnswers(arg[c], st[c])
  /\ store' = [store EXCEPT ![arg[c]] = [cleared(st[c]) EXCEPT !.ip = 0]]
  /\ LoseIfOwned(arg[c], st[c])
  /\ Goto(c, IF op[c] = "remove" THEN "rmdir" ELSE "signalled")
  /\ UNCHANGED <<lock, op, arg, st, addr, dirs, netfile, generation, report,
                 procs, clock, boots, kills, reboots>>

\* The process did not exit after SIGKILL: an error, and nothing is forgotten.
StopStuck(c) ==
  /\ At(c, "stopping")
  /\ processOwned(arg[c], st[c])
  /\ Release(c)
  /\ UNCHANGED <<disk, host>>

StopReturns(c) ==
  /\ At(c, "signalled")
  /\ Release(c)
  /\ UNCHANGED <<disk, host>>

\* List reconciles each node directory in order, and gives up at the first one
\* that has no readable state.
Reconciled(n, owned, ip) ==
  LET s == IF owned THEN adopted(n, store[n]) ELSE store[n]
      status == IF owned THEN "running" ELSE "stopped"
      changed == s.status # status \/ (ip # 0 /\ ip # s.ip) \/ s # store[n]
  IN IF ~changed THEN store[n]
     ELSE IF owned THEN [s EXCEPT !.status = "running", !.ip = ip]
     ELSE [cleared(s) EXCEPT !.ip = 0]

List(c) ==
  LET listed == {n \in dirs : \A m \in dirs : m <= n => store[m] # None}
  IN /\ Atomically(c)
     /\ \E owned \in [listed -> BOOLEAN], ip \in [listed -> BootIDs] :
          /\ \A n \in listed :
               /\ owned[n] \in ownedAnswers(n, store[n])
               /\ ip[n] \in (IF owned[n] THEN nodeAddress(n, store[n]) ELSE {0})
          /\ store' = [n \in Nodes |-> IF n \in listed THEN Reconciled(n, owned[n], ip[n])
                                       ELSE store[n]]
          /\ LET missed == {n \in listed : processOwned(n, store[n]) /\ ~owned[n]}
             IN /\ lost' = lost \cup {store[n].pid : n \in missed}
                /\ strays' = strays \cup missed
     /\ UNCHANGED <<st, addr, dirs, netfile, generation, report, procs, clock,
                    boots, kills, reboots>>

\* execContext reads the state and checks the process without the lock ...
Exec(c, n) ==
  /\ At(c, "idle")
  /\ Owns(n)
  /\ processOwned(n, store[n])
  /\ Goto(c, "addr")
  /\ op' = [op EXCEPT ![c] = "exec"]
  /\ arg' = [arg EXCEPT ![c] = n]
  /\ st' = [st EXCEPT ![c] = adopted(n, store[n])]
  /\ UNCHANGED <<lock, addr, disk, host>>

\* ... then resolves the address from files another client may have replaced ...
ResolveAddress(c) ==
  /\ At(c, "addr")
  /\ \E ip \in nodeAddress(arg[c], st[c]) :
       IF ip = 0
         THEN Return(c)
         ELSE /\ addr' = [addr EXCEPT ![c] = ip]
              /\ Goto(c, "ssh")
              /\ UNCHANGED <<op, arg, st>>
  /\ UNCHANGED <<lock, disk, host>>

\* ... and, once ssh has succeeded, saves the address it used (updateState,
\* under the lock) in whatever state the node has by then.  IP does the same
\* after checking that address against the state it reads again.
SaveAddress(c) ==
  /\ At(c, "ssh")
  /\ lock = None
  /\ store' = IF store[arg[c]] = None \/ addr[c] = st[c].ip THEN store
              ELSE [store EXCEPT ![arg[c]].ip = addr[c]]
  /\ Return(c)
  /\ UNCHANGED <<lock, dirs, netfile, generation, report, host>>

ExecFails(c) ==
  /\ pc[c] \in {"addr", "ssh"}
  /\ Return(c)
  /\ UNCHANGED <<lock, disk, host>>

-----------------------------------------------------------------------------
(* The host and the guests.                                                *)

\* The VM powers off, crashes or is killed by someone else.
ProcessExit(p) ==
  /\ procs[p] # None
  /\ procs' = [procs EXCEPT ![p] = None]
  /\ lost' = lost \ {p}
  /\ UNCHANGED <<client, disk, clock, boots, strays, kills, reboots>>

\* An unrelated program gets a free PID (not one whose process the client that
\* started it has yet to reap).
OtherProcess(p) ==
  /\ procs[p] = None
  /\ \A c \in Clients : ~(pc[c] \in {"spawned", "recorded"} /\ st[c].pid = p)
  /\ procs' = [procs EXCEPT ![p] = [node |-> 0, start |-> clock, boot |-> 0]]
  /\ UNCHANGED <<client, disk, clock, boots, lost, strays, kills, reboots>>

\* A guest's timer publishes its address under the generation it finds shared.
GuestReport(p) ==
  /\ procs[p] # None
  /\ LET n == procs[p].node
     IN /\ n # 0
        /\ n \in dirs /\ generation[n] # 0
        /\ report' = [report EXCEPT ![n] = [gen |-> generation[n], ip |-> procs[p].boot]]
  /\ UNCHANGED <<client, dirs, store, netfile, generation, host>>

Tick ==
  /\ clock < MaxClock
  /\ clock' = clock + 1
  /\ UNCHANGED <<client, disk, procs, boots, lost, strays, kills, reboots>>

\* A kiac process is killed: the kernel drops its flock, its VM runs on.
KillClient(c) ==
  /\ ~At(c, "idle")
  /\ kills < MaxKills
  /\ kills' = kills + 1
  /\ lock' = IF lock = c THEN None ELSE lock
  /\ Return(c)
  /\ IF At(c, "spawned") THEN LoseIfOwned(arg[c], st[c]) ELSE UNCHANGED <<lost, strays>>
  /\ UNCHANGED <<disk, procs, clock, boots, reboots>>

Reboot ==
  /\ reboots < MaxReboots
  /\ clock < MaxClock
  /\ reboots' = reboots + 1
  /\ clock' = clock + 1
  /\ procs' = [p \in Pids |-> None]
  /\ lost' = {}
  /\ UNCHANGED strays
  /\ lock' = None
  /\ pc' = [c \in Clients |-> "idle"]
  /\ op' = [c \in Clients |-> "exec"]
  /\ arg' = [c \in Clients |-> SomeNode]
  /\ st' = [c \in Clients |-> NoNodeState]
  /\ addr' = [c \in Clients |-> 0]
  /\ UNCHANGED <<disk, boots, kills>>

-----------------------------------------------------------------------------
\* A legacy VM runs, in the boot numbered 1, with its bare PID on record.
LegacyState(p, o) ==
  [status |-> "running", pid |-> p, start |-> 0, hash |-> 0, ip |-> 1, gen |-> 0,
   octet |-> o, guest |-> FALSE]

Init ==
  /\ lock = None
  /\ pc = [c \in Clients |-> "idle"]
  /\ op = [c \in Clients |-> "exec"]
  /\ arg = [c \in Clients |-> SomeNode]
  /\ st = [c \in Clients |-> NoNodeState]
  /\ addr = [c \in Clients |-> 0]
  /\ dirs = Legacy
  /\ \E pid \in [Legacy -> Pids], o \in [NetIDs -> Octets \cup {None}] :
       /\ \A m, n \in Legacy : pid[m] = pid[n] => m = n
       /\ \A i \in NetIDs : o[i] = None <=> \A n \in Legacy : NetOf[n] # i
       /\ \A i, j \in NetIDs : o[i] # None /\ o[i] = o[j] => i = j
       /\ netfile = o
       /\ store = [n \in Nodes |-> IF n \in Legacy THEN LegacyState(pid[n], o[NetOf[n]]) ELSE None]
       /\ procs = [p \in Pids |-> IF \E n \in Legacy : pid[n] = p
                     THEN [node |-> CHOOSE n \in Legacy : pid[n] = p, start |-> 1, boot |-> 1]
                     ELSE None]
  /\ generation = [n \in Nodes |-> 0]
  /\ report = [n \in Nodes |-> None]
  /\ clock = 1 /\ boots = 1 /\ lost = {} /\ strays = {} /\ kills = 0 /\ reboots = 0

ClientStep(c) ==
  \/ MakeNodeDir(c) \/ WriteNewState(c)
  \/ AlreadyRunning(c) \/ PrepareBoot(c) \/ Spawn(c) \/ RecordProcess(c) \/ Started(c)
  \/ TerminateStarted(c) \/ FailEarly(c) \/ CleanNodeDir(c) \/ removeUnusedNetwork(c)
  \/ SignalProcess(c) \/ StopFinished(c) \/ StopStuck(c) \/ StopReturns(c) \/ RemoveStoppedDir(c)
  \/ ResolveAddress(c) \/ SaveAddress(c) \/ ExecFails(c)

Call(c, n) ==
  RunDetached(c, n) \/ Start(c, n) \/ Stop(c, n) \/ Remove(c, n) \/ Exec(c, n)

Next ==
  \/ \E c \in Clients :
       \/ \E n \in Nodes : Call(c, n)
       \/ List(c) \/ ClientStep(c) \/ KillClient(c)
  \/ \E p \in Pids : ProcessExit(p) \/ OtherProcess(p) \/ GuestReport(p)
  \/ Tick \/ Reboot

\* An operation in progress is executed: a kiac process does not stop between
\* two statements, and every wait of the code is bounded by a deadline.
Fairness == \A c \in Clients : WF_vars(ClientStep(c))

Spec == Init /\ [][Next]_vars /\ Fairness

-----------------------------------------------------------------------------
(* Properties.                                                             *)

VMsOf(n) == {p \in Pids : procs[p] # None /\ procs[p].node = n}

\* Two networks never share a subnet.
NetworksDisjoint ==
  \A i, j \in NetIDs : i # j /\ netfile[i] # None => netfile[i] # netfile[j]

\* The network a node was created in is on record, with the subnet the node
\* recorded, for as long as the node is: otherwise startState and
\* validateNodeIPv4 refuse the node for ever.
SubnetOfEveryNode ==
  \A n \in Nodes : store[n] # None =>
    netfile[NetOf[n]] # None /\ netfile[NetOf[n]] = store[n].octet

\* Whatever creations, removals, crashes and failed clean-ups came before, networks
\* have subnets of their own and nodes a network (ensureNetwork, removeUnusedNetwork).
NetworksSound == NetworksDisjoint /\ SubnetOfEveryNode

\* Every VM process is the one its node's state.json names, or is in the hands
\* of the client that just started it, unless kiac lost it (a kill between
\* cmd.Start and writeState, a failing ps, a process that outlived SIGKILL); and
\* but for those no disk is attached to two VMs.
EveryVMTracked ==
  \A n \in Nodes : \A p \in VMsOf(n) \ lost :
    /\ \/ store[n] # None /\ store[n].pid = p /\ processOwned(n, store[n])
       \/ \E c \in Clients : pc[c] = "spawned" /\ arg[c] = n /\ st[c].pid = p
    /\ VMsOf(n) \ lost = {p}

\* The address an Exec connects to was reported by the boot whose state it read,
\* although it read state, process table and report without the lock and other
\* clients may have restarted the VM in between (nodeAddress).
AddressOfTheBootRead ==
  \A c \in Clients :
    pc[c] = "ssh" /\ st[c].guest /\ arg[c] \notin strays => addr[c] = st[c].gen

\* stopLocked and terminateStartedCommand signal only this node's VM: a PID that
\* the host gave to another program is left alone (processOwned).
SignalsOnlyItsVM ==
  [][\A c \in Clients : SignalProcess(c) \/ TerminateStarted(c) =>
       \A p \in Pids : procs'[p] # procs[p] => procs[p].node = arg[c]]_vars

\* What the network steps rely on: the lock is held wherever the code assumes it, and
\* what a client has in hand agrees with what the store says.
LockHeld == \A c \in Clients : pc[c] \in Locked => lock = c

NetworkInHand ==
  \A c \in Clients :
    /\ pc[c] \in {"net", "dir"} => netfile[NetOf[arg[c]]] # None
    /\ pc[c] \in {"start", "prep", "spawned", "recorded", "stopping"} =>
         store[arg[c]] # None /\ st[c].octet = store[arg[c]].octet

\* The store implements the inventory: a record is created before its VM boots
\* and is never removed while the VM it names runs.
phaseOf(n) ==
  IF store[n] = None THEN "absent"
  ELSE IF processOwned(n, store[n]) THEN "running" ELSE "stopped"

Inventory == INSTANCE VMInventory WITH phase <- [n \in Nodes |-> phaseOf(n)]

ImplementsInventory == Inventory!Spec

\* Whoever takes the store lock gives it back: every path of every operation
\* ends, whatever dies under it (lockStore's deferred unlock).
LockReleased ==
  \A c \in Clients : lock = c ~> lock # c

=============================================================================
