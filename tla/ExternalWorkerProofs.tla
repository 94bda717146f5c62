------------------------ MODULE ExternalWorkerProofs ------------------------
(***************************************************************************)
(* The safety properties of ExternalWorker for any number of processes,    *)
(* joins, boots and registrations.  What they rest on: the process that    *)
(* holds the lock works on the worker of the inventory, and its step says  *)
(* how far that worker has come.                                           *)
(***************************************************************************)
EXTENDS ExternalWorker, TLAPS

\* Nothing of the owner runs or is registered.
Off(o) == ~unit[o] /\ ~agent[o] /\ node[o] = NoNode

\* One process and its step.
Command(p) ==
  LET s == st[p]
      o == st[p].owner
  IN /\ pc[p] = "idle" => ~created[p] /\ boot0[p] = 0
     /\ pc[p] # "idle" => /\ lock = {p} /\ s \in State /\ inv.owner = o
                          /\ s.phase = "ready" <=> s.uid # 0
     /\ pc[p] \in {"create", "provision", "transfer", "joining"} => s = inv /\ s.phase = "creating"
     /\ pc[p] = "create" => vm[o] = "absent" /\ boot[o] = 0 /\ ~created[p]
     /\ pc[p] \in {"provision", "transfer", "joining"} => created[p]
     /\ pc[p] = "agent" => s = inv /\ s.phase = "joining"
     /\ pc[p] \in {"boot", "ssh", "wait"} => s = inv /\ s.phase \in {"joining", "ready"}
     /\ pc[p] = "ready" => /\ s.phase = "ready" /\ inv.phase \in {"joining", "ready"}
                           /\ inv.phase = "ready" => inv.uid = s.uid
                           /\ obs[p].boot >= boot0[p]
     /\ pc[p] = "undo" /\ s.phase = "creating" =>
          s = inv /\ (~created[p] => vm[o] = "absent" \/ o \in left)
     /\ pc[p] = "forget" => (vm[o] = "absent" \/ o \in left) /\ Off(o)
     /\ pc[p] = "remove" => op[p] = "delete"
     /\ pc[p] \in {"create", "provision", "transfer", "joining", "boot", "ssh", "agent", "wait"}
          => boot0[p] <= boot[o]

Commands == \A p \in Procs : Command(p)

\* One owner: its VM, its guest, its Node and the inventory.
Owner(o) ==
  /\ o \notin left /\ vm[o] # "absent" => inv.owner = o
  /\ unit[o] \/ agent[o] \/ node[o] # NoNode =>
       inv.owner = o /\ inv.phase \in {"joining", "ready"} /\ vm[o] # "absent"
  /\ o \notin used => vm[o] = "absent" /\ boot[o] = 0
  /\ inv.owner = o => o \in used

World == \A o \in Owners : Owner(o)

Inv == TypeOK /\ Commands /\ World

-----------------------------------------------------------------------------
(* The types, in parts.                                                    *)

CommandTypes ==
  /\ lock \subseteq Procs
  /\ pc \in [Procs -> Steps] /\ op \in [Procs -> {"join", "start", "stop", "delete"}]
  /\ st \in [Procs -> State \cup {None}] /\ created \in [Procs -> BOOLEAN]
  /\ obs \in [Procs -> [uid : UIDs, boot : Boots]] /\ boot0 \in [Procs -> Boots]

InventoryTypes ==
  /\ inv \in State \cup {None}
  /\ inv.phase = "ready" <=> inv.uid # 0
  /\ used \subseteq Owners /\ left \subseteq Owners

GuestTypes ==
  /\ vm \in [Owners -> {"absent", "stopped", "running"}] /\ boot \in [Owners -> Boots]
  /\ files \in [Owners -> BOOLEAN] /\ unit \in [Owners -> BOOLEAN] /\ agent \in [Owners -> BOOLEAN]

NodeTypes == node \in [Owners -> Node \cup {NoNode}] /\ reg \in [Owners -> UIDs]

LEMMA TypeParts ==
  /\ TypeOK <=> CommandTypes /\ InventoryTypes /\ GuestTypes /\ NodeTypes
  /\ TypeOK' <=> CommandTypes' /\ InventoryTypes' /\ GuestTypes' /\ NodeTypes'
  BY Zenon DEF TypeOK, CommandTypes, InventoryTypes, GuestTypes, NodeTypes

LEMMA Zeros ==
  /\ MaxBoots \in Nat \ {0} /\ MaxUIDs \in Nat /\ MaxOwners \in Nat
  /\ 0 \in Boots /\ 1 \in Boots /\ 0 \in UIDs /\ 0 \notin Owners
  BY WorkerAssumption DEF Boots, UIDs, Owners

LEMMA BootFacts ==
  ASSUME NEW b \in Boots
  PROVE  b \in Nat /\ (b < MaxBoots => b + 1 \in Boots)
  BY Zeros DEF Boots

LEMMA StateFacts ==
  ASSUME NEW s \in State
  PROVE  s.owner \in Owners /\ s.phase \in Phases /\ s.uid \in UIDs
  BY Zenon DEF State

LEMMA NoneFacts == None.owner = 0 /\ None.phase = "none" /\ None.uid = 0 /\ None \notin State
  <1>1. None.owner = 0 /\ None.phase = "none" /\ None.uid = 0
    BY Zenon DEF None
  <1>2. None \notin State
    BY Zenon, <1>1, Zeros, StateFacts
  <1> QED
    BY Zenon, <1>1, <1>2

LEMMA NoObsType == NoObs \in [uid : UIDs, boot : Boots]
  BY Zenon, Zeros DEF NoObs

LEMMA NodeFacts ==
  ASSUME NEW n \in Node
  PROVE  n.uid \in UIDs /\ n.uid # 0 /\ n.boot \in Boots
  BY Zenon DEF Node

LEMMA InitInv == Init => Inv
  <1> SUFFICES ASSUME Init PROVE Inv
    BY Zenon
  <1>1. CommandTypes
    BY Zenon, Zeros, NoneFacts, NoObsType DEF Init, CommandTypes, Steps
  <1>2. InventoryTypes /\ NodeTypes
    BY Zenon, Zeros, NoneFacts DEF Init, InventoryTypes, NodeTypes
  <1>3. GuestTypes
    BY Zenon, Zeros DEF Init, GuestTypes
  <1>4. Commands
    BY Zenon DEF Init, Commands, Command
  <1>5. World
    BY Zenon, Zeros, NoneFacts DEF Init, World, Owner
  <1> QED
    BY Zenon, <1>1, <1>2, <1>3, <1>4, <1>5, TypeParts DEF Inv
-----------------------------------------------------------------------------
(* Facts about the steps of a command.                                     *)

KeepsOthers(p) ==
  \A q \in Procs \ {p} : pc'[q] = pc[q] /\ created'[q] = created[q] /\ boot0'[q] = boot0[q]

\* Every process but the one that holds the lock is idle.
LEMMA Others ==
  ASSUME Inv, NEW p \in Procs, pc[p] # "idle" \/ lock = {}, KeepsOthers(p), Command(p)'
  PROVE  Commands'
  <1> SUFFICES ASSUME NEW q \in Procs \ {p} PROVE Command(q)'
    BY Zenon DEF Commands
  <1>1. Command(p) /\ Command(q)
    BY Zenon DEF Inv, Commands
  <1>2. pc[q] = "idle"
    BY Zenon, <1>1 DEF Command
  <1>3. pc'[q] = "idle" /\ ~created'[q] /\ boot0'[q] = 0
    BY Zenon, <1>1, <1>2 DEF Command, KeepsOthers
  <1> QED
    BY Zenon, <1>3 DEF Command

LEMMA Returned ==
  ASSUME Inv, NEW p \in Procs, pc[p] # "idle", Return(p)
  PROVE  CommandTypes' /\ Commands'
  <1>1. CommandTypes
    BY Zenon, TypeParts DEF Inv
  <1>2. CommandTypes'
    <2>1. /\ lock' \subseteq Procs /\ pc' \in [Procs -> Steps]
          /\ op' \in [Procs -> {"join", "start", "stop", "delete"}]
          /\ st' \in [Procs -> State \cup {None}]
      BY Zenon, <1>1 DEF Return, CommandTypes, Steps
    <2>2. created' \in [Procs -> BOOLEAN]
      BY Zenon, <1>1 DEF Return, CommandTypes
    <2>3. obs' \in [Procs -> [uid : UIDs, boot : Boots]] /\ boot0' \in [Procs -> Boots]
      BY Zenon, <1>1, Zeros, NoObsType DEF Return, CommandTypes
    <2> QED
      BY Zenon, <2>1, <2>2, <2>3 DEF CommandTypes
  <1>3. pc'[p] = "idle" /\ ~created'[p] /\ boot0'[p] = 0 /\ KeepsOthers(p)
    BY Zenon, <1>1 DEF Return, CommandTypes, KeepsOthers
  <1>4. Command(p)'
    BY Zenon, <1>3 DEF Command
  <1> QED
    BY Zenon, <1>2, <1>3, <1>4, Others

LEMMA Went ==
  ASSUME Inv, NEW p \in Procs, NEW l \in Steps, Goto(p, l), UNCHANGED <<lock, op, st, created, obs, boot0>>
  PROVE  CommandTypes' /\ pc'[p] = l /\ KeepsOthers(p)
  <1>1. CommandTypes
    BY Zenon, TypeParts DEF Inv
  <1> QED
    BY Zenon, <1>1 DEF CommandTypes, Goto, KeepsOthers

LEMMA Failed ==
  ASSUME Inv, NEW p \in Procs, pc[p] # "idle", Fail(p), UNCHANGED inv,
         st[p].phase = "creating" =>
           st[p] = inv /\ (~created[p] => vm'[st[p].owner] = "absent" \/ st[p].owner \in left')
  PROVE  CommandTypes' /\ Commands'
  <1>1. CASE Return(p)
    BY Zenon, <1>1, Returned
  <1>2. CASE Goto(p, "undo") /\ UNCHANGED <<lock, op, st, created, obs, boot0>>
    <2>1. CommandTypes' /\ pc'[p] = "undo" /\ KeepsOthers(p)
      BY Zenon, <1>2, Went DEF Steps
    <2>2. Command(p)
      BY Zenon DEF Inv, Commands
    <2>3. Command(p)'
      BY Zenon, <1>2, <2>1, <2>2 DEF Command
    <2> QED
      BY Zenon, <2>1, <2>3, Others
  <1> QED
    BY Zenon, <1>1, <1>2 DEF Fail

-----------------------------------------------------------------------------
(* Facts about the VMs.                                                    *)

SameAt(o) ==
  /\ vm'[o] = vm[o] /\ boot'[o] = boot[o] /\ unit'[o] = unit[o] /\ agent'[o] = agent[o]
  /\ node'[o] = node[o]

LEMMA WorldAt ==
  ASSUME Inv, NEW o \in Owners, UNCHANGED <<inv, used>>, left \subseteq left',
         \A x \in Owners \ {o} : SameAt(x), Owner(o)'
  PROVE  World'
  <1> SUFFICES ASSUME NEW x \in Owners \ {o} PROVE Owner(x)'
    BY Zenon DEF World
  <1>1. Owner(x)
    BY Zenon DEF Inv, World
  <1> QED
    BY Zenon, <1>1 DEF Owner, SameAt

LEMMA WorldSame ==
  ASSUME Inv, UNCHANGED <<inv, used, vm, boot, unit, agent, node, left>>
  PROVE  World'
  BY Zenon DEF Inv, World, Owner

LEMMA Discarded ==
  ASSUME Inv, NEW o \in Owners, Discard(o)
  PROVE  /\ GuestTypes' /\ NodeTypes'
         /\ vm'[o] = "absent" /\ boot'[o] = 0 /\ Off(o)'
         /\ \A x \in Owners \ {o} : SameAt(x)
  <1>1. GuestTypes /\ NodeTypes
    BY Zenon, TypeParts DEF Inv
  <1>2. /\ vm' \in [Owners -> {"absent", "stopped", "running"}] /\ boot' \in [Owners -> Boots]
        /\ vm'[o] = "absent" /\ boot'[o] = 0
        /\ \A x \in Owners \ {o} : vm'[x] = vm[x] /\ boot'[x] = boot[x]
    BY Zenon, <1>1, Zeros DEF Discard, GuestTypes
  <1>3. /\ files' \in [Owners -> BOOLEAN] /\ unit' \in [Owners -> BOOLEAN] /\ agent' \in [Owners -> BOOLEAN]
        /\ ~unit'[o] /\ ~agent'[o]
        /\ \A x \in Owners \ {o} : unit'[x] = unit[x] /\ agent'[x] = agent[x]
    BY Zenon, <1>1 DEF Discard, GuestTypes
  <1>4. NodeTypes' /\ node'[o] = NoNode /\ \A x \in Owners \ {o} : node'[x] = node[x]
    BY Zenon, <1>1, Zeros DEF Discard, NodeTypes
  <1> QED
    BY Zenon, <1>2, <1>3, <1>4 DEF GuestTypes, Off, SameAt

LEMMA Booted ==
  ASSUME Inv, NEW o \in Owners, BootVM(o), boot[o] < MaxBoots, UNCHANGED <<files, unit, node, reg>>
  PROVE  /\ GuestTypes' /\ NodeTypes'
         /\ vm'[o] = "running" /\ boot'[o] = boot[o] + 1 /\ agent'[o] = unit[o]
         /\ \A x \in Owners \ {o} : SameAt(x)
  <1>1. GuestTypes /\ NodeTypes
    BY Zenon, TypeParts DEF Inv
  <1>2. /\ vm' \in [Owners -> {"absent", "stopped", "running"}] /\ boot' \in [Owners -> Boots]
        /\ vm'[o] = "running" /\ boot'[o] = boot[o] + 1
        /\ \A x \in Owners \ {o} : vm'[x] = vm[x] /\ boot'[x] = boot[x]
    BY Zenon, <1>1, BootFacts DEF BootVM, GuestTypes
  <1>3. /\ agent' \in [Owners -> BOOLEAN] /\ agent'[o] = unit[o]
        /\ \A x \in Owners \ {o} : agent'[x] = agent[x]
    BY Zenon, <1>1 DEF BootVM, GuestTypes
  <1> QED
    BY Zenon, <1>1, <1>2, <1>3 DEF GuestTypes, NodeTypes, SameAt

LEMMA HaltedVM ==
  ASSUME Inv, NEW o \in Owners, Halted(o), UNCHANGED <<boot, files, unit, node, reg>>
  PROVE  /\ GuestTypes' /\ NodeTypes' /\ vm'[o] = "stopped" /\ ~agent'[o]
         /\ \A x \in Owners \ {o} : SameAt(x)
  <1>1. GuestTypes /\ NodeTypes
    BY Zenon, TypeParts DEF Inv
  <1> QED
    BY Zenon, <1>1 DEF Halted, GuestTypes, NodeTypes, SameAt

LEMMA NothingElse ==
  ASSUME Inv
  PROVE  /\ UNCHANGED <<inv, used, left>> => InventoryTypes'
         /\ UNCHANGED <<vm, boot, guest>> => GuestTypes'
         /\ UNCHANGED remote => NodeTypes'
  BY Zenon, TypeParts DEF Inv, InventoryTypes, GuestTypes, NodeTypes, guest, remote
-----------------------------------------------------------------------------
(* The commands begin.                                                     *)

LEMMA Working ==
  ASSUME Inv, NEW p \in Procs, pc[p] # "idle"
  PROVE  /\ Command(p) /\ st[p] \in State /\ st[p].owner \in Owners /\ st[p].phase \in Phases
         /\ inv.owner = st[p].owner /\ Owner(st[p].owner)
  BY Zenon, StateFacts DEF Inv, Commands, Command, World

LEMMA Acquired ==
  ASSUME Inv, NEW p \in Procs, NEW c \in {"join", "start", "stop", "delete"}, NEW l \in Steps \ {"idle"},
         NEW s \in State, Acquire(p, c, l, s)
  PROVE  /\ CommandTypes' /\ KeepsOthers(p) /\ lock = {} /\ lock' = {p}
         /\ pc'[p] = l /\ op'[p] = c /\ st'[p] = s /\ ~created'[p] /\ boot0'[p] = 0
  <1>1. CommandTypes /\ Command(p)
    BY Zenon, TypeParts DEF Inv, Commands
  <1>2. pc[p] = "idle" /\ ~created[p] /\ boot0[p] = 0
    BY Zenon, <1>1 DEF Acquire, At, Command
  <1> QED
    BY Zenon, <1>1, <1>2 DEF Acquire, Goto, CommandTypes, KeepsOthers

LEMMA JoinStep ==
  ASSUME Inv, NEW p \in Procs, Join(p)
  PROVE  Inv'
  <1>1. PICK o \in Owners \ used :
          /\ inv = None
          /\ Acquire(p, "join", "create", [owner |-> o, phase |-> "creating", uid |-> 0])
          /\ inv' = [owner |-> o, phase |-> "creating", uid |-> 0]
          /\ used' = used \cup {o}
          /\ UNCHANGED <<vm, boot, guest, remote, left>>
    BY Zenon DEF Join, Write
  <1>2. PICK s : s = [owner |-> o, phase |-> "creating", uid |-> 0]
    BY Zenon
  <1>3. s \in State /\ s.owner = o /\ s.phase = "creating" /\ s.uid = 0
    BY Zenon, <1>2, Zeros DEF State, Phases
  <1>4. Acquire(p, "join", "create", s) /\ inv' = s
    BY Zenon, <1>1, <1>2
  <1>5. /\ CommandTypes' /\ KeepsOthers(p) /\ lock = {} /\ lock' = {p}
        /\ pc'[p] = "create" /\ st'[p] = s /\ ~created'[p] /\ boot0'[p] = 0
    BY Zenon, <1>3, <1>4, Acquired DEF Steps
  <1>6. Owner(o)
    BY Zenon DEF Inv, World
  <1>7. vm' = vm /\ boot' = boot /\ vm[o] = "absent" /\ boot[o] = 0
    BY Zenon, <1>1, <1>6 DEF Owner
  <1>8. Command(p)'
    BY <1>3, <1>4, <1>5, <1>7 DEF Command
  <1>9. InventoryTypes'
    BY Zenon, <1>1, <1>3, <1>4, TypeParts DEF Inv, InventoryTypes
  <1>10. World'
    <2> SUFFICES ASSUME NEW x \in Owners PROVE Owner(x)'
      BY Zenon DEF World
    <2>1. Owner(x) /\ inv.owner # x
      BY Zenon, <1>1, NoneFacts, Zeros DEF Inv, World
    <2>2. UNCHANGED <<vm, boot, unit, agent, node, left>> /\ used' = used \cup {o} /\ inv'.owner = o
      BY Zenon, <1>1, <1>3, <1>4 DEF guest, remote
    <2> QED
      BY Zenon, <2>1, <2>2 DEF Owner
  <1> QED
    BY Zenon, <1>1, <1>5, <1>8, <1>9, <1>10, Others, NothingElse, TypeParts DEF Inv

\* Start, Stop and Delete only read.
LEMMA ReadSteps ==
  ASSUME Inv, NEW p \in Procs, Start(p) \/ Stop(p) \/ Delete(p)
  PROVE  Inv'
  <1>1. inv \in State /\ UNCHANGED <<inv, used, vm, boot, guest, remote, left>>
    BY Zenon, TypeParts DEF Start, Stop, Delete, Inv, InventoryTypes
  <1>2. UNCHANGED <<unit, agent, node>> /\ inv.owner \in Owners /\ (inv.phase = "ready" <=> inv.uid # 0)
    BY Zenon, <1>1, TypeParts, StateFacts, NoneFacts, Zeros DEF guest, remote, Inv, InventoryTypes
  <1>3. PICK c \in {"start", "stop", "delete"}, l \in {"boot", "halt", "remove", "forget"} :
          /\ Acquire(p, c, l, inv)
          /\ l = "boot" => inv.phase \in {"joining", "ready"}
          /\ l = "remove" => c = "delete"
          /\ l = "forget" => vm[inv.owner] = "absent"
    BY Zenon DEF Start, Stop, Delete, Owned
  <1>4. /\ CommandTypes' /\ KeepsOthers(p) /\ lock = {} /\ lock' = {p}
        /\ pc'[p] = l /\ op'[p] = c /\ st'[p] = inv /\ ~created'[p] /\ boot0'[p] = 0
    BY <1>1, <1>3, Acquired DEF Steps
  <1>5. vm[inv.owner] = "absent" => Off(inv.owner)
    BY Zenon, <1>2 DEF Inv, World, Owner, Off
  <1>6. boot[inv.owner] \in Nat
    BY Zenon, <1>2, TypeParts, BootFacts DEF Inv, GuestTypes
  <1>7. Command(p)'
    BY <1>1, <1>2, <1>3, <1>4, <1>5, <1>6 DEF Command, Off
  <1>8. World'
    BY Zenon, <1>1, <1>2, WorldSame
  <1> QED
    BY Zenon, <1>1, <1>4, <1>7, <1>8, Others, NothingElse, TypeParts DEF Inv

-----------------------------------------------------------------------------
(* Join's steps.                                                           *)

LEMMA RunDetachedStep ==
  ASSUME Inv, NEW p \in Procs, RunDetached(p)
  PROVE  Inv'
  <1>0. PICK o : o = st[p].owner
    BY Zenon
  <1>1. pc[p] = "create" /\ UNCHANGED <<inv, used, remote, node, reg>>
    BY Zenon DEF RunDetached, At, remote
  <1>2. /\ Command(p) /\ st[p] \in State /\ o \in Owners /\ inv.owner = o /\ Owner(o)
        /\ vm[o] = "absent" /\ boot[o] = 0 /\ ~created[p] /\ st[p] = inv /\ st[p].phase = "creating"
        /\ boot0[p] <= boot[o] /\ lock = {p}
    BY Zenon, <1>0, <1>1, Working DEF Command
  <1>3. CASE /\ BootVM(o) /\ created' = [created EXCEPT ![p] = TRUE]
             /\ boot0' = [boot0 EXCEPT ![p] = 1] /\ Goto(p, "provision")
             /\ UNCHANGED <<lock, op, st, obs, files, unit, left>>
    <2>1. /\ GuestTypes' /\ NodeTypes'
          /\ vm'[o] = "running" /\ boot'[o] = boot[o] + 1 /\ agent'[o] = unit[o]
          /\ \A x \in Owners \ {o} : SameAt(x)
      BY <1>1, <1>2, <1>3, Booted, Zeros
    <2>2. CommandTypes
      BY Zenon, TypeParts DEF Inv
    <2>3. CommandTypes' /\ KeepsOthers(p) /\ pc'[p] = "provision" /\ created'[p] /\ boot0'[p] = 1
      BY Zenon, <1>3, <2>2, Zeros DEF CommandTypes, Goto, KeepsOthers, Steps
    <2>4. Command(p)'
      BY <1>1, <1>2, <1>3, <2>1, <2>3, <1>0 DEF Command
    <2>5. Owner(o)'
      BY Zenon, <1>1, <1>2, <1>3, <2>1 DEF Owner
    <2>6. World'
      BY Zenon, <1>1, <1>2, <1>3, <2>1, <2>5, WorldAt
    <2> QED
      BY Zenon, <1>1, <1>3, <2>1, <2>3, <2>4, <2>6, Others, NothingElse, TypeParts DEF Inv
  <1>4. CASE Fail(p) /\ UNCHANGED <<vm, boot, guest, left>>
    <2>1. CommandTypes' /\ Commands'
      BY Zenon, <1>1, <1>2, <1>4, <1>0, Failed
    <2>2. World'
      BY Zenon, <1>1, <1>4, WorldSame DEF guest
    <2> QED
      BY Zenon, <1>1, <1>4, <2>1, <2>2, NothingElse, TypeParts DEF Inv
  <1>5. CASE /\ vm' = [vm EXCEPT ![o] = "stopped"] /\ left' = left \cup {o}
             /\ Fail(p) /\ UNCHANGED <<boot, guest>>
    <2>1. CommandTypes' /\ Commands'
      BY Zenon, <1>1, <1>2, <1>5, <1>0, Failed
    <2>2. GuestTypes
      BY Zenon, TypeParts DEF Inv
    <2>3. GuestTypes' /\ vm'[o] = "stopped" /\ \A x \in Owners \ {o} : SameAt(x)
      BY Zenon, <1>1, <1>2, <1>5, <2>2 DEF GuestTypes, guest, SameAt
    <2>4. UNCHANGED <<boot, unit, agent, node>> /\ o \in left'
      BY Zenon, <1>1, <1>5 DEF guest
    <2>5. Owner(o)'
      BY Zenon, <1>1, <1>2, <2>3, <2>4 DEF Owner
    <2>6. World'
      BY Zenon, <1>1, <1>2, <1>5, <2>3, <2>5, WorldAt
    <2>7. InventoryTypes'
      BY Zenon, <1>1, <1>2, <1>5, TypeParts DEF Inv, InventoryTypes
    <2> QED
      BY Zenon, <1>1, <2>1, <2>3, <2>6, <2>7, NothingElse, TypeParts DEF Inv
  <1> QED
    BY Zenon, <1>0, <1>3, <1>4, <1>5 DEF RunDetached

\* Provision, Transfer and StartReady go on or fail.
LEMMA GoOnSteps ==
  ASSUME Inv, NEW p \in Procs, Provision(p) \/ Transfer(p) \/ StartReady(p)
  PROVE  Inv'
  <1>1. /\ pc[p] \in {"provision", "transfer", "ssh"}
        /\ UNCHANGED <<inv, used, vm, boot, unit, agent, remote, left>>
    BY Zenon DEF Provision, Transfer, StartReady, At, guest
  <1>2. Command(p) /\ st[p] \in State
    BY Zenon, <1>1, Working
  <1>3. GuestTypes'
    <2>1. GuestTypes
      BY Zenon, TypeParts DEF Inv
    <2>2. files' \in [Owners -> BOOLEAN]
      BY Zenon, <2>1 DEF Provision, Transfer, StartReady, guest, GuestTypes
    <2> QED
      BY Zenon, <1>1, <2>1, <2>2 DEF GuestTypes
  <1>4. World'
    BY Zenon, <1>1, WorldSame DEF remote
  <1>5. CASE Fail(p)
    <2>1. CommandTypes' /\ Commands'
      BY Zenon, <1>1, <1>2, <1>5, Failed DEF Command
    <2> QED
      BY Zenon, <1>1, <1>3, <1>4, <2>1, NothingElse, TypeParts DEF Inv
  <1>6. CASE ~Fail(p)
    <2>1. PICK l \in Steps :
            /\ Goto(p, l) /\ UNCHANGED <<lock, op, st, created, obs, boot0>>
            /\ \/ pc[p] = "provision" /\ l = "transfer"
               \/ pc[p] = "transfer" /\ l = "joining"
               \/ pc[p] = "ssh" /\ l = IF st[p].phase = "joining" THEN "agent" ELSE "wait"
      BY Zenon, <1>6 DEF Provision, Transfer, StartReady, At, Steps
    <2>2. CommandTypes' /\ pc'[p] = l /\ KeepsOthers(p)
      BY Zenon, <2>1, Went
    <2>3. Command(p)'
      BY Zenon, <1>1, <1>2, <2>1, <2>2 DEF Command
    <2> QED
      BY Zenon, <1>1, <1>3, <1>4, <2>2, <2>3, Others, NothingElse, TypeParts DEF Inv
  <1> QED
    BY Zenon, <1>5, <1>6
LEMMA RecordJoiningStep ==
  ASSUME Inv, NEW p \in Procs, RecordJoining(p)
  PROVE  Inv'
  <1>1. PICK s : s = [st[p] EXCEPT !.phase = "joining"]
    BY Zenon
  <1>2. /\ pc[p] = "joining" /\ st' = [st EXCEPT ![p] = s]
        /\ UNCHANGED <<lock, op, created, obs, boot0, used, vm, boot, guest, remote, left, unit, agent, node>>
        /\ (inv' = s /\ Goto(p, "agent")) \/ (inv' = inv /\ Goto(p, "undo"))
    BY Zenon, <1>1 DEF RecordJoining, At, Write, WriteFails, guest, remote
  <1>3. /\ Command(p) /\ st[p] \in State /\ st[p].owner \in Owners /\ st[p] = inv /\ inv.phase = "creating"
        /\ st[p].uid = 0 /\ lock = {p} /\ boot0[p] <= boot[st[p].owner]
    BY Zenon, <1>2, Working DEF Command
  <1>4. s \in State /\ s.owner = st[p].owner /\ s.phase = "joining" /\ s.uid = 0
    BY Zenon, <1>1, <1>3 DEF State, Phases
  <1>5. CommandTypes
    BY Zenon, TypeParts DEF Inv
  <1>6. CommandTypes' /\ KeepsOthers(p) /\ st'[p] = s /\ pc'[p] \in {"agent", "undo"}
        /\ (pc'[p] = "agent" => inv' = s)
    BY Zenon, <1>2, <1>4, <1>5 DEF CommandTypes, KeepsOthers, Goto, Steps
  <1>7. Command(p)'
    BY Zenon, <1>2, <1>3, <1>4, <1>6 DEF Command
  <1>8. InventoryTypes' /\ inv'.owner = inv.owner
    BY Zenon, <1>2, <1>3, <1>4, TypeParts DEF Inv, InventoryTypes
  <1>9. World'
    <2> SUFFICES ASSUME NEW x \in Owners PROVE Owner(x)'
      BY Zenon DEF World
    <2>1. Owner(x)
      BY Zenon DEF Inv, World
    <2> QED
      BY Zenon, <1>2, <1>3, <1>8, <2>1 DEF Owner
  <1> QED
    BY Zenon, <1>2, <1>6, <1>7, <1>8, <1>9, Others, NothingElse, TypeParts DEF Inv

LEMMA AgentStep ==
  ASSUME Inv, NEW p \in Procs, startExternalWorkerAgent(p)
  PROVE  Inv'
  <1>0. PICK o : o = st[p].owner
    BY Zenon
  <1>1. pc[p] = "agent" /\ UNCHANGED <<inv, used, vm, boot, files, remote, node, left>>
    BY Zenon DEF startExternalWorkerAgent, At, remote
  <1>2. /\ Command(p) /\ st[p] \in State /\ o \in Owners /\ inv.owner = o /\ Owner(o)
        /\ st[p] = inv /\ st[p].phase = "joining"
    BY Zenon, <1>0, <1>1, Working DEF Command
  <1>3. /\ unit' = unit \/ (vm[o] = "running" /\ unit' = [unit EXCEPT ![o] = TRUE])
        /\ agent' = agent \/ (vm[o] = "running" /\ agent' = [agent EXCEPT ![o] = TRUE])
    BY Zenon, <1>0 DEF startExternalWorkerAgent
  <1>4. GuestTypes
    BY Zenon, TypeParts DEF Inv
  <1>9. unit' \in [Owners -> BOOLEAN] /\ agent' \in [Owners -> BOOLEAN]
    BY Zenon, <1>2, <1>3, <1>4 DEF GuestTypes
  <1>10. \A x \in Owners \ {o} : unit'[x] = unit[x] /\ agent'[x] = agent[x]
    BY Zenon, <1>2, <1>3, <1>4 DEF GuestTypes
  <1>5. GuestTypes' /\ \A x \in Owners \ {o} : SameAt(x)
    BY Zenon, <1>1, <1>4, <1>9, <1>10 DEF GuestTypes, SameAt
  <1>6. Owner(o)'
    BY Zenon, <1>1, <1>2, <1>3 DEF Owner
  <1>7. World'
    BY Zenon, <1>1, <1>2, <1>5, <1>6, WorldAt
  <1>8. CommandTypes' /\ Commands'
    <2>1. CASE Fail(p)
      BY Zenon, <1>1, <1>2, <2>1, Failed
    <2>2. CASE Goto(p, "wait") /\ UNCHANGED <<lock, op, st, created, obs, boot0>>
      <3>1. CommandTypes' /\ pc'[p] = "wait" /\ KeepsOthers(p)
        BY Zenon, <2>2, Went DEF Steps
      <3>2. Command(p)'
        BY Zenon, <1>1, <1>2, <2>2, <3>1 DEF Command
      <3> QED
        BY Zenon, <1>1, <3>1, <3>2, Others
    <2> QED
      BY Zenon, <2>1, <2>2 DEF startExternalWorkerAgent
  <1> QED
    BY Zenon, <1>1, <1>5, <1>7, <1>8, NothingElse, TypeParts DEF Inv

LEMMA WaitStep ==
  ASSUME Inv, NEW p \in Procs, Wait(p)
  PROVE  Inv'
  <1>0. PICK o : o = st[p].owner
    BY Zenon
  <1>1. pc[p] = "wait" /\ UNCHANGED <<inv, used, vm, boot, guest, unit, agent, remote, node, left>>
    BY Zenon DEF Wait, At, guest, remote
  <1>2. /\ Command(p) /\ st[p] \in State /\ o \in Owners /\ inv.owner = o /\ lock = {p}
        /\ st[p] = inv /\ st[p].phase \in {"joining", "ready"} /\ boot0[p] <= boot[o]
    BY Zenon, <1>0, <1>1, Working DEF Command
  <1>3. World'
    BY Zenon, <1>1, WorldSame
  <1>4. CASE Fail(p)
    <2>1. CommandTypes' /\ Commands'
      BY Zenon, <1>1, <1>2, <1>4, Failed
    <2> QED
      BY Zenon, <1>1, <1>3, <2>1, NothingElse, TypeParts DEF Inv
  <1>5. CASE /\ accepts(st[p], node[o], boot[o])
             /\ obs' = [obs EXCEPT ![p] = [uid |-> node[o].uid, boot |-> node[o].boot]]
             /\ st' = [st EXCEPT ![p].uid = node[o].uid, ![p].phase = "ready"]
             /\ Goto(p, "ready")
             /\ UNCHANGED <<lock, op, created, boot0>>
    <2>1. /\ CommandTypes /\ node[o] \in Node /\ boot[o] \in Boots /\ boot0[p] \in Boots
          /\ node[o].boot = boot[o]
      BY Zenon, <1>2, <1>5, TypeParts DEF Inv, CommandTypes, GuestTypes, NodeTypes, accepts
    <2>2. PICK u : u = node[o].uid
      BY Zenon
    <2>3. u \in UIDs /\ u # 0 /\ (st[p].uid # 0 => st[p].uid = u)
      BY Zenon, <1>5, <2>1, <2>2, NodeFacts DEF accepts
    <2>4. PICK s : s = [st[p] EXCEPT !.uid = u, !.phase = "ready"]
      BY Zenon
    <2>5. s \in State /\ s.owner = o /\ s.phase = "ready" /\ s.uid = u
      BY Zenon, <1>0, <1>2, <2>3, <2>4 DEF State, Phases
    <2>6. st' = [st EXCEPT ![p] = s]
      <3>1. st' = [st EXCEPT ![p] = [[st[p] EXCEPT !.uid = u] EXCEPT !.phase = "ready"]]
        BY Zenon, <1>5, <2>2
      <3> QED
        BY Zenon, <2>4, <3>1
    <2>7. /\ obs' \in [Procs -> [uid : UIDs, boot : Boots]] /\ obs'[p].boot = boot[o]
      <3>1. [uid |-> node[o].uid, boot |-> node[o].boot] \in [uid : UIDs, boot : Boots]
        BY Zenon, <2>1, NodeFacts
      <3> QED
        BY Zenon, <1>5, <2>1, <3>1 DEF CommandTypes
    <2>12. pc' = [pc EXCEPT ![p] = "ready"] /\ UNCHANGED <<lock, op, created, boot0>>
      BY Zenon, <1>5 DEF Goto
    <2>8. CommandTypes' /\ KeepsOthers(p) /\ st'[p] = s /\ pc'[p] = "ready"
      BY Zenon, <2>1, <2>5, <2>6, <2>7, <2>12 DEF CommandTypes, KeepsOthers, Steps
    <2>9. inv.phase = "ready" => inv.uid = u
      BY Zenon, <1>1, <1>2, <2>3 DEF Command
    <2>10. obs'[p].boot >= boot0'[p]
      BY Zenon, <1>2, <2>1, <2>7, <2>12
    <2>11. Command(p)'
      BY Zenon, <1>1, <1>2, <2>3, <2>5, <2>8, <2>9, <2>10, <2>12 DEF Command
    <2> QED
      BY Zenon, <1>1, <1>3, <2>8, <2>11, Others, NothingElse, TypeParts DEF Inv
  <1> QED
    BY Zenon, <1>0, <1>4, <1>5 DEF Wait

LEMMA RecordReadyStep ==
  ASSUME Inv, NEW p \in Procs, RecordReady(p)
  PROVE  Inv'
  <1>1. pc[p] = "ready" /\ UNCHANGED <<used, vm, boot, guest, unit, agent, remote, node, left>>
    BY Zenon DEF RecordReady, At, guest, remote
  <1>2. /\ Command(p) /\ st[p] \in State /\ inv.owner = st[p].owner
        /\ st[p].phase = "ready" /\ st[p].uid # 0
    BY Zenon, <1>1, Working DEF Command
  <1>3. inv' = inv \/ inv' = st[p]
    BY Zenon DEF RecordReady, Write, WriteFails
  <1>4. CommandTypes' /\ Commands'
    <2>1. CASE Return(p)
      BY Zenon, <1>1, <2>1, Returned
    <2>2. CASE WriteFails /\ Fail(p)
      BY Zenon, <1>1, <1>2, <2>2, Failed DEF WriteFails
    <2> QED
      BY Zenon, <2>1, <2>2 DEF RecordReady
  <1>5. InventoryTypes' /\ inv'.owner = inv.owner /\ (inv' = inv \/ inv'.phase = "ready")
    BY Zenon, <1>1, <1>2, <1>3, TypeParts DEF Inv, InventoryTypes
  <1>6. World'
    <2> SUFFICES ASSUME NEW x \in Owners PROVE Owner(x)'
      BY Zenon DEF World
    <2>1. Owner(x)
      BY Zenon DEF Inv, World
    <2> QED
      BY Zenon, <1>1, <1>5, <2>1 DEF Owner
  <1> QED
    BY Zenon, <1>1, <1>4, <1>5, <1>6, NothingElse, TypeParts DEF Inv
\* A VM is discarded, by Join's deferred function or by Delete.
LEMMA DiscardStep ==
  ASSUME Inv, NEW p \in Procs, pc[p] # "idle", NEW o, o = st[p].owner, Discard(o), Goto(p, "forget"),
         UNCHANGED <<lock, op, st, created, obs, boot0, inv, used, left>>
  PROVE  Inv'
  <1>1. /\ Command(p) /\ st[p] \in State /\ o \in Owners /\ inv.owner = o /\ Owner(o)
    BY Zenon, Working
  <1>2. /\ GuestTypes' /\ NodeTypes' /\ vm'[o] = "absent" /\ boot'[o] = 0 /\ Off(o)'
        /\ \A x \in Owners \ {o} : SameAt(x)
    BY Zenon, <1>1, Discarded
  <1>3. CommandTypes' /\ pc'[p] = "forget" /\ KeepsOthers(p)
    BY Zenon, Went DEF Steps
  <1>4. Command(p)'
    BY Zenon, <1>1, <1>2, <1>3 DEF Command
  <1>5. Owner(o)'
    BY Zenon, <1>1, <1>2 DEF Owner, Off
  <1>6. World'
    BY Zenon, <1>1, <1>2, <1>5, WorldAt
  <1> QED
    BY Zenon, <1>2, <1>3, <1>4, <1>6, Others, NothingElse, TypeParts DEF Inv

\* A command halts its VM and returns.
LEMMA HaltStep ==
  ASSUME Inv, NEW p \in Procs, pc[p] # "idle", NEW o, o = st[p].owner,
         Halted(o), Return(p), UNCHANGED <<boot, files, unit, remote, inv, used, left>>
  PROVE  Inv'
  <1>1. o \in Owners /\ inv.owner = o /\ Owner(o) /\ UNCHANGED <<node, reg>>
    BY Zenon, Working DEF remote
  <1>2. /\ GuestTypes' /\ NodeTypes' /\ vm'[o] = "stopped" /\ ~agent'[o]
        /\ \A x \in Owners \ {o} : SameAt(x)
    BY Zenon, <1>1, HaltedVM
  <1>3. Owner(o)'
    BY Zenon, <1>1, <1>2 DEF Owner
  <1>4. World'
    BY Zenon, <1>1, <1>2, <1>3, WorldAt
  <1> QED
    BY Zenon, <1>2, <1>4, Returned, NothingElse, TypeParts DEF Inv

\* A command returns and has changed nothing.
LEMMA ReturnStep ==
  ASSUME Inv, NEW p \in Procs, pc[p] # "idle", Return(p),
         UNCHANGED <<inv, used, vm, boot, guest, remote, left>>
  PROVE  Inv'
  <1>1. World'
    BY Zenon, WorldSame DEF guest, remote
  <1> QED
    BY Zenon, <1>1, Returned, NothingElse, TypeParts DEF Inv
LEMMA UndoStep ==
  ASSUME Inv, NEW p \in Procs, Undo(p)
  PROVE  Inv'
  <1>0. PICK o : o = st[p].owner
    BY Zenon
  <1>1. pc[p] = "undo" /\ UNCHANGED <<inv, used, left>>
    BY Zenon DEF Undo, At
  <1>2. Command(p) /\ o \in Owners /\ inv.owner = o /\ Owner(o)
    BY Zenon, <1>0, <1>1, Working
  <1>3. CASE Return(p) /\ UNCHANGED <<vm, boot, guest, remote>>
    BY Zenon, <1>1, <1>3, ReturnStep
  <1>4. CASE Discard(o) /\ Goto(p, "forget") /\ UNCHANGED <<lock, op, st, created, obs, boot0>>
    BY Zenon, <1>0, <1>1, <1>4, DiscardStep
  <1>5. CASE Return(p) /\ Halted(o) /\ UNCHANGED <<boot, files, unit, remote>>
    BY Zenon, <1>0, <1>1, <1>5, HaltStep
  <1>6. CASE /\ st[p].phase = "creating" /\ ~created[p] /\ Goto(p, "forget")
             /\ UNCHANGED <<lock, op, st, created, obs, boot0, vm, boot, guest, remote>>
    <2>1. CommandTypes' /\ pc'[p] = "forget" /\ KeepsOthers(p)
      BY Zenon, <1>6, Went DEF Steps
    <2>2. /\ st[p] = inv /\ inv.phase = "creating" /\ (vm[o] = "absent" \/ o \in left)
          /\ UNCHANGED <<unit, agent, node>>
      BY Zenon, <1>0, <1>1, <1>2, <1>6 DEF Command, guest, remote
    <2>3. Off(o)
      BY Zenon, <1>2, <2>2 DEF Owner, Off
    <2>4. Command(p)'
      BY Zenon, <1>0, <1>1, <1>2, <1>6, <2>1, <2>2, <2>3 DEF Command, Off
    <2>5. World'
      BY Zenon, <1>1, <1>6, <2>2, WorldSame
    <2> QED
      BY Zenon, <1>1, <1>6, <2>1, <2>4, <2>5, Others, NothingElse, TypeParts DEF Inv
  <1> QED
    BY Zenon, <1>0, <1>3, <1>4, <1>5, <1>6 DEF Undo

LEMMA ForgetStep ==
  ASSUME Inv, NEW p \in Procs, Forget(p)
  PROVE  Inv'
  <1>0. PICK o : o = st[p].owner
    BY Zenon
  <1>1. pc[p] = "forget" /\ Return(p) /\ UNCHANGED <<used, vm, boot, guest, remote, left>>
    BY Zenon DEF Forget, At
  <1>2. CASE inv' = inv
    BY Zenon, <1>1, <1>2, ReturnStep
  <1>3. CASE inv' = None
    <2>1. inv.owner = o /\ (vm[o] = "absent" \/ o \in left) /\ Off(o)
      BY Zenon, <1>0, <1>1, Working DEF Command
    <2>2. World'
      <3> SUFFICES ASSUME NEW x \in Owners PROVE Owner(x)'
        BY Zenon DEF World
      <3>1. Owner(x)
        BY Zenon DEF Inv, World
      <3>2. UNCHANGED <<used, vm, boot, unit, agent, node, left>> /\ inv'.owner = 0
        BY Zenon, <1>1, <1>3, NoneFacts DEF guest, remote
      <3> QED
        BY Zenon, <2>1, <3>1, <3>2, Zeros DEF Owner, Off
    <2>3. InventoryTypes'
      BY Zenon, <1>1, <1>3, TypeParts, NoneFacts DEF Inv, InventoryTypes
    <2> QED
      BY Zenon, <1>1, <2>2, <2>3, Returned, NothingElse, TypeParts DEF Inv
  <1> QED
    BY Zenon, <1>2, <1>3 DEF Forget, WriteFails

-----------------------------------------------------------------------------
(* The steps of Start, Stop and Delete.                                    *)

LEMMA StartVMStep ==
  ASSUME Inv, NEW p \in Procs, StartVM(p)
  PROVE  Inv'
  <1>0. PICK o : o = st[p].owner
    BY Zenon
  <1>1. pc[p] = "boot" /\ UNCHANGED <<inv, used, files, unit, remote, left, node, reg>>
    BY Zenon DEF StartVM, At, remote
  <1>2. /\ Command(p) /\ o \in Owners /\ inv.owner = o /\ Owner(o)
        /\ st[p] = inv /\ st[p].phase \in {"joining", "ready"}
    BY Zenon, <1>0, <1>1, Working DEF Command
  <1>3. CASE Fail(p) /\ UNCHANGED <<vm, boot, agent>>
    <2>1. CommandTypes' /\ Commands'
      BY Zenon, <1>1, <1>2, <1>3, Failed
    <2>2. World'
      BY Zenon, <1>1, <1>3, WorldSame
    <2> QED
      BY Zenon, <1>1, <1>3, <2>1, <2>2, NothingElse, TypeParts DEF Inv, guest
  <1>4. CASE /\ \/ vm[o] = "running" /\ UNCHANGED <<vm, boot, agent>>
                \/ vm[o] = "stopped" /\ boot[o] < MaxBoots /\ BootVM(o)
             /\ boot0' = [boot0 EXCEPT ![p] = boot'[o]]
             /\ Goto(p, "ssh")
             /\ UNCHANGED <<lock, op, st, created, obs>>
    <2>1. /\ GuestTypes' /\ NodeTypes' /\ vm'[o] = "running" /\ agent'[o] \in {agent[o], unit[o]}
          /\ \A x \in Owners \ {o} : SameAt(x)
      <3>1. CASE vm[o] = "running" /\ UNCHANGED <<vm, boot, agent>>
        BY Zenon, <1>1, <3>1, TypeParts DEF Inv, GuestTypes, NodeTypes, SameAt
      <3>2. CASE boot[o] < MaxBoots /\ BootVM(o)
        BY Zenon, <1>1, <1>2, <3>2, Booted
      <3> QED
        BY Zenon, <1>4, <3>1, <3>2
    <2>2. Owner(o)'
      BY Zenon, <1>1, <1>2, <2>1 DEF Owner
    <2>3. World'
      BY Zenon, <1>1, <1>2, <2>1, <2>2, WorldAt
    <2>4. boot'[o] \in Boots /\ boot'[o] \in Nat
      BY Zenon, <1>2, <2>1, BootFacts DEF GuestTypes
    <2>5. CommandTypes
      BY Zenon, TypeParts DEF Inv
    <2>6. CommandTypes' /\ KeepsOthers(p) /\ pc'[p] = "ssh" /\ boot0'[p] = boot'[o]
      BY Zenon, <1>4, <2>4, <2>5 DEF CommandTypes, KeepsOthers, Goto, Steps
    <2>7. Command(p)'
      BY <1>0, <1>1, <1>2, <1>4, <2>4, <2>6 DEF Command
    <2> QED
      BY Zenon, <1>1, <2>1, <2>3, <2>6, <2>7, Others, NothingElse, TypeParts DEF Inv
  <1> QED
    BY Zenon, <1>0, <1>3, <1>4 DEF StartVM

LEMMA LocalSteps ==
  ASSUME Inv, NEW p \in Procs, StopVM(p) \/ RemoveVM(p)
  PROVE  Inv'
  <1>0. PICK o : o = st[p].owner
    BY Zenon
  <1>1. pc[p] # "idle" /\ UNCHANGED <<inv, used, left>>
    BY Zenon DEF StopVM, RemoveVM, At
  <1>2. CASE Return(p) /\ UNCHANGED <<vm, boot, guest, remote>>
    BY Zenon, <1>1, <1>2, ReturnStep
  <1>3. CASE Return(p) /\ Halted(o) /\ UNCHANGED <<boot, files, unit, remote>>
    BY Zenon, <1>0, <1>1, <1>3, HaltStep
  <1>4. CASE Discard(o) /\ Goto(p, "forget") /\ UNCHANGED <<lock, op, st, created, obs, boot0>>
    BY Zenon, <1>0, <1>1, <1>4, DiscardStep
  <1> QED
    BY Zenon, <1>0, <1>2, <1>3, <1>4 DEF StopVM, RemoveVM, guest

LEMMA KillStep ==
  ASSUME Inv, NEW p \in Procs, Kill(p)
  PROVE  Inv'
  <1>0. PICK o : o = st[p].owner
    BY Zenon
  <1>1. pc[p] # "idle" /\ Return(p) /\ UNCHANGED <<inv, used, boot, guest, remote, left>>
    BY Zenon DEF Kill
  <1>2. CASE vm' = vm
    BY Zenon, <1>1, <1>2, ReturnStep
  <1>3. CASE vm' = [vm EXCEPT ![o] = "stopped"]
    <2>1. o \in Owners /\ inv.owner = o /\ Owner(o) /\ UNCHANGED <<unit, agent, node>>
      BY Zenon, <1>0, <1>1, Working DEF guest, remote
    <2>2. GuestTypes
      BY Zenon, TypeParts DEF Inv
    <2>3. GuestTypes' /\ vm'[o] = "stopped" /\ \A x \in Owners \ {o} : SameAt(x)
      BY Zenon, <1>1, <1>3, <2>1, <2>2 DEF GuestTypes, SameAt, guest
    <2>4. Owner(o)'
      BY Zenon, <1>1, <2>1, <2>3 DEF Owner
    <2>5. World'
      BY Zenon, <1>1, <2>1, <2>3, <2>4, WorldAt
    <2> QED
      BY Zenon, <1>1, <2>3, <2>5, Returned, NothingElse, TypeParts DEF Inv
  <1> QED
    BY Zenon, <1>0, <1>2, <1>3 DEF Kill
-----------------------------------------------------------------------------
(* What happens around the commands.                                       *)

\* It concerns one owner, whose VM exists or whose agent runs.
LEMMA AroundStep ==
  ASSUME Inv, NEW o \in Owners, UNCHANGED <<cmd, inv, used, left>>,
         GuestTypes', NodeTypes', \A x \in Owners \ {o} : SameAt(x),
         vm[o] # "absent", vm'[o] # "absent", boot'[o] >= boot[o], Owner(o)',
         Off(o) => Off(o)'
  PROVE  Inv'
  <1>1. World'
    BY Zenon, WorldAt
  <1>2. UNCHANGED <<lock, pc, op, st, created, obs, boot0>>
    BY Zenon DEF cmd
  <1>3. CommandTypes'
    BY Zenon, <1>2, TypeParts DEF Inv, CommandTypes
  <1>4. ASSUME NEW p \in Procs PROVE Command(p)'
    <2>1. Command(p)
      BY Zenon DEF Inv, Commands
    <2>2. CASE pc[p] = "idle"
      BY Zenon, <1>2, <2>1, <2>2 DEF Command
    <2>3. CASE pc[p] # "idle"
      <3>1. PICK x : x = st[p].owner
        BY Zenon
      <3>2. x \in Owners
        BY Zenon, <2>3, <3>1, Working
      <3>3. /\ vm[x] = "absent" => vm'[x] = "absent" /\ boot'[x] = boot[x]
            /\ Off(x) => Off(x)'
        BY Zenon, <3>2 DEF SameAt, Off
      <3>6. boot[x] \in Boots /\ boot'[x] \in Boots
        BY Zenon, <3>2, TypeParts DEF Inv, GuestTypes
      <3>7. boot0[p] \in Boots
        BY Zenon, TypeParts DEF Inv, CommandTypes
      <3>8. boot'[x] = boot[x] \/ x = o
        BY Zenon, <3>2 DEF SameAt
      <3>4. boot[x] \in Nat /\ boot'[x] \in Nat /\ boot0[p] \in Nat
        BY Zenon, <3>6, <3>7, BootFacts
      <3>9. boot'[x] >= boot[x]
        BY <3>4, <3>8
      <3>5. boot0[p] <= boot[x] => boot0[p] <= boot'[x]
        BY <3>4, <3>9
      <3> QED
        BY Zenon, <1>2, <2>1, <3>1, <3>3, <3>5 DEF Command
    <2> QED
      BY Zenon, <2>2, <2>3
  <1> QED
    BY Zenon, <1>1, <1>3, <1>4, NothingElse, TypeParts DEF Inv, Commands

LEMMA VMExitStep ==
  ASSUME Inv, NEW o \in Owners, VMExit(o)
  PROVE  Inv'
  <1>1. /\ vm[o] = "running" /\ boot[o] < MaxBoots /\ Owner(o)
        /\ UNCHANGED <<cmd, inv, used, files, unit, remote, left, node, reg>>
    BY Zenon DEF VMExit, remote, Inv, World
  <1>2. boot[o] \in Nat /\ unit[o] \in BOOLEAN
    BY Zenon, TypeParts, BootFacts DEF Inv, GuestTypes
  <1>3. CASE Halted(o) /\ UNCHANGED boot
    <2>1. /\ GuestTypes' /\ NodeTypes' /\ vm'[o] = "stopped" /\ ~agent'[o]
          /\ \A x \in Owners \ {o} : SameAt(x)
      BY Zenon, <1>1, <1>3, HaltedVM
    <2>2. Owner(o)' /\ (Off(o) => Off(o)') /\ boot'[o] >= boot[o]
      BY <1>1, <1>2, <1>3, <2>1 DEF Owner, Off
    <2> QED
      BY Zenon, <1>1, <2>1, <2>2, AroundStep
  <1>4. CASE BootVM(o)
    <2>1. /\ GuestTypes' /\ NodeTypes'
          /\ vm'[o] = "running" /\ boot'[o] = boot[o] + 1 /\ agent'[o] = unit[o]
          /\ \A x \in Owners \ {o} : SameAt(x)
      BY Zenon, <1>1, <1>4, Booted
    <2>2. Owner(o)'
      BY Zenon, <1>1, <2>1 DEF Owner
    <2>3. boot'[o] >= boot[o]
      BY <1>2, <2>1
    <2>4. Off(o) => Off(o)'
      BY Zenon, <1>1, <2>1 DEF Off
    <2> QED
      BY Zenon, <1>1, <2>1, <2>2, <2>3, <2>4, AroundStep
  <1> QED
    BY Zenon, <1>3, <1>4 DEF VMExit

\* The agent, the node controller and the operator change the Node of an owner.
LEMMA NodeStep ==
  ASSUME Inv, NEW o \in Owners, UNCHANGED <<cmd, inv, used, vm, boot, guest, left>>, NodeTypes',
         node[o] # NoNode \/ agent[o], \A x \in Owners \ {o} : node'[x] = node[x]
  PROVE  Inv'
  <1>1. Owner(o) /\ UNCHANGED <<files, unit, agent>> /\ GuestTypes' /\ boot[o] \in Nat
    BY Zenon, TypeParts, NothingElse, Zeros, BootFacts DEF Inv, World, guest, GuestTypes
  <1>2. Owner(o)' /\ vm[o] # "absent" /\ vm'[o] # "absent" /\ ~Off(o)
    BY Zenon, <1>1 DEF Owner, Off
  <1>3. \A x \in Owners \ {o} : SameAt(x)
    BY Zenon, <1>1 DEF SameAt
  <1> QED
    BY <1>1, <1>2, <1>3, AroundStep

LEMMA NodeSteps ==
  ASSUME Inv, NEW o \in Owners, Register(o) \/ KubeletReport(o) \/ NodeLost(o) \/ Operator(o)
  PROVE  Inv'
  <1>1. UNCHANGED <<cmd, inv, used, vm, boot, guest, left>>
    BY Zenon DEF Register, KubeletReport, NodeLost, Operator
  <1>2. NodeTypes /\ reg[o] \in UIDs /\ node[o] \in Node \cup {NoNode} /\ boot[o] \in Boots
    BY Zenon, TypeParts DEF Inv, NodeTypes, GuestTypes
  <1>3. NoNode.ready = FALSE
    BY Zenon DEF NoNode
  <1>4. CASE Register(o)
    <2>1. reg[o] + 1 \in UIDs \ {0}
      BY <1>2, <1>4, Zeros DEF Register, UIDs
    <2>2. [uid |-> reg[o] + 1, boot |-> boot[o], ready |-> FALSE, tainted |-> TRUE] \in Node
      BY Zenon, <1>2, <2>1 DEF Node
    <2>3. NodeTypes' /\ \A x \in Owners \ {o} : node'[x] = node[x]
      BY Zenon, <1>2, <1>4, <2>1, <2>2 DEF Register, NodeTypes
    <2> QED
      BY Zenon, <1>1, <1>4, <2>3, NodeStep DEF Register
  <1>5. ASSUME NEW n \in Node \cup {NoNode}, node' = [node EXCEPT ![o] = n], reg' = reg, node[o] # NoNode
        PROVE  Inv'
    <2>1. NodeTypes' /\ \A x \in Owners \ {o} : node'[x] = node[x]
      BY Zenon, <1>2, <1>5 DEF NodeTypes
    <2> QED
      BY Zenon, <1>1, <1>5, <2>1, NodeStep
  <1>6. CASE KubeletReport(o)
    <2>1. node[o] \in Node
      BY Zenon, <1>2, <1>6 DEF KubeletReport
    <2>2. PICK n : n = [node[o] EXCEPT !.boot = boot[o], !.ready = TRUE]
      BY Zenon
    <2>3. n \in Node
      BY Zenon, <1>2, <2>1, <2>2 DEF Node
    <2>4. node' = [node EXCEPT ![o] = n]
      BY Zenon, <1>6, <2>2 DEF KubeletReport
    <2> QED
      BY Zenon, <1>5, <1>6, <2>3, <2>4 DEF KubeletReport
  <1>7. CASE NodeLost(o)
    <2>1. node[o] \in Node /\ node[o] # NoNode
      BY Zenon, <1>2, <1>3, <1>7 DEF NodeLost
    <2>2. PICK n : n = [node[o] EXCEPT !.ready = FALSE]
      BY Zenon
    <2>3. n \in Node
      BY Zenon, <2>1, <2>2 DEF Node
    <2>4. node' = [node EXCEPT ![o] = n]
      BY Zenon, <1>7, <2>2 DEF NodeLost
    <2> QED
      BY Zenon, <1>5, <1>7, <2>1, <2>3, <2>4 DEF NodeLost
  <1>8. CASE Operator(o)
    <2>1. node[o] \in Node /\ node[o] # NoNode /\ reg' = reg
      BY Zenon, <1>2, <1>8 DEF Operator
    <2>2. CASE node' = [node EXCEPT ![o] = NoNode]
      BY Zenon, <1>5, <2>1, <2>2
    <2>3. CASE node' = [node EXCEPT ![o].tainted = FALSE]
      <3>1. PICK n : n = [node[o] EXCEPT !.tainted = FALSE]
        BY Zenon
      <3>2. n \in Node
        BY Zenon, <2>1, <3>1 DEF Node
      <3>3. node' = [node EXCEPT ![o] = n]
        BY Zenon, <2>3, <3>1
      <3> QED
        BY Zenon, <1>5, <2>1, <3>2, <3>3
    <2> QED
      BY Zenon, <1>8, <2>2, <2>3 DEF Operator
  <1> QED
    BY Zenon, <1>4, <1>6, <1>7, <1>8

LEMMA StepInv == Inv /\ [Next]_vars => Inv'
  <1> SUFFICES ASSUME Inv, [Next]_vars PROVE Inv'
    BY Zenon
  <1>1. CASE UNCHANGED vars
    <2>1. UNCHANGED <<cmd, inv, used, vm, boot, guest, remote, left>>
      BY Zenon, <1>1 DEF vars
    <2>2. World' /\ InventoryTypes' /\ GuestTypes' /\ NodeTypes'
      BY Zenon, <2>1, WorldSame, NothingElse DEF guest, remote
    <2>3. CommandTypes' /\ Commands'
      BY <2>1, TypeParts DEF Inv, CommandTypes, Commands, Command, Off, cmd, guest, remote
    <2> QED
      BY Zenon, <2>2, <2>3, TypeParts DEF Inv
  <1> QED
    BY Zenon, <1>1, JoinStep, ReadSteps, RunDetachedStep, GoOnSteps, RecordJoiningStep, AgentStep,
       WaitStep, RecordReadyStep, UndoStep, ForgetStep, StartVMStep, LocalSteps, KillStep,
       VMExitStep, NodeSteps DEF Next, Step
-----------------------------------------------------------------------------
(* What a step may do to a worker.                                         *)

Kept ==
  /\ \A o \in Owners :
       node[o] # NoNode /\ vm[o] # "absent" /\ vm'[o] = "absent"
         => \E p \in Procs : op[p] = "delete" /\ pc[p] = "remove" /\ st[p].owner = o
  /\ inv.phase = "ready" /\ inv'.owner = inv.owner
       => inv'.phase = "ready" /\ inv'.uid = inv.uid

\* Only Discard makes a VM absent.
LEMMA OnlyDiscard ==
  ASSUME Inv, Next, NEW o \in Owners, vm[o] # "absent", vm'[o] = "absent"
  PROVE  \E p \in Procs :
           /\ st[p].owner = o
           /\ pc[p] = "remove" \/ (pc[p] = "undo" /\ st[p].phase = "creating")
  <1>0. vm \in [Owners -> {"absent", "stopped", "running"}]
    BY Zenon DEF Inv, TypeOK
  <1>1. ASSUME NEW x, BootVM(x) \/ Halted(x) \/ vm' = [vm EXCEPT ![x] = "stopped"] \/ vm' = vm PROVE FALSE
    BY Zenon, <1>0, <1>1 DEF BootVM, Halted
  <1>2. ASSUME NEW x, Discard(x) PROVE x = o
    BY Zenon, <1>0, <1>2 DEF Discard
  <1>3. ASSUME NEW x \in Owners, VMExit(x) \/ Register(x) \/ KubeletReport(x) \/ NodeLost(x) \/ Operator(x)
        PROVE  FALSE
    BY Zenon, <1>1, <1>3 DEF VMExit, Register, KubeletReport, NodeLost, Operator
  <1>4. ASSUME NEW p \in Procs,
               \/ Join(p) \/ Start(p) \/ Stop(p) \/ Delete(p) \/ Kill(p) \/ RunDetached(p)
               \/ Provision(p) \/ Transfer(p) \/ RecordJoining(p) \/ startExternalWorkerAgent(p)
               \/ Wait(p) \/ RecordReady(p) \/ Forget(p) \/ StartVM(p) \/ StartReady(p) \/ StopVM(p)
        PROVE  FALSE
    BY Zenon, <1>1, <1>4 DEF Join, Start, Stop, Delete, Kill, RunDetached, Provision, Transfer,
       RecordJoining, startExternalWorkerAgent, Wait, RecordReady, Forget, StartVM, StartReady, StopVM
  <1>5. ASSUME NEW p \in Procs, Undo(p)
        PROVE  st[p].owner = o /\ pc[p] = "undo" /\ st[p].phase = "creating"
    BY Zenon, <1>1, <1>2, <1>5 DEF Undo, At
  <1>6. ASSUME NEW p \in Procs, RemoveVM(p) PROVE st[p].owner = o /\ pc[p] = "remove"
    BY Zenon, <1>1, <1>2, <1>6 DEF RemoveVM, At
  <1> QED
    BY Zenon, <1>3, <1>4, <1>5, <1>6 DEF Next, Step

LEMMA StepKept == Inv /\ [Next]_vars => [Kept]_vars
  <1> SUFFICES ASSUME Inv, Next PROVE Kept
    BY Zenon
  <1>1. ASSUME NEW o \in Owners, node[o] # NoNode, vm[o] # "absent", vm'[o] = "absent"
        PROVE  \E p \in Procs : op[p] = "delete" /\ pc[p] = "remove" /\ st[p].owner = o
    <2>1. PICK p \in Procs :
            /\ st[p].owner = o
            /\ pc[p] = "remove" \/ (pc[p] = "undo" /\ st[p].phase = "creating")
      BY Zenon, <1>1, OnlyDiscard
    <2>2. Command(p) /\ Owner(o)
      BY Zenon DEF Inv, Commands, World
    <2>3. inv.phase \in {"joining", "ready"}
      BY Zenon, <1>1, <2>2 DEF Owner
    <2> QED
      BY Zenon, <2>1, <2>2, <2>3 DEF Command
  <1>2. ASSUME inv.phase = "ready", inv'.owner = inv.owner
        PROVE  inv'.phase = "ready" /\ inv'.uid = inv.uid
    <2>1. inv \in State /\ inv.owner \in Owners
      BY Zenon, <1>2, TypeParts, NoneFacts, StateFacts DEF Inv, InventoryTypes
    <2>2. CASE inv' = inv
      BY Zenon, <1>2, <2>2
    <2>3. ASSUME NEW p \in Procs, Join(p) \/ RecordJoining(p) PROVE FALSE
      <3>1. CASE Join(p)
        BY Zenon, <1>2, <3>1, NoneFacts DEF Join
      <3>2. CASE RecordJoining(p)
        <4>1. pc[p] = "joining"
          BY Zenon, <3>2 DEF RecordJoining, At
        <4> QED
          BY Zenon, <1>2, <4>1, Working DEF Command
      <3> QED
        BY Zenon, <2>3, <3>1, <3>2
    <2>4. ASSUME NEW p \in Procs, RecordReady(p) PROVE inv'.phase = "ready" /\ inv'.uid = inv.uid
      <3>1. pc[p] = "ready" /\ (inv' = inv \/ inv' = st[p])
        BY Zenon, <2>4 DEF RecordReady, At, Write, WriteFails
      <3>2. st[p].phase = "ready" /\ inv.uid = st[p].uid
        BY Zenon, <1>2, <3>1, Working DEF Command
      <3> QED
        BY Zenon, <1>2, <3>1, <3>2
    <2>5. ASSUME NEW p \in Procs, Forget(p) PROVE inv' = inv
      BY Zenon, <1>2, <2>1, <2>5, NoneFacts, Zeros DEF Forget, WriteFails
    <2>6. ASSUME NEW p \in Procs,
                 \/ Start(p) \/ Stop(p) \/ Delete(p) \/ Kill(p) \/ RunDetached(p)
                 \/ Provision(p) \/ Transfer(p) \/ startExternalWorkerAgent(p)
                 \/ Wait(p) \/ Undo(p) \/ StartVM(p) \/ StartReady(p) \/ StopVM(p) \/ RemoveVM(p)
          PROVE  inv' = inv
      BY Zenon, <2>6 DEF Start, Stop, Delete, Kill, RunDetached, Provision, Transfer,
         startExternalWorkerAgent, Wait, Undo, StartVM, StartReady, StopVM, RemoveVM
    <2>7. ASSUME NEW x \in Owners, VMExit(x) \/ Register(x) \/ KubeletReport(x) \/ NodeLost(x) \/ Operator(x)
          PROVE  inv' = inv
      BY Zenon, <2>7 DEF VMExit, Register, KubeletReport, NodeLost, Operator
    <2> QED
      BY Zenon, <2>2, <2>3, <2>4, <2>5, <2>6, <2>7 DEF Next, Step
  <1> QED
    BY Zenon, <1>1, <1>2 DEF Kept

-----------------------------------------------------------------------------
(* The theorems.                                                           *)

\* The inductive invariant, with the types: any number of processes and joins.
THEOREM InvariantHolds == Spec => []Inv
  <1> QED
    BY InitInv, StepInv, PTL DEF Spec

\* No worker VM is ever without the inventory that kiac delete worker works from, but
\* for those that RunDetached itself failed to clear away.
THEOREM WorkersInInventory == Spec => []EveryVMHasInventory
  <1>1. Inv => EveryVMHasInventory
    BY Zenon DEF Inv, World, Owner, EveryVMHasInventory
  <1> QED
    BY <1>1, InvariantHolds, PTL

\* A guest whose agent was installed is in phase joining or ready, in memory and in the
\* file, so that no failing or killed command takes it for one that never started.
THEOREM AgentsKept == Spec => []StartedIsKept
  <1>1. Inv => StartedIsKept
    BY Zenon DEF Inv, World, Owner, StartedIsKept
  <1> QED
    BY <1>1, InvariantHolds, PTL

\* Join and Start never take a Ready condition from before the boot they made or found.
THEOREM ReadinessIsNew == Spec => []ReadyOfThisBoot
  <1>1. Inv => ReadyOfThisBoot
    BY Zenon DEF Inv, Commands, Command, ReadyOfThisBoot
  <1> QED
    BY <1>1, InvariantHolds, PTL

\* Only delete worker discards a VM whose Node exists, and no command changes the Node
\* UID that a join recorded.
THEOREM DeleteDiscards == Spec => OnlyDeleteDiscards
  <1>1. Spec => [][Kept]_vars
    BY StepKept, InvariantHolds, PTL DEF Spec
  <1> QED
    BY Zenon, <1>1 DEF OnlyDeleteDiscards, Kept
=============================================================================
