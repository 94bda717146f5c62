------------------------- MODULE KrunkitStoreProofs -------------------------
(***************************************************************************)
(* Theorems about KrunkitStore, for every set of clients, nodes, networks  *)
(* and processes and every bound: its networks, its VM processes, the      *)
(* addresses it hands out, and that it implements VMInventory.             *)
(***************************************************************************)
EXTENDS KrunkitStore, TLAPS

-----------------------------------------------------------------------------
(* Facts about the records.                                                *)

LEMMA SomeNodeType == SomeNode \in Nodes
  BY Zenon, ConstantsAssumption DEF SomeNode

LEMMA Zeros == 0 \in Seconds /\ 0 \in BootIDs /\ 0 \in Octets
  BY ConstantsAssumption DEF Seconds, BootIDs, Octets

LEMMA BlankStateType == NoNodeState \in KrunkitNodeState
  BY Zenon, Zeros DEF NoNodeState, KrunkitNodeState

LEMMA ClearedType ==
  ASSUME NEW s \in KrunkitNodeState
  PROVE  /\ cleared(s) \in KrunkitNodeState
         /\ [cleared(s) EXCEPT !.ip = 0] \in KrunkitNodeState
         /\ cleared(s).octet = s.octet
         /\ [cleared(s) EXCEPT !.ip = 0].octet = s.octet
  <1>1. anonymous(s) \in KrunkitNodeState /\ anonymous(s).octet = s.octet
    BY Zenon, Zeros DEF anonymous, KrunkitNodeState
  <1>2. cleared(s) \in KrunkitNodeState /\ cleared(s).octet = s.octet
    BY Zenon, <1>1 DEF cleared, KrunkitNodeState
  <1> QED
    BY Zenon, <1>2, Zeros DEF KrunkitNodeState

LEMMA AdoptedType ==
  ASSUME TypeOK, NEW n \in Nodes, NEW s \in KrunkitNodeState
  PROVE  /\ adopted(n, s) \in KrunkitNodeState
         /\ adopted(n, s).octet = s.octet
         /\ adopted(n, s).pid = s.pid
         /\ adopted(n, s).guest = s.guest
         /\ adopted(n, s).gen = s.gen
  <1>1. CASE s.pid # 0 /\ s.start = 0 /\ processOwned(n, s)
    <2>1. procs[s.pid] \in Process
      BY Zenon, <1>1 DEF TypeOK, processOwned, KrunkitNodeState
    <2> QED
      BY Zenon, <1>1, <2>1 DEF adopted, KrunkitNodeState, Process
  <1>2. CASE ~(s.pid # 0 /\ s.start = 0 /\ processOwned(n, s))
    BY Zenon, <1>2 DEF adopted
  <1> QED
    BY Zenon, <1>1, <1>2

LEMMA ReconciledType ==
  ASSUME TypeOK, NEW n \in Nodes, store[n] # None, NEW owned \in BOOLEAN, NEW ip \in BootIDs
  PROVE  /\ Reconciled(n, owned, ip) \in KrunkitNodeState
         /\ Reconciled(n, owned, ip).octet = store[n].octet
  <1>1. store[n] \in KrunkitNodeState
    BY Zenon DEF TypeOK
  <1> DEFINE s == IF owned THEN adopted(n, store[n]) ELSE store[n]
  <1>2. s \in KrunkitNodeState /\ s.octet = store[n].octet
    BY Zenon, <1>1, AdoptedType
  <1>3. /\ [s EXCEPT !.status = "running", !.ip = ip] \in KrunkitNodeState
        /\ [s EXCEPT !.status = "running", !.ip = ip].octet = s.octet
    BY Zenon, <1>2 DEF KrunkitNodeState
  <1>4. /\ [cleared(s) EXCEPT !.ip = 0] \in KrunkitNodeState
        /\ [cleared(s) EXCEPT !.ip = 0].octet = s.octet
    BY Zenon, <1>2, ClearedType
  <1>5. \/ Reconciled(n, owned, ip) = store[n]
        \/ Reconciled(n, owned, ip) = [s EXCEPT !.status = "running", !.ip = ip]
        \/ Reconciled(n, owned, ip) = [cleared(s) EXCEPT !.ip = 0]
    BY Zenon DEF Reconciled
  <1> QED
    BY Zenon, <1>1, <1>2, <1>3, <1>4, <1>5

LEMMA NodeAddressType ==
  ASSUME TypeOK, NEW n \in Nodes, NEW s \in KrunkitNodeState
  PROVE  nodeAddress(n, s) \subseteq BootIDs
  BY Zeros DEF TypeOK, nodeAddress, KrunkitNodeState, Process

-----------------------------------------------------------------------------
(* Types.                                                                  *)

\* The steps of one client, one by one: Next is their union and the host's.
LEMMA StepCases ==
  ASSUME Next
  PROVE  \/ \E c \in Clients :
              \/ \E n \in Nodes :
                   \/ RunDetached(c, n) \/ Start(c, n) \/ Exec(c, n)
                   \/ \E o \in {"stop", "remove"} : StopNotRunning(c, o, n) \/ StopRunning(c, o, n)
              \/ List(c) \/ KillClient(c)
              \/ MakeNodeDir(c) \/ WriteNewState(c)
              \/ AlreadyRunning(c) \/ PrepareBoot(c) \/ Spawn(c) \/ RecordProcess(c) \/ Started(c)
              \/ TerminateStarted(c) \/ FailEarly(c) \/ CleanNodeDir(c) \/ removeUnusedNetwork(c)
              \/ SignalProcess(c) \/ StopFinished(c) \/ StopStuck(c) \/ StopReturns(c)
              \/ RemoveStoppedDir(c)
              \/ ResolveAddress(c) \/ SaveAddress(c) \/ ExecFails(c)
         \/ \E p \in Pids : ProcessExit(p) \/ OtherProcess(p) \/ GuestReport(p)
         \/ Tick \/ Reboot
  BY Zenon DEF Next, Call, ClientStep, Stop, Remove

LEMMA InitTypes == Init => TypeOK
  <1> SUFFICES ASSUME Init PROVE TypeOK
    BY Zenon
  <1>1. PICK pid \in [Legacy -> Pids], o \in [NetIDs -> Octets \cup {None}] :
          /\ \A i \in NetIDs : o[i] = None <=> \A n \in Legacy : NetOf[n] # i
          /\ netfile = o
          /\ store = [n \in Nodes |-> IF n \in Legacy THEN LegacyState(pid[n], o[NetOf[n]]) ELSE None]
          /\ procs = [p \in Pids |-> IF \E n \in Legacy : pid[n] = p
                        THEN [node |-> CHOOSE n \in Legacy : pid[n] = p, start |-> 1, boot |-> 1]
                        ELSE None]
    BY DEF Init
  <1>2. 1 \in Seconds /\ 1 \in BootIDs
    BY ConstantsAssumption DEF Seconds, BootIDs
  <1>3. store \in [Nodes -> KrunkitNodeState \cup {None}]
    <2>1. ASSUME NEW n \in Legacy PROVE LegacyState(pid[n], o[NetOf[n]]) \in KrunkitNodeState
      <3>1. o[NetOf[n]] \in Octets
        BY Zenon, <1>1, ConstantsAssumption
      <3> QED
        BY Zenon, <3>1, <1>2, Zeros DEF LegacyState, KrunkitNodeState
    <2> QED
      BY Zenon, <1>1, <2>1
  <1>4. procs \in [Pids -> Process \cup {None}]
    <2>1. ASSUME NEW p \in Pids, \E n \in Legacy : pid[n] = p
          PROVE  (CHOOSE n \in Legacy : pid[n] = p) \in Nodes
      BY Zenon, <2>1, ConstantsAssumption
    <2>2. ASSUME NEW p \in Pids, \E n \in Legacy : pid[n] = p
          PROVE  [node |-> CHOOSE n \in Legacy : pid[n] = p, start |-> 1, boot |-> 1] \in Process
      BY Zenon, <2>1, <2>2, <1>2 DEF Process
    <2> QED
      BY Zenon, <1>1, <2>2
  <1>5. /\ clock \in Seconds /\ boots \in BootIDs
        /\ kills \in 0 .. MaxKills /\ reboots \in 0 .. MaxReboots
    BY <1>2, ConstantsAssumption DEF Init
  <1> QED
    BY Zenon, <1>1, <1>3, <1>4, <1>5, Zeros, SomeNodeType, BlankStateType, ConstantsAssumption
       DEF Init, TypeOK, Points, Ops

\* The part of TypeOK about the client and the part about disk and host.
ClientTypes ==
  /\ lock \in Clients \cup {None}
  /\ pc \in [Clients -> Points]
  /\ op \in [Clients -> Ops]
  /\ arg \in [Clients -> Nodes]
  /\ st \in [Clients -> KrunkitNodeState]
  /\ addr \in [Clients -> BootIDs]

WorldTypes ==
  /\ dirs \subseteq Nodes
  /\ store \in [Nodes -> KrunkitNodeState \cup {None}]
  /\ netfile \in [NetIDs -> Octets \cup {None}]
  /\ generation \in [Nodes -> BootIDs]
  /\ report \in [Nodes -> [gen : BootIDs, ip : BootIDs] \cup {None}]
  /\ procs \in [Pids -> Process \cup {None}]
  /\ clock \in Seconds
  /\ boots \in BootIDs
  /\ lost \subseteq Pids
  /\ strays \subseteq Nodes
  /\ kills \in 0 .. MaxKills
  /\ reboots \in 0 .. MaxReboots

LEMMA TypesSplit == TypeOK <=> ClientTypes /\ WorldTypes
  BY Zenon DEF TypeOK, ClientTypes, WorldTypes

LEMMA TypesSplitPrime == TypeOK' <=> ClientTypes' /\ WorldTypes'
  BY Zenon DEF TypeOK, ClientTypes, WorldTypes

LEMMA WorldSame == WorldTypes /\ UNCHANGED <<disk, host>> => WorldTypes'
  BY Zenon DEF WorldTypes, disk, host

LEMMA ClientSame == ClientTypes /\ UNCHANGED client => ClientTypes'
  BY Zenon DEF ClientTypes, client

LEMMA ReturnTypes ==
  ASSUME ClientTypes, NEW c \in Clients, Return(c)
  PROVE  /\ pc' \in [Clients -> Points]
         /\ op' \in [Clients -> Ops]
         /\ arg' \in [Clients -> Nodes]
         /\ st' \in [Clients -> KrunkitNodeState]
         /\ addr' \in [Clients -> BootIDs]
  BY Zenon, SomeNodeType, BlankStateType, Zeros DEF ClientTypes, Return, Goto, Points, Ops

LEMMA ReleaseTypes ==
  ASSUME ClientTypes, NEW c \in Clients, Release(c)
  PROVE  ClientTypes'
  BY Zenon, ReturnTypes DEF ClientTypes, Release

LEMMA AcquireTypes ==
  ASSUME ClientTypes, NEW c \in Clients, NEW o \in Ops, NEW n \in Nodes, NEW l \in Points,
         Acquire(c, o, n, l)
  PROVE  /\ lock' \in Clients \cup {None}
         /\ pc' \in [Clients -> Points]
         /\ op' \in [Clients -> Ops]
         /\ arg' \in [Clients -> Nodes]
  BY Zenon DEF ClientTypes, Acquire, Goto

LEMMA LoseTypes ==
  ASSUME TypeOK, NEW n \in Nodes, NEW s \in KrunkitNodeState, LoseIfOwned(n, s)
  PROVE  lost' \subseteq Pids /\ strays' \subseteq Nodes
  BY DEF TypeOK, LoseIfOwned, Lose, processOwned, KrunkitNodeState

LEMMA CallTypes ==
  ASSUME TypeOK, NEW c \in Clients, NEW n \in Nodes, NEW o \in {"stop", "remove"},
         \/ RunDetached(c, n) \/ Start(c, n) \/ Exec(c, n)
         \/ StopNotRunning(c, o, n) \/ StopRunning(c, o, n)
  PROVE  TypeOK'
  <1> USE TypesSplit, TypesSplitPrime
  <1>1. CASE RunDetached(c, n)
    <2>1. ClientTypes'
      BY Zenon, <1>1, AcquireTypes DEF RunDetached, ClientTypes, Points, Locked, Ops
    <2>2. WorldTypes'
      BY <1>1, ConstantsAssumption DEF RunDetached, WorldTypes, host
    <2> QED
      BY Zenon, <2>1, <2>2
  <1>2. CASE Start(c, n)
    <2>1. ClientTypes'
      BY Zenon, <1>2, AcquireTypes DEF Start, Owns, WorldTypes, ClientTypes, Points, Locked, Ops
    <2> QED
      BY Zenon, <1>2, <2>1, WorldSame DEF Start
  <1>3. CASE Exec(c, n)
    <2>1. adopted(n, store[n]) \in KrunkitNodeState
      BY <1>3, AdoptedType DEF Exec, Owns, WorldTypes
    <2>2. ClientTypes'
      BY Zenon, <1>3, <2>1 DEF Exec, Goto, ClientTypes, Points, Ops
    <2> QED
      BY Zenon, <1>3, <2>2, WorldSame DEF Exec
  <1>4. CASE StopNotRunning(c, o, n)
    <2>1. store[n] \in KrunkitNodeState
      BY Zenon, <1>4 DEF StopNotRunning, Owns, WorldTypes
    <2>2. cleared(store[n]) \in KrunkitNodeState
      BY Zenon, <2>1, ClearedType
    <2>3. ClientTypes'
      BY <1>4, <2>2, AcquireTypes DEF StopNotRunning, ClientTypes, Points, Locked, Ops
    <2>4. lost' \subseteq Pids /\ strays' \subseteq Nodes
      BY Zenon, <1>4, <2>1, LoseTypes DEF StopNotRunning
    <2>5. WorldTypes'
      BY Zenon, <1>4, <2>2, <2>4 DEF StopNotRunning, WorldTypes
    <2> QED
      BY Zenon, <2>3, <2>5
  <1>5. CASE StopRunning(c, o, n)
    <2>1. adopted(n, store[n]) \in KrunkitNodeState
      BY SMTT(30), <1>5, AdoptedType DEF StopRunning, Owns, WorldTypes
    <2>2. ClientTypes'
      BY <1>5, <2>1, AcquireTypes DEF StopRunning, ClientTypes, Points, Locked, Ops
    <2> QED
      BY Zenon, <1>5, <2>2, WorldSame DEF StopRunning
  <1> QED
    BY Zenon, <1>1, <1>2, <1>3, <1>4, <1>5

LEMMA CreateTypes ==
  ASSUME TypeOK, NEW c \in Clients,
         \/ MakeNodeDir(c) \/ WriteNewState(c) \/ AlreadyRunning(c) \/ PrepareBoot(c)
         \/ Spawn(c) \/ RecordProcess(c) \/ Started(c),
         pc[c] = "dir" => netfile[NetOf[arg[c]]] # None
  PROVE  TypeOK'
  <1> USE TypesSplit, TypesSplitPrime
  <1>0. arg[c] \in Nodes /\ st[c] \in KrunkitNodeState
    BY Zenon DEF ClientTypes
  <1>1. CASE MakeNodeDir(c)
    BY Zenon, <1>0, <1>1 DEF MakeNodeDir, Goto, ClientTypes, WorldTypes, host, Points, Locked
  <1>2. CASE WriteNewState(c)
    <2> DEFINE s == [NoNodeState EXCEPT !.octet = netfile[NetOf[arg[c]]]]
    <2>1. netfile[NetOf[arg[c]]] \in Octets
      BY Zenon, <1>0, <1>2, ConstantsAssumption DEF WriteNewState, At, WorldTypes
    <2>2. s \in KrunkitNodeState
      BY Zenon, <2>1, BlankStateType DEF KrunkitNodeState
    <2>3. st' = [st EXCEPT ![c] = s] /\ store' = [store EXCEPT ![arg[c]] = s]
      BY Zenon, <1>2 DEF WriteNewState
    <2> HIDE DEF s
    <2>4. ClientTypes'
      BY <1>2, <2>2, <2>3 DEF WriteNewState, Goto, ClientTypes, Points, Locked
    <2>5. WorldTypes'
      BY <1>0, <1>2, <2>2, <2>3 DEF WriteNewState, WorldTypes, host
    <2> QED
      BY Zenon, <2>4, <2>5
  <1>3. CASE AlreadyRunning(c)
    <2>1. [adopted(arg[c], st[c]) EXCEPT !.status = "running"] \in KrunkitNodeState
      BY <1>0, AdoptedType DEF KrunkitNodeState
    <2>2. ClientTypes'
      BY Zenon, <1>3, ReleaseTypes DEF AlreadyRunning
    <2>3. WorldTypes'
      BY Zenon, <1>0, <1>3, <2>1 DEF AlreadyRunning, WorldTypes, host
    <2> QED
      BY Zenon, <2>2, <2>3
  <1>4. CASE PrepareBoot(c)
    <2>1. boots + 1 \in BootIDs
      BY <1>4, ConstantsAssumption DEF PrepareBoot, WorldTypes, BootIDs
    <2>2. [st[c] EXCEPT !.gen = boots + 1, !.ip = 0] \in KrunkitNodeState
      BY Zenon, <1>0, <2>1, Zeros DEF KrunkitNodeState
    <2>3. st' \in [Clients -> KrunkitNodeState]
      <3>1. \/ st' = st
            \/ st' = [st EXCEPT ![c] = [st[c] EXCEPT !.gen = boots + 1, !.ip = 0]]
        BY Zenon, <1>4 DEF PrepareBoot, ClientTypes
      <3> QED
        BY <2>2, <3>1 DEF ClientTypes
    <2>4. ClientTypes'
      BY ZenonT(30), <1>4, <2>3 DEF PrepareBoot, Goto, ClientTypes, Points, Locked
    <2>5. lost' \subseteq Pids /\ strays' \subseteq Nodes
      BY Zenon, <1>0, <1>4, LoseTypes DEF PrepareBoot
    <2>6. WorldTypes'
      BY <1>0, <1>4, <2>1, <2>5 DEF PrepareBoot, WorldTypes
    <2> QED
      BY Zenon, <2>4, <2>6
  <1>5. CASE Spawn(c)
    <2>1. PICK p \in Pids :
            /\ procs' = [procs EXCEPT ![p] = [node |-> arg[c], start |-> clock, boot |-> boots]]
            /\ st' = [st EXCEPT ![c].pid = p, ![c].start = clock, ![c].hash = arg[c],
                                ![c].ip = 0, ![c].status = "running"]
      BY ZenonT(30), <1>5 DEF Spawn
    <2>2. [node |-> arg[c], start |-> clock, boot |-> boots] \in Process
      BY Zenon, <1>0 DEF Process, WorldTypes
    <2>3. [[st[c] EXCEPT !.pid = p, !.start = clock, !.hash = arg[c]]
             EXCEPT !.ip = 0, !.status = "running"] \in KrunkitNodeState
      <3>1. [st[c] EXCEPT !.pid = p, !.start = clock, !.hash = arg[c]] \in KrunkitNodeState
        BY ZenonT(30), <1>0 DEF KrunkitNodeState, WorldTypes
      <3> QED
        BY Zenon, <3>1, Zeros DEF KrunkitNodeState
    <2>4. st' \in [Clients -> KrunkitNodeState]
      BY Zenon, <2>1, <2>3 DEF ClientTypes
    <2>5. ClientTypes'
      BY ZenonT(30), <1>5, <2>4 DEF Spawn, Goto, ClientTypes, Points, Locked
    <2>6. WorldTypes'
      BY ZenonT(30), <1>5, <2>1, <2>2 DEF Spawn, WorldTypes, disk
    <2> QED
      BY Zenon, <2>5, <2>6
  <1>6. CASE RecordProcess(c)
    BY Zenon, <1>0, <1>6 DEF RecordProcess, Goto, ClientTypes, WorldTypes, host, Points, Locked
  <1>7. CASE Started(c)
    BY Zenon, <1>7, ReleaseTypes, WorldSame DEF Started
  <1> QED
    BY Zenon, <1>1, <1>2, <1>3, <1>4, <1>5, <1>6, <1>7

LEMMA UndoTypes ==
  ASSUME TypeOK, NEW c \in Clients,
         \/ TerminateStarted(c) \/ FailEarly(c) \/ CleanNodeDir(c) \/ RemoveStoppedDir(c)
         \/ removeUnusedNetwork(c)
  PROVE  TypeOK'
  <1> USE TypesSplit, TypesSplitPrime
  <1>0. arg[c] \in Nodes /\ st[c] \in KrunkitNodeState
    BY Zenon DEF ClientTypes
  <1>a. ASSUME AfterFailure(c) PROVE ClientTypes'
    BY Zenon, <1>a, ReleaseTypes DEF AfterFailure, Goto, ClientTypes, Points, Locked
  <1>1. CASE TerminateStarted(c)
    <2>1. procs' \in [Pids -> Process \cup {None}]
      BY Zenon, <1>1 DEF TerminateStarted, WorldTypes
    <2>2. lost' \subseteq Pids /\ strays' \subseteq Nodes
      BY ZenonT(30), <1>0, <1>1 DEF TerminateStarted, Lose, processOwned, WorldTypes, KrunkitNodeState
    <2>3. WorldTypes'
      BY Zenon, <1>1, <2>1, <2>2 DEF TerminateStarted, WorldTypes, disk
    <2> QED
      BY Zenon, <1>1, <1>a, <2>3 DEF TerminateStarted
  <1>2. CASE FailEarly(c)
    <2>1. ClientTypes'
      BY Zenon, <1>2, <1>a DEF FailEarly, Goto, ClientTypes, Points, Locked
    <2> QED
      BY Zenon, <1>2, <2>1, WorldSame DEF FailEarly
  <1>3. ASSUME NEW l \in Points, RemoveNodeDir(c, l) PROVE TypeOK'
    <2>1. ClientTypes'
      BY Zenon, <1>3 DEF RemoveNodeDir, Goto, ClientTypes
    <2>2. dirs' \subseteq Nodes /\ store' \in [Nodes -> KrunkitNodeState \cup {None}]
      BY ZenonT(30), <1>0, <1>3 DEF RemoveNodeDir, WorldTypes
    <2>3. generation' \in [Nodes -> BootIDs]
      BY ZenonT(30), <1>0, <1>3, Zeros DEF RemoveNodeDir, WorldTypes
    <2>4. report' \in [Nodes -> [gen : BootIDs, ip : BootIDs] \cup {None}]
      BY Zenon, <1>0, <1>3 DEF RemoveNodeDir, WorldTypes
    <2>5. UNCHANGED <<netfile, host>>
      BY Zenon, <1>3 DEF RemoveNodeDir
    <2>6. WorldTypes'
      BY ZenonT(30), <2>2, <2>3, <2>4, <2>5 DEF WorldTypes, host
    <2> QED
      BY Zenon, <2>1, <2>6
  <1>4. CASE CleanNodeDir(c)
    BY Zenon, <1>3, <1>4 DEF CleanNodeDir, Points, Locked
  <1>5. CASE RemoveStoppedDir(c)
    BY Zenon, <1>3, <1>5 DEF RemoveStoppedDir, Points, Locked
  <1>6. CASE removeUnusedNetwork(c)
    <2>1. ClientTypes'
      BY Zenon, <1>6, ReleaseTypes DEF removeUnusedNetwork
    <2>2. WorldTypes'
      BY Zenon, <1>6 DEF removeUnusedNetwork, WorldTypes, host
    <2> QED
      BY Zenon, <2>1, <2>2
  <1> QED
    BY Zenon, <1>1, <1>2, <1>4, <1>5, <1>6

LEMMA StopTypes ==
  ASSUME TypeOK, NEW c \in Clients,
         \/ SignalProcess(c) \/ StopFinished(c) \/ StopStuck(c) \/ StopReturns(c)
         \/ ResolveAddress(c) \/ SaveAddress(c) \/ ExecFails(c)
  PROVE  TypeOK'
  <1> USE TypesSplit, TypesSplitPrime
  <1>0. arg[c] \in Nodes /\ st[c] \in KrunkitNodeState /\ addr[c] \in BootIDs
    BY Zenon DEF ClientTypes
  <1>1. CASE SignalProcess(c)
    BY ZenonT(30), <1>0, <1>1, ClientSame DEF SignalProcess, WorldTypes, disk
  <1>2. CASE StopFinished(c)
    <2>1. [cleared(st[c]) EXCEPT !.ip = 0] \in KrunkitNodeState
      BY Zenon, <1>0, ClearedType
    <2>2. ClientTypes'
      BY Zenon, <1>2 DEF StopFinished, Goto, ClientTypes, Points, Locked
    <2>3. lost' \subseteq Pids /\ strays' \subseteq Nodes
      BY Zenon, <1>0, <1>2, LoseTypes DEF StopFinished
    <2>4. WorldTypes'
      BY Zenon, <1>0, <1>2, <2>1, <2>3 DEF StopFinished, WorldTypes
    <2> QED
      BY Zenon, <2>2, <2>4
  <1>3. CASE StopStuck(c)
    BY Zenon, <1>3, ReleaseTypes, WorldSame DEF StopStuck
  <1>4. CASE StopReturns(c)
    BY Zenon, <1>4, ReleaseTypes, WorldSame DEF StopReturns
  <1>5. CASE ResolveAddress(c)
    <2>1. nodeAddress(arg[c], st[c]) \subseteq BootIDs
      BY Zenon, <1>0, NodeAddressType
    <2>2. ClientTypes'
      BY Zenon, <1>5, <2>1, ReturnTypes DEF ResolveAddress, Goto, ClientTypes, Points
    <2> QED
      BY Zenon, <1>5, <2>2, WorldSame DEF ResolveAddress
  <1>6. CASE SaveAddress(c)
    <2>1. store' \in [Nodes -> KrunkitNodeState \cup {None}]
      <3>1. CASE store[arg[c]] = None \/ addr[c] = st[c].ip
        BY Zenon, <1>6, <3>1 DEF SaveAddress, WorldTypes
      <3>2. CASE ~(store[arg[c]] = None \/ addr[c] = st[c].ip)
        <4>1. store[arg[c]] \in KrunkitNodeState
          BY Zenon, <1>0, <3>2 DEF WorldTypes
        <4>2. [store[arg[c]] EXCEPT !.ip = addr[c]] \in KrunkitNodeState
          BY Zenon, <1>0, <4>1 DEF KrunkitNodeState
        <4> QED
          BY Zenon, <1>6, <3>2, <4>2 DEF SaveAddress, WorldTypes
      <3> QED
        BY Zenon, <3>1, <3>2
    <2>2. ClientTypes'
      BY Zenon, <1>6, ReturnTypes DEF SaveAddress, ClientTypes
    <2> QED
      BY Zenon, <1>6, <2>1, <2>2 DEF SaveAddress, WorldTypes, host
  <1>7. CASE ExecFails(c)
    <2>1. ClientTypes'
      BY Zenon, <1>7, ReturnTypes DEF ExecFails, ClientTypes
    <2> QED
      BY Zenon, <1>7, <2>1, WorldSame DEF ExecFails
  <1> QED
    BY Zenon, <1>1, <1>2, <1>3, <1>4, <1>5, <1>6, <1>7

LEMMA ListTypes ==
  ASSUME TypeOK, NEW c \in Clients, List(c)
  PROVE  TypeOK'
  <1> USE TypesSplit, TypesSplitPrime
  <1> DEFINE listed == {n \in dirs : \A m \in dirs : m <= n => store[m] # None}
  <1>1. PICK owned \in [listed -> BOOLEAN], ip \in [listed -> BootIDs] :
          /\ store' = [n \in Nodes |-> IF n \in listed THEN Reconciled(n, owned[n], ip[n])
                                       ELSE store[n]]
          /\ LET missed == {n \in listed : processOwned(n, store[n]) /\ ~owned[n]}
             IN /\ lost' = lost \cup {store[n].pid : n \in missed}
                /\ strays' = strays \cup missed
    BY ZenonT(30) DEF List
  <1>2. \A n \in listed : n \in Nodes /\ store[n] # None /\ store[n] \in KrunkitNodeState
    <2>1. \A n \in Nodes : n <= n
      BY ConstantsAssumption
    <2> QED
      BY Zenon, <2>1 DEF WorldTypes
  <1>3. store' \in [Nodes -> KrunkitNodeState \cup {None}]
    BY Zenon, <1>1, <1>2, ReconciledType DEF WorldTypes
  <1>4. lost' \subseteq Pids /\ strays' \subseteq Nodes
    <2>1. \A n \in listed : processOwned(n, store[n]) => store[n].pid \in Pids
      BY Zenon, <1>2 DEF processOwned, KrunkitNodeState
    <2> QED
      BY SMTT(30), <1>1, <1>2, <2>1 DEF WorldTypes
  <1>5. WorldTypes'
    BY ZenonT(30), <1>3, <1>4 DEF List, WorldTypes
  <1>6. ClientTypes'
    BY Zenon, ClientSame DEF List, Atomically, client
  <1> QED
    BY Zenon, <1>5, <1>6

LEMMA HostTypes ==
  ASSUME TypeOK,
         \/ \E c \in Clients : KillClient(c)
         \/ \E p \in Pids : ProcessExit(p) \/ OtherProcess(p) \/ GuestReport(p)
         \/ Tick \/ Reboot
  PROVE  TypeOK'
  <1> USE TypesSplit, TypesSplitPrime
  <1>1. ASSUME NEW c \in Clients, KillClient(c) PROVE TypeOK'
    <2>1. ClientTypes'
      BY Zenon, <1>1, ReturnTypes DEF KillClient, ClientTypes
    <2>2. lost' \subseteq Pids /\ strays' \subseteq Nodes
      BY ZenonT(30), <1>1, LoseTypes DEF KillClient, ClientTypes, WorldTypes
    <2>3. kills' \in 0 .. MaxKills
      <3>1. kills \in 0 .. MaxKills /\ kills < MaxKills /\ kills' = kills + 1
        BY Zenon, <1>1 DEF KillClient, WorldTypes
      <3> HIDE TypesSplit, TypesSplitPrime
      <3> QED
        BY <3>1, ConstantsAssumption
    <2>4. WorldTypes'
      BY ZenonT(30), <1>1, <2>2, <2>3 DEF KillClient, WorldTypes, disk
    <2> QED
      BY Zenon, <2>1, <2>4
  <1>2. ASSUME NEW p \in Pids, ProcessExit(p) PROVE TypeOK'
    BY ZenonT(30), <1>2, ClientSame DEF ProcessExit, WorldTypes, disk
  <1>3. ASSUME NEW p \in Pids, OtherProcess(p) PROVE TypeOK'
    <2>1. [node |-> 0, start |-> clock, boot |-> 0] \in Process
      BY ZenonT(30), Zeros DEF Process, WorldTypes
    <2> QED
      BY ZenonT(30), <1>3, <2>1, ClientSame DEF OtherProcess, WorldTypes, disk
  <1>4. ASSUME NEW p \in Pids, GuestReport(p) PROVE TypeOK'
    <2>1. procs[p] \in Process
      BY Zenon, <1>4 DEF GuestReport, WorldTypes
    <2>2. [gen |-> generation[procs[p].node], ip |-> procs[p].boot] \in [gen : BootIDs, ip : BootIDs]
      BY Zenon, <1>4, <2>1 DEF GuestReport, WorldTypes, Process
    <2> QED
      BY Zenon, <1>4, <2>1, <2>2, ClientSame DEF GuestReport, WorldTypes, host
  <1>5. ASSUME Tick PROVE TypeOK'
    <2>1. clock' \in Seconds
      BY <1>5, ConstantsAssumption DEF Tick, WorldTypes, Seconds
    <2> QED
      BY Zenon, <1>5, <2>1, ClientSame DEF Tick, WorldTypes, disk
  <1>6. ASSUME Reboot PROVE TypeOK'
    <2>1. clock' \in Seconds /\ reboots' \in 0 .. MaxReboots
      BY SMTT(30), <1>6, ConstantsAssumption DEF Reboot, WorldTypes, Seconds
    <2>2. ClientTypes'
      BY Zenon, <1>6, SomeNodeType, BlankStateType, Zeros DEF Reboot, ClientTypes, Points, Ops
    <2>3. WorldTypes'
      BY Zenon, <1>6, <2>1 DEF Reboot, WorldTypes, disk
    <2> QED
      BY Zenon, <2>2, <2>3
  <1> QED
    BY Zenon, <1>1, <1>2, <1>3, <1>4, <1>5, <1>6

-----------------------------------------------------------------------------
(* Networks.                                                               *)

NetworkInv == TypeOK /\ LockHeld /\ NetworksDisjoint /\ SubnetOfEveryNode /\ NetworkInHand

\* With the lock held by c, every other client is outside the locked part.
LEMMA Alone ==
  ASSUME TypeOK, LockHeld, NEW c \in Clients, pc[c] \in Locked
  PROVE  \A d \in Clients : d # c => pc[d] \notin Locked
  BY Zenon, ConstantsAssumption DEF LockHeld

LEMMA Unlocked ==
  ASSUME TypeOK, LockHeld, lock = None
  PROVE  \A d \in Clients : pc[d] \notin Locked
  BY Zenon, ConstantsAssumption DEF LockHeld

\* A client outside the locked section has no network or node in hand.
LEMMA NothingInHand ==
  ASSUME \A d \in Clients : pc'[d] \notin Locked
  PROVE  NetworkInHand'
  BY Zenon DEF NetworkInHand, Locked

LEMMA InitNetworks == Init => NetworkInv
  <1> SUFFICES ASSUME Init PROVE NetworkInv
    BY Zenon
  <1>1. TypeOK
    BY Zenon, InitTypes
  <1>2. PICK pid \in [Legacy -> Pids], o \in [NetIDs -> Octets \cup {None}] :
          /\ \A i \in NetIDs : o[i] = None <=> \A n \in Legacy : NetOf[n] # i
          /\ \A i, j \in NetIDs : o[i] # None /\ o[i] = o[j] => i = j
          /\ netfile = o
          /\ store = [n \in Nodes |-> IF n \in Legacy THEN LegacyState(pid[n], o[NetOf[n]]) ELSE None]
    BY DEF Init
  <1>3. NetworksDisjoint
    BY Zenon, <1>2 DEF NetworksDisjoint
  <1>4. SubnetOfEveryNode
    BY Zenon, <1>2, ConstantsAssumption DEF SubnetOfEveryNode, LegacyState
  <1>5. LockHeld /\ NetworkInHand
    BY ZenonT(30) DEF Init, LockHeld, NetworkInHand, Locked
  <1> QED
    BY Zenon, <1>1, <1>3, <1>4, <1>5 DEF NetworkInv

LEMMA NetworkStep == NetworkInv /\ [Next]_vars => NetworkInv'
  <1> SUFFICES ASSUME NetworkInv, [Next]_vars PROVE NetworkInv'
    BY Zenon
  <1> USE DEF NetworkInv
  <1>0. TypeOK'
    <2>1. CASE UNCHANGED vars
      BY Zenon, <2>1 DEF vars, client, disk, host, TypeOK
    <2>2. \A c \in Clients : pc[c] = "dir" => netfile[NetOf[arg[c]]] # None
      BY Zenon DEF NetworkInHand
    <2>3. CASE Next
      BY Zenon, <2>2, <2>3, StepCases, CallTypes, CreateTypes, UndoTypes, StopTypes, ListTypes, HostTypes
    <2> QED
      BY Zenon, <2>1, <2>3
  <1> SUFFICES LockHeld' /\ NetworksDisjoint' /\ SubnetOfEveryNode' /\ NetworkInHand'
    BY Zenon, <1>0
  <1> DEFINE Goal == LockHeld' /\ NetworksDisjoint' /\ SubnetOfEveryNode' /\ NetworkInHand'
  <1>a. ASSUME UNCHANGED <<netfile, store>> PROVE NetworksDisjoint' /\ SubnetOfEveryNode'
    BY Zenon, <1>a DEF NetworksDisjoint, SubnetOfEveryNode
  <1>1. CASE UNCHANGED vars
    BY Zenon, <1>1 DEF vars, client, disk, LockHeld, NetworksDisjoint, SubnetOfEveryNode, NetworkInHand
  <1>2. ASSUME NEW c \in Clients, NEW n \in Nodes, RunDetached(c, n) PROVE Goal
    <2>1. \A d \in Clients : pc[d] \notin Locked
      BY Zenon, <1>2, Unlocked DEF RunDetached, Acquire
    <2>2. LockHeld'
      BY Zenon, <1>2, <2>1 DEF RunDetached, Acquire, Goto, LockHeld, TypeOK
    <2>3. NetworksDisjoint' /\ netfile'[NetOf[n]] # None
          /\ \A i \in NetIDs : netfile[i] # None => netfile'[i] = netfile[i]
      <3>1. CASE netfile[NetOf[n]] # None /\ UNCHANGED netfile
        BY Zenon, <3>1 DEF NetworksDisjoint
      <3>2. CASE netfile[NetOf[n]] = None
        <4>1. PICK ifaces \in SUBSET Octets, o \in Octets :
                /\ ChosenOctet(NetOf[n], ifaces, o)
                /\ netfile' = [netfile EXCEPT ![NetOf[n]] = o]
          BY Zenon, <1>2, <3>2 DEF RunDetached
        <4>2. \A i \in NetIDs : netfile[i] # None => netfile[i] # o
          BY Zenon, <4>1 DEF ChosenOctet
        <4>3. o # None
          BY Zenon, NoneAssumption
        <4> QED
          BY <3>2, <4>1, <4>2, <4>3, ConstantsAssumption DEF NetworksDisjoint, TypeOK
      <3> QED
        BY Zenon, <1>2, <3>1, <3>2 DEF RunDetached
    <2>4. SubnetOfEveryNode'
      BY SMTT(30), <1>2, <2>3, ConstantsAssumption DEF RunDetached, SubnetOfEveryNode
    <2>5. NetworkInHand'
      BY <1>2, <2>1, <2>3 DEF RunDetached, Acquire, Goto, NetworkInHand, TypeOK, Locked
    <2> QED
      BY Zenon, <2>2, <2>3, <2>4, <2>5
  <1>3. ASSUME NEW c \in Clients, NEW n \in Nodes, Start(c, n) PROVE Goal
    <2>1. \A d \in Clients : pc[d] \notin Locked
      BY Zenon, <1>3, Unlocked DEF Start, Acquire
    <2>2. UNCHANGED <<netfile, store>>
      BY Zenon, <1>3 DEF Start, disk
    <2>3. LockHeld' /\ NetworkInHand'
      BY <1>3, <2>1, <2>2 DEF Start, Owns, Acquire, Goto, LockHeld, NetworkInHand, TypeOK, Locked
    <2> QED
      BY Zenon, <1>a, <2>2, <2>3
  <1>4. ASSUME NEW c \in Clients, NEW n \in Nodes, Exec(c, n) PROVE Goal
    <2>1. UNCHANGED <<netfile, store, lock>> /\ pc' = [pc EXCEPT ![c] = "addr"]
      BY Zenon, <1>4 DEF Exec, Goto, disk
    <2>2. LockHeld' /\ NetworkInHand'
      BY Zenon, <1>4, <2>1 DEF Exec, LockHeld, NetworkInHand, TypeOK, Locked
    <2> QED
      BY Zenon, <1>a, <2>1, <2>2
  <1>5. ASSUME NEW c \in Clients, NEW n \in Nodes, NEW o \in {"stop", "remove"},
               StopNotRunning(c, o, n)
        PROVE  Goal
    <2>1. \A d \in Clients : pc[d] \notin Locked
      BY Zenon, <1>5, Unlocked DEF StopNotRunning, Acquire
    <2>2. /\ store[n] \in KrunkitNodeState /\ store[n] # None
          /\ cleared(store[n]) \in KrunkitNodeState /\ cleared(store[n]).octet = store[n].octet
      BY ZenonT(30), <1>5, ClearedType DEF StopNotRunning, Owns, TypeOK
    <2>3. netfile' = netfile /\ store' = [store EXCEPT ![n] = cleared(store[n])]
      BY Zenon, <1>5 DEF StopNotRunning
    <2>4. NetworksDisjoint' /\ SubnetOfEveryNode'
      BY Zenon, <2>2, <2>3 DEF NetworksDisjoint, SubnetOfEveryNode, TypeOK
    <2>5. LockHeld' /\ NetworkInHand'
      BY Zenon, <1>5, <2>1 DEF StopNotRunning, Acquire, Goto, LockHeld, NetworkInHand, TypeOK, Locked
    <2> QED
      BY Zenon, <2>4, <2>5
  <1>6. ASSUME NEW c \in Clients, NEW n \in Nodes, NEW o \in {"stop", "remove"},
               StopRunning(c, o, n)
        PROVE  Goal
    <2>1. \A d \in Clients : pc[d] \notin Locked
      BY Zenon, <1>6, Unlocked DEF StopRunning, Acquire
    <2>2. store[n] # None /\ adopted(n, store[n]).octet = store[n].octet
      BY Zenon, <1>6, AdoptedType DEF StopRunning, Owns, TypeOK
    <2>3. UNCHANGED <<netfile, store>>
      BY Zenon, <1>6 DEF StopRunning, disk
    <2>4. LockHeld' /\ NetworkInHand'
      BY SMTT(30), <1>6, <2>1, <2>2, <2>3
         DEF StopRunning, Acquire, Goto, LockHeld, NetworkInHand, TypeOK, Locked
    <2> QED
      BY Zenon, <1>a, <2>3, <2>4
  <1>7. ASSUME NEW c \in Clients, List(c) PROVE Goal
    <2> DEFINE listed == {n \in dirs : \A m \in dirs : m <= n => store[m] # None}
    <2>1. PICK owned \in [listed -> BOOLEAN], ip \in [listed -> BootIDs] :
            store' = [n \in Nodes |-> IF n \in listed THEN Reconciled(n, owned[n], ip[n])
                                      ELSE store[n]]
      BY ZenonT(30), <1>7 DEF List
    <2>2. \A n \in listed : n \in Nodes /\ store[n] # None
      <3>1. \A n \in Nodes : n <= n
        BY ConstantsAssumption
      <3> QED
        BY Zenon, <3>1 DEF TypeOK
    <2>3. \A n \in Nodes : store'[n] # None => store[n] # None /\ store'[n].octet = store[n].octet
      BY <2>1, <2>2, ReconciledType
    <2>4. \A d \in Clients : pc[d] \notin Locked
      BY Zenon, <1>7, Unlocked DEF List, Atomically
    <2>5. UNCHANGED <<netfile, lock, pc>>
      BY ZenonT(30), <1>7 DEF List, Atomically
    <2> QED
      BY ZenonT(30), <2>3, <2>4, <2>5
         DEF LockHeld, NetworksDisjoint, SubnetOfEveryNode, NetworkInHand, Locked
  <1>8. ASSUME NEW c \in Clients, MakeNodeDir(c) PROVE Goal
    BY Zenon, <1>8, <1>a DEF MakeNodeDir, At, Goto, LockHeld, NetworkInHand, TypeOK, Locked
  <1>9. ASSUME NEW c \in Clients, WriteNewState(c) PROVE Goal
    <2> DEFINE s == [NoNodeState EXCEPT !.octet = netfile[NetOf[arg[c]]]]
    <2>1. /\ netfile[NetOf[arg[c]]] # None /\ netfile[NetOf[arg[c]]] \in Octets
          /\ arg[c] \in Nodes
      BY ZenonT(30), <1>9, ConstantsAssumption DEF WriteNewState, At, NetworkInHand, TypeOK
    <2>2. s \in KrunkitNodeState /\ s.octet = netfile[NetOf[arg[c]]]
      BY Zenon, <2>1, BlankStateType DEF KrunkitNodeState
    <2>3. s # None
      BY Zenon, <2>2, NoneAssumption
    <2>4. /\ st' = [st EXCEPT ![c] = s] /\ store' = [store EXCEPT ![arg[c]] = s]
          /\ pc' = [pc EXCEPT ![c] = "start"] /\ UNCHANGED <<netfile, arg, lock>>
          /\ pc[c] \in Locked
      BY Zenon, <1>9 DEF WriteNewState, At, Goto, Locked
    <2> HIDE DEF s
    <2>5. NetworksDisjoint' /\ SubnetOfEveryNode'
      BY Zenon, <2>1, <2>2, <2>4 DEF NetworksDisjoint, SubnetOfEveryNode, TypeOK
    <2>6. LockHeld'
      BY Zenon, <2>4 DEF LockHeld, TypeOK
    <2>7. NetworkInHand'
      BY ZenonT(30), <2>1, <2>2, <2>3, <2>4, Alone DEF NetworkInHand, TypeOK, Locked
    <2> QED
      BY Zenon, <2>5, <2>6, <2>7
  <1>r. ASSUME NEW c \in Clients, Release(c), lock = c PROVE LockHeld' /\ pc' = [pc EXCEPT ![c] = "idle"]
    BY ZenonT(30), <1>r, ConstantsAssumption DEF Release, Return, Goto, LockHeld, TypeOK, Locked
  <1>s. ASSUME NEW c \in Clients, UNCHANGED <<netfile, store>>, lock = c, Release(c) PROVE Goal
    BY ZenonT(30), <1>a, <1>r, <1>s DEF Release, Return, NetworkInHand, TypeOK
  <1>10. ASSUME NEW c \in Clients, AlreadyRunning(c) PROVE Goal
    <2>1. /\ store[arg[c]] # None /\ st[c].octet = store[arg[c]].octet /\ arg[c] \in Nodes
          /\ st[c] \in KrunkitNodeState /\ lock = c
      BY Zenon, <1>10 DEF AlreadyRunning, At, NetworkInHand, LockHeld, Locked, TypeOK
    <2> DEFINE s == [adopted(arg[c], st[c]) EXCEPT !.status = "running"]
    <2>2. s \in KrunkitNodeState /\ s.octet = store[arg[c]].octet
      BY <2>1, AdoptedType DEF KrunkitNodeState
    <2>3. store' = [store EXCEPT ![arg[c]] = s] /\ UNCHANGED netfile /\ Release(c)
      BY Zenon, <1>10 DEF AlreadyRunning
    <2> HIDE DEF s
    <2>4. NetworksDisjoint' /\ SubnetOfEveryNode'
      BY Zenon, <2>1, <2>2, <2>3 DEF NetworksDisjoint, SubnetOfEveryNode, TypeOK
    <2>5. \A d \in Clients : d # c => pc[d] \notin Locked
      BY Zenon, <1>10, Alone DEF AlreadyRunning, At, Locked
    <2>6. LockHeld' /\ pc' = [pc EXCEPT ![c] = "idle"]
      BY Zenon, <1>r, <2>1, <2>3
    <2>7. NetworkInHand'
      <3>1. pc \in [Clients -> Points] /\ "idle" \notin Locked
        BY Zenon DEF TypeOK, Locked
      <3>2. \A d \in Clients : pc'[d] \notin Locked
        BY Zenon, <2>5, <2>6, <3>1
      <3> QED
        BY Zenon, <3>2, NothingInHand
    <2> QED
      BY Zenon, <2>4, <2>6, <2>7
  <1>11. ASSUME NEW c \in Clients, PrepareBoot(c) PROVE Goal
    <2>1. UNCHANGED <<netfile, store, lock, arg>> /\ pc' = [pc EXCEPT ![c] = "prep"] /\ pc[c] = "start"
      BY Zenon, <1>11 DEF PrepareBoot, At, Goto
    <2>2. \A d \in Clients : st'[d].octet = st[d].octet
      <3>1. \/ st' = st
            \/ st' = [st EXCEPT ![c] = [st[c] EXCEPT !.gen = boots + 1, !.ip = 0]]
        BY ZenonT(30), <1>11 DEF PrepareBoot, TypeOK
      <3>2. [st[c] EXCEPT !.gen = boots + 1, !.ip = 0].octet = st[c].octet
        BY DEF TypeOK, KrunkitNodeState
      <3> QED
        BY Zenon, <3>1, <3>2 DEF TypeOK
    <2> QED
      BY ZenonT(30), <1>a, <2>1, <2>2 DEF LockHeld, NetworkInHand, TypeOK, Locked
  <1>12. ASSUME NEW c \in Clients, Spawn(c) PROVE Goal
    <2>1. UNCHANGED <<netfile, store, lock, arg>> /\ pc' = [pc EXCEPT ![c] = "spawned"] /\ pc[c] = "prep"
      BY Zenon, <1>12 DEF Spawn, At, Goto, disk
    <2>2. \A d \in Clients : st'[d].octet = st[d].octet
      <3>1. PICK p \in Pids :
              st' = [st EXCEPT ![c].pid = p, ![c].start = clock, ![c].hash = arg[c],
                               ![c].ip = 0, ![c].status = "running"]
        BY ZenonT(30), <1>12 DEF Spawn
      <3>2. st[c] \in KrunkitNodeState
        BY Zenon DEF TypeOK
      <3>3. [st[c] EXCEPT !.pid = p, !.start = clock, !.hash = arg[c],
                          !.ip = 0, !.status = "running"].octet = st[c].octet
        BY Zenon, <3>2 DEF KrunkitNodeState
      <3> QED
        BY Zenon, <3>1, <3>3 DEF TypeOK
    <2> QED
      BY ZenonT(30), <1>a, <2>1, <2>2 DEF LockHeld, NetworkInHand, TypeOK, Locked
  <1>13. ASSUME NEW c \in Clients, RecordProcess(c) PROVE Goal
    <2>1. /\ store[arg[c]] # None /\ st[c].octet = store[arg[c]].octet /\ arg[c] \in Nodes
          /\ st[c] \in KrunkitNodeState /\ st[c] # None /\ pc[c] \in Locked
      BY SMTT(30), <1>13, NoneAssumption DEF RecordProcess, At, NetworkInHand, Locked, TypeOK
    <2>2. /\ store' = [store EXCEPT ![arg[c]] = st[c]] /\ UNCHANGED <<netfile, lock, arg, st>>
          /\ pc' = [pc EXCEPT ![c] = "recorded"]
      BY ZenonT(30), <1>13 DEF RecordProcess, Goto
    <2>3. NetworksDisjoint' /\ SubnetOfEveryNode'
      BY ZenonT(30), <2>1, <2>2 DEF NetworksDisjoint, SubnetOfEveryNode, TypeOK
    <2>4. \A d \in Clients : d # c => pc[d] \notin Locked
      BY Zenon, <2>1, Alone
    <2>5. pc \in [Clients -> Points] /\ store \in [Nodes -> KrunkitNodeState \cup {None}]
      BY Zenon DEF TypeOK
    <2>6. pc'[c] = "recorded" /\ store'[arg'[c]] = st[c]
      BY Zenon, <2>1, <2>2, <2>5
    <2>7. \A d \in Clients : d # c => pc'[d] \notin Locked
      BY Zenon, <2>2, <2>4, <2>5
    <2>8. lock' = c
      BY Zenon, <2>1, <2>2 DEF LockHeld
    <2>9. LockHeld'
      BY Zenon, <2>7, <2>8 DEF LockHeld
    <2>10. NetworkInHand'
      <3>1. ASSUME NEW d \in Clients, d # c
            PROVE  pc'[d] \notin {"net", "dir", "start", "prep", "spawned", "recorded", "stopping"}
        BY Zenon, <2>7, <3>1 DEF Locked
      <3>2. pc'[c] \notin {"net", "dir"} /\ store'[arg'[c]] # None
            /\ st'[c].octet = store'[arg'[c]].octet
        BY Zenon, <2>1, <2>2, <2>6
      <3> QED
        BY Zenon, <3>1, <3>2 DEF NetworkInHand
    <2> QED
      BY Zenon, <2>3, <2>9, <2>10
  <1>14. ASSUME NEW c \in Clients, Started(c) PROVE Goal
    BY Zenon, <1>14, <1>s DEF Started, At, LockHeld, Locked, disk
  <1>f. ASSUME NEW c \in Clients, AfterFailure(c), pc[c] \in Locked, UNCHANGED <<netfile, store>>
        PROVE  Goal
    <2>1. lock = c
      BY Zenon, <1>f DEF LockHeld
    <2>2. CASE op[c] = "create"
      BY SMTT(30), <1>a, <1>f, <2>1, <2>2 DEF AfterFailure, Goto, LockHeld, NetworkInHand, TypeOK, Locked
    <2>3. CASE op[c] # "create"
      BY ZenonT(30), <1>s, <1>f, <2>1, <2>3 DEF AfterFailure
    <2> QED
      BY Zenon, <2>2, <2>3
  <1>15. ASSUME NEW c \in Clients, TerminateStarted(c) PROVE Goal
    BY Zenon, <1>15, <1>f DEF TerminateStarted, Locked, disk
  <1>16. ASSUME NEW c \in Clients, FailEarly(c) PROVE Goal
    <2>1. CASE pc[c] = "net"
      BY <1>16, <1>a, <2>1 DEF FailEarly, Goto, LockHeld, NetworkInHand, TypeOK, Locked, disk
    <2>2. CASE pc[c] # "net"
      BY Zenon, <1>16, <1>f, <2>2 DEF FailEarly, Locked, disk
    <2> QED
      BY Zenon, <2>1, <2>2
  <1>17. ASSUME NEW c \in Clients, pc[c] \in Locked, RemoveNodeDir(c, "forget") PROVE Goal
    <2>1. /\ UNCHANGED <<netfile, lock, arg, st>> /\ pc' = [pc EXCEPT ![c] = "forget"]
          /\ store' = store \/ store' = [store EXCEPT ![arg[c]] = None]
      BY Zenon, <1>17 DEF RemoveNodeDir, Goto
    <2>2. NetworksDisjoint' /\ SubnetOfEveryNode'
      <3>1. store \in [Nodes -> KrunkitNodeState \cup {None}]
        BY Zenon DEF TypeOK
      <3>2. \A n \in Nodes : store'[n] # None => store[n] # None /\ store'[n] = store[n]
        BY Zenon, <2>1, <3>1
      <3> QED
        BY Zenon, <2>1, <3>2 DEF NetworksDisjoint, SubnetOfEveryNode
    <2>3. LockHeld' /\ NetworkInHand'
      BY <1>17, <2>1, Alone DEF LockHeld, NetworkInHand, TypeOK, Locked
    <2> QED
      BY Zenon, <2>2, <2>3
  <1>18. ASSUME NEW c \in Clients, CleanNodeDir(c) \/ RemoveStoppedDir(c) PROVE Goal
    BY Zenon, <1>17, <1>18 DEF CleanNodeDir, RemoveStoppedDir, At, Locked
  <1>19. ASSUME NEW c \in Clients, removeUnusedNetwork(c) PROVE Goal
    <2>1. lock = c /\ pc[c] \in Locked /\ Release(c) /\ UNCHANGED store
      BY Zenon, <1>19 DEF removeUnusedNetwork, At, LockHeld, Locked
    <2>2. CASE \E n \in Nodes : store[n] # None /\ NetOf[n] = NetOf[arg[c]]
      BY Zenon, <1>19, <1>s, <2>1, <2>2 DEF removeUnusedNetwork
    <2>3. CASE ~\E n \in Nodes : store[n] # None /\ NetOf[n] = NetOf[arg[c]]
      <3>1. netfile' = [netfile EXCEPT ![NetOf[arg[c]]] = None]
        BY Zenon, <1>19, <2>3 DEF removeUnusedNetwork
      <3>2. NetworksDisjoint' /\ SubnetOfEveryNode'
        BY ZenonT(30), <2>1, <2>3, <3>1, ConstantsAssumption DEF NetworksDisjoint, SubnetOfEveryNode, TypeOK
      <3>3. LockHeld' /\ pc' = [pc EXCEPT ![c] = "idle"]
        BY Zenon, <1>r, <2>1
      <3>4. NetworkInHand'
        BY ZenonT(30), <2>1, <3>3, Alone DEF NetworkInHand, TypeOK, Locked
      <3> QED
        BY Zenon, <3>2, <3>3, <3>4
    <2> QED
      BY Zenon, <2>2, <2>3
  <1>20. ASSUME NEW c \in Clients, SignalProcess(c) PROVE Goal
    BY Zenon, <1>20, <1>a DEF SignalProcess, client, disk, LockHeld, NetworkInHand
  <1>21. ASSUME NEW c \in Clients, StopFinished(c) PROVE Goal
    <2> DEFINE s == [cleared(st[c]) EXCEPT !.ip = 0]
    <2>1. /\ store[arg[c]] # None /\ st[c].octet = store[arg[c]].octet /\ arg[c] \in Nodes
          /\ st[c] \in KrunkitNodeState /\ pc[c] \in Locked
      BY Zenon, <1>21 DEF StopFinished, At, NetworkInHand, Locked, TypeOK
    <2>2. s \in KrunkitNodeState /\ s.octet = store[arg[c]].octet
      BY Zenon, <2>1, ClearedType
    <2>3. /\ store' = [store EXCEPT ![arg[c]] = s] /\ UNCHANGED <<netfile, lock, arg, st>>
          /\ pc' = [pc EXCEPT ![c] = IF op[c] = "remove" THEN "rmdir" ELSE "signalled"]
      BY Zenon, <1>21 DEF StopFinished, Goto
    <2> HIDE DEF s
    <2>4. NetworksDisjoint' /\ SubnetOfEveryNode'
      BY ZenonT(30), <2>1, <2>2, <2>3 DEF NetworksDisjoint, SubnetOfEveryNode, TypeOK
    <2>5. LockHeld' /\ NetworkInHand'
      BY SMTT(30), <2>1, <2>3, Alone DEF LockHeld, NetworkInHand, TypeOK, Locked
    <2> QED
      BY Zenon, <2>4, <2>5
  <1>22. ASSUME NEW c \in Clients, StopStuck(c) \/ StopReturns(c) PROVE Goal
    BY ZenonT(30), <1>22, <1>s DEF StopStuck, StopReturns, At, LockHeld, Locked, disk
  <1>t. ASSUME NEW c \in Clients, pc[c] \notin Locked, UNCHANGED lock, Return(c)
        PROVE  LockHeld' /\ pc' = [pc EXCEPT ![c] = "idle"]
    BY ZenonT(30), <1>t DEF Return, Goto, LockHeld, TypeOK, Locked
  <1>23. ASSUME NEW c \in Clients, ResolveAddress(c) PROVE Goal
    <2>1. pc[c] \notin Locked /\ UNCHANGED <<lock, netfile, store>>
      BY ZenonT(30), <1>23 DEF ResolveAddress, At, Locked, disk
    <2>2. \/ Return(c)
          \/ pc' = [pc EXCEPT ![c] = "ssh"] /\ UNCHANGED <<op, arg, st>>
      BY Zenon, <1>23 DEF ResolveAddress, Goto
    <2>3. CASE Return(c)
      <3>1. LockHeld' /\ pc' = [pc EXCEPT ![c] = "idle"]
        BY Zenon, <1>t, <2>1, <2>3
      <3>2. \A d \in Clients \ {c} : arg'[d] = arg[d] /\ st'[d] = st[d] /\ pc'[d] = pc[d]
        BY Zenon, <2>3, <3>1 DEF Return, TypeOK
      <3>3. pc'[c] = "idle"
        BY Zenon, <3>1 DEF TypeOK
      <3>4. NetworkInHand'
        BY SMTT(30), <2>1, <3>2, <3>3 DEF NetworkInHand
      <3> QED
        BY Zenon, <1>a, <2>1, <3>1, <3>4
    <2>4. CASE pc' = [pc EXCEPT ![c] = "ssh"] /\ UNCHANGED <<op, arg, st>>
      BY Zenon, <1>a, <2>1, <2>4 DEF LockHeld, NetworkInHand, TypeOK, Locked
    <2> QED
      BY Zenon, <2>2, <2>3, <2>4
  <1>24. ASSUME NEW c \in Clients, SaveAddress(c) PROVE Goal
    <2>1. pc[c] \notin Locked /\ UNCHANGED <<lock, netfile>> /\ Return(c)
      BY Zenon, <1>24 DEF SaveAddress, At, Locked
    <2>2. \A n \in Nodes : store'[n] # None =>
            store[n] # None /\ store'[n].octet = store[n].octet
      BY <1>24 DEF SaveAddress, TypeOK, KrunkitNodeState
    <2>3. LockHeld' /\ pc' = [pc EXCEPT ![c] = "idle"]
      BY Zenon, <1>t, <2>1
    <2>4. \A d \in Clients : pc[d] \notin Locked
      BY Zenon, <1>24, Unlocked DEF SaveAddress
    <2>5. \A d \in Clients : pc'[d] = "idle" \/ pc'[d] = pc[d]
      BY Zenon, <2>3 DEF TypeOK
    <2>6. \A d \in Clients :
            pc'[d] \notin {"net", "dir", "start", "prep", "spawned", "recorded", "stopping"}
      BY Zenon, <2>4, <2>5 DEF Locked
    <2>7. NetworkInHand'
      BY Zenon, <2>6 DEF NetworkInHand
    <2> QED
      BY Zenon, <2>1, <2>2, <2>3, <2>7 DEF NetworksDisjoint, SubnetOfEveryNode
  <1>25. ASSUME NEW c \in Clients, ExecFails(c) PROVE Goal
    BY ZenonT(30), <1>25, <1>a, <1>t DEF ExecFails, Return, disk, NetworkInHand, TypeOK, Locked
  <1>26. ASSUME NEW c \in Clients, KillClient(c) PROVE Goal
    <2>1. UNCHANGED <<netfile, store>> /\ Return(c)
      BY Zenon, <1>26 DEF KillClient, disk
    <2>2. LockHeld'
      BY ZenonT(30), <1>26 DEF KillClient, Return, Goto, LockHeld, TypeOK, Locked
    <2>3. NetworkInHand'
      BY ZenonT(30), <2>1 DEF Return, Goto, NetworkInHand, TypeOK
    <2> QED
      BY Zenon, <1>a, <2>1, <2>2, <2>3
  <1>27. ASSUME NEW p \in Pids, ProcessExit(p) \/ OtherProcess(p) \/ GuestReport(p) PROVE Goal
    BY ZenonT(30), <1>27, <1>a DEF ProcessExit, OtherProcess, GuestReport, client, disk, LockHeld, NetworkInHand
  <1>28. ASSUME Tick PROVE Goal
    BY ZenonT(30), <1>28, <1>a DEF Tick, client, disk, LockHeld, NetworkInHand
  <1>29. ASSUME Reboot PROVE Goal
    BY ZenonT(30), <1>29, <1>a DEF Reboot, disk, LockHeld, NetworkInHand, Locked
  <1> QED
    BY ZenonT(30), StepCases, <1>1, <1>2, <1>3, <1>4, <1>5, <1>6, <1>7, <1>8, <1>9, <1>10, <1>11, <1>12,
       <1>13, <1>14, <1>15, <1>16, <1>18, <1>19, <1>20, <1>21, <1>22, <1>23, <1>24, <1>25,
       <1>26, <1>27, <1>28, <1>29

\* Every variable always has its type.
THEOREM TypeCorrect == Spec => []TypeOK
  <1>1. Init => NetworkInv
    BY Zenon, InitNetworks
  <1>2. NetworkInv /\ [Next]_vars => NetworkInv'
    BY Zenon, NetworkStep
  <1>3. NetworkInv => TypeOK
    BY Zenon DEF NetworkInv
  <1> QED
    BY <1>1, <1>2, <1>3, PTL DEF Spec

\* Subnets are never shared, and a node's subnet is on record as long as it is.
THEOREM NetworksSafe == Spec => []NetworksSound
  <1>1. Init => NetworkInv
    BY Zenon, InitNetworks
  <1>2. NetworkInv /\ [Next]_vars => NetworkInv'
    BY Zenon, NetworkStep
  <1>3. NetworkInv => NetworksSound
    BY Zenon DEF NetworkInv, NetworksSound
  <1> QED
    BY <1>1, <1>2, <1>3, PTL DEF Spec

-----------------------------------------------------------------------------
(* VM processes.                                                           *)

\* A state that names a process by its identity names one of its own node.
Own(n, s) == s.start # 0 => s.hash = n

Timed == clock # 0 /\ \A p \in Pids : procs[p] # None => procs[p].start # 0

StoresOwn == \A n \in Nodes : store[n] # None => Own(n, store[n])

ClientsOwn == \A c \in Clients : Own(arg[c], st[c]) /\ (pc[c] = "idle" => st[c].start = 0)

Identified == Timed /\ StoresOwn /\ ClientsOwn

Named(n, p) == store[n] # None /\ store[n].pid = p /\ processOwned(n, store[n])

InHand(n) == \E c \in Clients : pc[c] = "spawned" /\ arg[c] = n

\* A VM kiac did not lose is on record, or with the client that just started it.
Tracked(n) == \A p \in VMsOf(n) \ lost : Named(n, p) \/ InHand(n)

\* What a client in the middle of an operation knows of its node's VM.
Knows(c) ==
  /\ pc[c] \in {"net", "dir"} => store[arg[c]] = None
  /\ pc[c] = "start" => st[c] = store[arg[c]] /\ (op[c] = "create" => st[c].pid = 0)
  /\ pc[c] \in {"prep", "clean", "rmdir"} => VMsOf(arg[c]) \subseteq lost
  /\ pc[c] \in {"spawned", "recorded"} =>
       /\ st[c].pid # 0 /\ st[c].start # 0
       /\ VMsOf(arg[c]) \ lost \subseteq {st[c].pid}
       /\ procs[st[c].pid] # None => processOwned(arg[c], st[c])
  /\ pc[c] = "stopping" =>
       \A p \in VMsOf(arg[c]) \ lost : p = st[c].pid /\ processOwned(arg[c], st[c])

LostAreStrays == \A p \in lost : procs[p] # None /\ procs[p].node \in strays

TrackInv ==
  /\ LostAreStrays
  /\ \A n \in Nodes : Tracked(n)
  /\ \A c \in Clients : Knows(c)

LEMMA OwnedFacts ==
  ASSUME TypeOK, NEW n \in Nodes, NEW s \in KrunkitNodeState, Own(n, s), processOwned(n, s)
  PROVE  s.pid \in Pids /\ procs[s.pid] # None /\ procs[s.pid].node = n /\ s.pid \in VMsOf(n)
  <1>1. s.pid \in Pids
    BY Zenon DEF processOwned, KrunkitNodeState
  <1> QED
    BY Zenon, <1>1 DEF processOwned, Own, VMsOf

\* Adopting a VM changes neither which process is named nor whose it is.
LEMMA AdoptedOwn ==
  ASSUME TypeOK, Identified, NEW n \in Nodes, NEW s \in KrunkitNodeState, Own(n, s)
  PROVE  /\ Own(n, adopted(n, s))
         /\ processOwned(n, s) => processOwned(n, adopted(n, s))
  <1>1. CASE s.pid # 0 /\ s.start = 0 /\ processOwned(n, s)
    <2>1. s.pid \in Pids /\ procs[s.pid] # None /\ procs[s.pid].node = n
      BY Zenon, <1>1, OwnedFacts
    <2> DEFINE t == [s EXCEPT !.start = procs[s.pid].start, !.hash = procs[s.pid].node]
    <2>2. t.pid = s.pid /\ t.start = procs[s.pid].start /\ t.hash = n
      BY Zenon, <2>1 DEF KrunkitNodeState
    <2>3. adopted(n, s) = t
      BY Zenon, <1>1 DEF adopted
    <2> HIDE DEF t
    <2> QED
      BY Zenon, <1>1, <2>1, <2>2, <2>3 DEF Own, processOwned
  <1>2. CASE ~(s.pid # 0 /\ s.start = 0 /\ processOwned(n, s))
    BY Zenon, <1>2 DEF adopted
  <1> QED
    BY Zenon, <1>1, <1>2

\* Of a state, processOwned reads only what names the process.
LEMMA SameName ==
  ASSUME NEW n, NEW s, NEW t, t.pid = s.pid, t.start = s.start, t.hash = s.hash
  PROVE  /\ processOwned(n, s) <=> processOwned(n, t)
         /\ Own(n, s) <=> Own(n, t)
  BY Zenon DEF processOwned, Own

LEMMA ClearedNames ==
  ASSUME NEW s \in KrunkitNodeState
  PROVE  /\ cleared(s).start = 0 /\ cleared(s).pid = 0 /\ cleared(s).guest = s.guest
         /\ [cleared(s) EXCEPT !.ip = 0].start = 0
         /\ [cleared(s) EXCEPT !.ip = 0].pid = 0
         /\ [cleared(s) EXCEPT !.ip = 0].guest = s.guest
  <1>1. /\ anonymous(s) \in KrunkitNodeState /\ anonymous(s).start = 0 /\ anonymous(s).pid = 0
        /\ anonymous(s).guest = s.guest
    BY Zenon, Zeros DEF anonymous, KrunkitNodeState
  <1>2. /\ cleared(s) \in KrunkitNodeState /\ cleared(s).start = 0 /\ cleared(s).pid = 0
        /\ cleared(s).guest = s.guest
    BY Zenon, <1>1 DEF cleared, KrunkitNodeState
  <1> QED
    BY Zenon, <1>2 DEF KrunkitNodeState

\* Reconciling keeps the name of an owned process and the kind of VM.
LEMMA ReconciledNames ==
  ASSUME TypeOK, Identified, NEW n \in Nodes, store[n] # None, NEW owned \in BOOLEAN,
         NEW ip \in BootIDs
  PROVE  LET r == Reconciled(n, owned, ip)
         IN /\ Own(n, r) /\ r.guest = store[n].guest
            /\ owned => r.pid = store[n].pid
            /\ owned /\ processOwned(n, store[n]) => processOwned(n, r)
  <1> DEFINE s == IF owned THEN adopted(n, store[n]) ELSE store[n]
             r == Reconciled(n, owned, ip)
             t == [s EXCEPT !.status = "running", !.ip = ip]
  <1>1. store[n] \in KrunkitNodeState /\ Own(n, store[n])
    BY Zenon DEF TypeOK, Identified, StoresOwn
  <1>2. /\ s \in KrunkitNodeState /\ s.pid = store[n].pid /\ s.guest = store[n].guest /\ Own(n, s)
        /\ processOwned(n, store[n]) => processOwned(n, s)
    BY Zenon, <1>1, AdoptedType, AdoptedOwn
  <1>3. t.pid = s.pid /\ t.start = s.start /\ t.hash = s.hash /\ t.guest = s.guest
    <2> HIDE DEF s
    <2> QED
      BY Zenon, <1>2 DEF KrunkitNodeState
  <1>4. Own(n, t) /\ (processOwned(n, store[n]) => processOwned(n, t))
    <2> HIDE DEF s, t
    <2> QED
      BY Zenon, <1>2, <1>3, SameName
  <1>5. r = store[n] \/ (owned /\ r = t) \/ (~owned /\ r = [cleared(s) EXCEPT !.ip = 0])
    BY Zenon DEF Reconciled
  <1>6. /\ [cleared(s) EXCEPT !.ip = 0].start = 0
        /\ [cleared(s) EXCEPT !.ip = 0].guest = store[n].guest
    <2> HIDE DEF s
    <2> QED
      BY Zenon, <1>2, ClearedNames
  <1> HIDE DEF s, r, t
  <1>7. Own(n, [cleared(s) EXCEPT !.ip = 0])
    BY Zenon, <1>6 DEF Own
  <1>8. Own(n, r) /\ r.guest = store[n].guest
    BY Zenon, <1>1, <1>2, <1>3, <1>4, <1>5, <1>6, <1>7
  <1>9. owned => r.pid = store[n].pid /\ (processOwned(n, store[n]) => processOwned(n, r))
    BY Zenon, <1>2, <1>3, <1>4, <1>5
  <1> QED
    BY Zenon, <1>8, <1>9 DEF r

\* What List does to the store, the processes it misses and the clients.
LEMMA ListEffect ==
  ASSUME TypeOK, Identified, NEW c \in Clients, List(c)
  PROVE  /\ \A n \in Nodes :
              /\ store'[n] = None <=> store[n] = None
              /\ store[n] # None => Own(n, store'[n]) /\ store'[n].guest = store[n].guest
              /\ store[n] # None /\ processOwned(n, store[n]) =>
                   \/ /\ store'[n].pid = store[n].pid
                      /\ processOwned(n, store'[n])
                   \/ store[n].pid \in lost' /\ n \in strays'
         /\ lost \subseteq lost' /\ strays \subseteq strays'
         /\ \A p \in lost' : p \in lost \/ (procs[p] # None /\ procs[p].node \in strays')
         /\ lock = None
         /\ UNCHANGED <<lock, pc, op, arg, st, addr, generation, report, procs, clock, boots>>
  <1> DEFINE listed == {n \in dirs : \A m \in dirs : m <= n => store[m] # None}
  <1>1. PICK owned \in [listed -> BOOLEAN], ip \in [listed -> BootIDs] :
          /\ store' = [n \in Nodes |-> IF n \in listed THEN Reconciled(n, owned[n], ip[n])
                                       ELSE store[n]]
          /\ LET missed == {n \in listed : processOwned(n, store[n]) /\ ~owned[n]}
             IN /\ lost' = lost \cup {store[n].pid : n \in missed}
                /\ strays' = strays \cup missed
    BY ZenonT(30) DEF List
  <1> DEFINE missed == {n \in listed : processOwned(n, store[n]) /\ ~owned[n]}
  <1>2. \A n \in listed : n \in Nodes /\ store[n] # None /\ store[n] \in KrunkitNodeState
    <2>1. \A n \in Nodes : n <= n
      BY ConstantsAssumption
    <2> QED
      BY Zenon, <2>1 DEF TypeOK
  <1>3. lost' = lost \cup {store[n].pid : n \in missed} /\ strays' = strays \cup missed
    BY Zenon, <1>1
  <1>4. \A n \in missed : procs[store[n].pid] # None /\ procs[store[n].pid].node = n
    BY Zenon, <1>2, OwnedFacts DEF Identified, StoresOwn
  <1>5. \A p \in lost' : p \in lost \/ (procs[p] # None /\ procs[p].node \in strays')
    <2> HIDE DEF missed
    <2>1. ASSUME NEW n \in missed, NEW p, p = store[n].pid
          PROVE  procs[p] # None /\ procs[p].node \in strays'
      BY Zenon, <1>3, <1>4, <2>1
    <2> QED
      BY Zenon, <1>3, <2>1
  <1>6. ASSUME NEW n \in Nodes
        PROVE  /\ store'[n] = None <=> store[n] = None
               /\ store[n] # None => Own(n, store'[n]) /\ store'[n].guest = store[n].guest
               /\ store[n] # None /\ processOwned(n, store[n]) =>
                    \/ store'[n].pid = store[n].pid /\ processOwned(n, store'[n])
                    \/ store[n].pid \in lost' /\ n \in strays'
    <2>1. CASE n \in listed
      <3> DEFINE r == Reconciled(n, owned[n], ip[n])
      <3>1. store'[n] = r /\ store[n] # None /\ owned[n] \in BOOLEAN /\ ip[n] \in BootIDs
        BY Zenon, <1>1, <1>2, <2>1
      <3>2. r # None
        BY Zenon, <3>1, ReconciledType, NoneAssumption
      <3>3. /\ Own(n, r) /\ r.guest = store[n].guest
            /\ owned[n] => r.pid = store[n].pid
            /\ owned[n] /\ processOwned(n, store[n]) => processOwned(n, r)
        BY Zenon, <3>1, ReconciledNames
      <3>4. ~owned[n] /\ processOwned(n, store[n]) => n \in missed
        BY Zenon, <2>1
      <3> HIDE DEF r, missed, listed
      <3> QED
        BY Zenon, <1>3, <3>1, <3>2, <3>3, <3>4
    <2>2. CASE n \notin listed
      <3>1. store'[n] = store[n]
        BY Zenon, <1>1, <2>2
      <3> QED
        BY Zenon, <3>1 DEF Identified, StoresOwn
    <2> QED
      BY Zenon, <2>1, <2>2
  <1>7. /\ lock = None
        /\ UNCHANGED <<lock, pc, op, arg, st, addr, generation, report, procs, clock, boots>>
    BY ZenonT(30) DEF List, Atomically
  <1> HIDE DEF missed
  <1> QED
    BY Zenon, <1>3, <1>5, <1>6, <1>7

LEMMA ReturnOwn ==
  ASSUME TypeOK, ClientsOwn, NEW c \in Clients, Return(c)
  PROVE  ClientsOwn'
  <1>1. /\ pc'[c] = "idle" /\ st'[c].start = 0
        /\ \A d \in Clients \ {c} : pc'[d] = pc[d] /\ arg'[d] = arg[d] /\ st'[d] = st[d]
    BY Zenon DEF Return, Goto, NoNodeState, TypeOK
  <1> QED
    BY Zenon, <1>1 DEF ClientsOwn, Own

LEMMA GotoOwn ==
  ASSUME TypeOK, ClientsOwn, NEW c \in Clients, NEW l, l # "idle", Goto(c, l),
         Own(arg'[c], st'[c]),
         \A d \in Clients \ {c} : arg'[d] = arg[d] /\ st'[d] = st[d]
  PROVE  ClientsOwn'
  <1>1. pc'[c] = l /\ \A d \in Clients \ {c} : pc'[d] = pc[d]
    BY Zenon DEF Goto, TypeOK
  <1> QED
    BY Zenon, <1>1 DEF ClientsOwn

LEMMA StoreOwn ==
  ASSUME TypeOK, StoresOwn, NEW n \in Nodes, NEW s, Own(n, s), store' = [store EXCEPT ![n] = s]
  PROVE  StoresOwn'
  BY Zenon DEF StoresOwn, TypeOK

LEMMA InitIdentified == Init => Identified
  <1> SUFFICES ASSUME Init PROVE Identified
    BY Zenon
  <1>1. PICK pid \in [Legacy -> Pids], o \in [NetIDs -> Octets \cup {None}] :
          /\ store = [n \in Nodes |-> IF n \in Legacy THEN LegacyState(pid[n], o[NetOf[n]]) ELSE None]
          /\ procs = [p \in Pids |-> IF \E n \in Legacy : pid[n] = p
                        THEN [node |-> CHOOSE n \in Legacy : pid[n] = p, start |-> 1, boot |-> 1]
                        ELSE None]
    BY DEF Init
  <1>2. StoresOwn
    BY Zenon, <1>1 DEF StoresOwn, LegacyState, Own
  <1>3. Timed
    <2>1. \A p \in Pids : procs[p] # None => procs[p].start = 1
      BY Zenon, <1>1
    <2>2. clock = 1 /\ 1 # 0
      BY DEF Init
    <2> QED
      BY Zenon, <2>1, <2>2 DEF Timed
  <1>4. ClientsOwn
    BY Zenon DEF Init, ClientsOwn, Own, NoNodeState
  <1> QED
    BY Zenon, <1>2, <1>3, <1>4 DEF Identified

\* The steps that leave the process table and the clock alone.
LEMMA StillHost ==
  ASSUME Next,
         ~\E c \in Clients : Spawn(c) \/ TerminateStarted(c) \/ SignalProcess(c),
         ~\E p \in Pids : ProcessExit(p) \/ OtherProcess(p),
         ~Tick, ~Reboot
  PROVE  UNCHANGED <<procs, clock>>
  <1>1. ASSUME NEW c \in Clients, NEW n \in Nodes, NEW o \in {"stop", "remove"},
               \/ RunDetached(c, n) \/ Start(c, n) \/ Exec(c, n)
               \/ StopNotRunning(c, o, n) \/ StopRunning(c, o, n)
        PROVE  UNCHANGED <<procs, clock>>
    BY Zenon, <1>1 DEF RunDetached, Start, Exec, StopNotRunning, StopRunning, host
  <1>2. ASSUME NEW c \in Clients,
               \/ MakeNodeDir(c) \/ WriteNewState(c) \/ AlreadyRunning(c) \/ PrepareBoot(c)
               \/ RecordProcess(c) \/ Started(c) \/ FailEarly(c) \/ CleanNodeDir(c)
               \/ RemoveStoppedDir(c) \/ removeUnusedNetwork(c)
        PROVE  UNCHANGED <<procs, clock>>
    BY Zenon, <1>2
       DEF MakeNodeDir, WriteNewState, AlreadyRunning, PrepareBoot, RecordProcess, Started,
           FailEarly, CleanNodeDir, RemoveStoppedDir, RemoveNodeDir, removeUnusedNetwork, host
  <1>3. ASSUME NEW c \in Clients,
               \/ StopFinished(c) \/ StopStuck(c) \/ StopReturns(c) \/ ResolveAddress(c)
               \/ SaveAddress(c) \/ ExecFails(c) \/ KillClient(c)
        PROVE  UNCHANGED <<procs, clock>>
    BY Zenon, <1>3
       DEF StopFinished, StopStuck, StopReturns, ResolveAddress, SaveAddress, ExecFails,
           KillClient, host
  <1>4. ASSUME NEW c \in Clients, List(c) PROVE UNCHANGED <<procs, clock>>
    BY Zenon, <1>4 DEF List
  <1>5. ASSUME NEW p \in Pids, GuestReport(p) PROVE UNCHANGED <<procs, clock>>
    BY Zenon, <1>5 DEF GuestReport, host
  <1> QED
    BY ZenonT(30), StepCases, <1>1, <1>2, <1>3, <1>4, <1>5

LEMMA TimedStep ==
  ASSUME TypeOK, Timed, [Next]_vars
  PROVE  Timed'
  <1> DEFINE Later == clock' = clock \/ clock' = clock + 1
             Fresh == \A p \in Pids : procs'[p] \in {None, procs[p]} \/ procs'[p].start = clock
  <1>1. Later /\ Fresh
    <2>1. CASE UNCHANGED <<procs, clock>>
      BY Zenon, <2>1
    <2>2. ASSUME NEW c \in Clients, Spawn(c) PROVE Later /\ Fresh
      <3>1. PICK p \in Pids :
              procs' = [procs EXCEPT ![p] = [node |-> arg[c], start |-> clock, boot |-> boots]]
        BY ZenonT(30), <2>2 DEF Spawn
      <3>2. UNCHANGED clock
        BY Zenon, <2>2 DEF Spawn
      <3> QED
        BY Zenon, <3>1, <3>2 DEF TypeOK
    <2>3. ASSUME NEW c \in Clients, TerminateStarted(c) \/ SignalProcess(c) PROVE Later /\ Fresh
      BY Zenon, <2>3 DEF TerminateStarted, SignalProcess, TypeOK
    <2>4. ASSUME NEW p \in Pids, ProcessExit(p) \/ OtherProcess(p) PROVE Later /\ Fresh
      <3>1. /\ UNCHANGED clock
            /\ \/ procs' = [procs EXCEPT ![p] = None]
               \/ procs' = [procs EXCEPT ![p] = [node |-> 0, start |-> clock, boot |-> 0]]
        BY Zenon, <2>4 DEF ProcessExit, OtherProcess
      <3>2. CASE procs' = [procs EXCEPT ![p] = None]
        BY Zenon, <3>1, <3>2 DEF TypeOK
      <3>3. CASE procs' = [procs EXCEPT ![p] = [node |-> 0, start |-> clock, boot |-> 0]]
        BY Zenon, <3>1, <3>3 DEF TypeOK
      <3> QED
        BY Zenon, <3>1, <3>2, <3>3
    <2>5. ASSUME Tick \/ Reboot PROVE Later /\ Fresh
      BY Zenon, <2>5 DEF Tick, Reboot
    <2>6. CASE UNCHANGED vars
      BY Zenon, <2>1, <2>6 DEF vars, host
    <2> QED
      BY Zenon, <2>1, <2>2, <2>3, <2>4, <2>5, <2>6, StillHost
  <1>2. clock' # 0
    <2>1. clock \in Nat /\ clock # 0
      BY ConstantsAssumption DEF Timed, TypeOK, Seconds
    <2> QED
      BY <1>1, <2>1
  <1> QED
    BY Zenon, <1>1, <1>2 DEF Timed

LEMMA IdentifiedStep ==
  ASSUME TypeOK, LockHeld, NetworkInHand, Identified, [Next]_vars
  PROVE  Identified'
  <1>0. Timed'
    BY Zenon, TimedStep DEF Identified
  <1> DEFINE Goal == StoresOwn' /\ ClientsOwn'
  <1> USE DEF Identified
  <1>a. ASSUME UNCHANGED store PROVE StoresOwn'
    BY Zenon, <1>a DEF StoresOwn
  <1>b. ASSUME UNCHANGED <<pc, arg, st>> PROVE ClientsOwn'
    BY Zenon, <1>b DEF ClientsOwn
  <1>c. ASSUME NEW c \in Clients, NEW l, l # "idle", Goto(c, l), UNCHANGED <<arg, st>>
        PROVE  ClientsOwn'
    <2>1. Own(arg'[c], st'[c])
      BY Zenon, <1>c DEF ClientsOwn
    <2> QED
      BY Zenon, <1>c, <2>1, GotoOwn
  <1>1. ASSUME UNCHANGED vars PROVE Goal
    <2>1. UNCHANGED store /\ UNCHANGED <<pc, arg, st>>
      BY Zenon, <1>1 DEF vars, client, disk
    <2> QED
      BY Zenon, <2>1 DEF StoresOwn, ClientsOwn
  <1>2. ASSUME NEW c \in Clients, NEW n \in Nodes, RunDetached(c, n) PROVE Goal
    <2>1. /\ UNCHANGED <<store, st>> /\ Goto(c, "net") /\ arg' = [arg EXCEPT ![c] = n]
          /\ pc[c] = "idle"
      BY Zenon, <1>2 DEF RunDetached, Acquire, At
    <2>2. Own(arg'[c], st'[c]) /\ \A d \in Clients \ {c} : arg'[d] = arg[d] /\ st'[d] = st[d]
      BY Zenon, <2>1 DEF ClientsOwn, Own, TypeOK
    <2> QED
      BY Zenon, <1>a, <2>1, <2>2, GotoOwn
  \* A client that takes up a state of node n.
  <1>d. ASSUME NEW c \in Clients, NEW n \in Nodes, NEW s, Own(n, s), NEW l, l # "idle", Goto(c, l),
               arg' = [arg EXCEPT ![c] = n], st' = [st EXCEPT ![c] = s]
        PROVE  ClientsOwn'
    <2>1. Own(arg'[c], st'[c]) /\ \A d \in Clients \ {c} : arg'[d] = arg[d] /\ st'[d] = st[d]
      BY Zenon, <1>d DEF TypeOK
    <2> QED
      BY Zenon, <1>d, <2>1, GotoOwn
  <1>3. ASSUME NEW c \in Clients, NEW n \in Nodes, Start(c, n) PROVE Goal
    <2>1. /\ UNCHANGED store /\ Goto(c, "start") /\ arg' = [arg EXCEPT ![c] = n]
          /\ st' = [st EXCEPT ![c] = store[n]] /\ store[n] # None
      BY Zenon, <1>3 DEF Start, Acquire, Owns, disk
    <2>2. Own(n, store[n])
      BY Zenon, <2>1 DEF StoresOwn
    <2> QED
      BY Zenon, <1>a, <1>d, <2>1, <2>2
  <1>4. ASSUME NEW c \in Clients, NEW n \in Nodes, NEW o \in {"stop", "remove"},
               Exec(c, n) \/ StopRunning(c, o, n)
        PROVE Goal
    <2>1. /\ UNCHANGED store
          /\ Goto(c, "addr") \/ Goto(c, "stopping")
          /\ arg' = [arg EXCEPT ![c] = n] /\ st' = [st EXCEPT ![c] = adopted(n, store[n])]
          /\ store[n] # None
      BY Zenon, <1>4 DEF Exec, StopRunning, Acquire, Owns, disk
    <2>2. Own(n, adopted(n, store[n]))
      BY Zenon, <2>1, AdoptedOwn DEF StoresOwn, TypeOK
    <2> QED
      BY Zenon, <1>a, <1>d, <2>1, <2>2
  <1>5. ASSUME NEW c \in Clients, NEW n \in Nodes, NEW o \in {"stop", "remove"},
               StopNotRunning(c, o, n)
        PROVE Goal
    <2>1. /\ Goto(c, "rmdir") \/ Goto(c, "signalled")
          /\ arg' = [arg EXCEPT ![c] = n] /\ st' = [st EXCEPT ![c] = cleared(store[n])]
          /\ store' = [store EXCEPT ![n] = cleared(store[n])]
          /\ store[n] # None
      BY Zenon, <1>5 DEF StopNotRunning, Acquire, Owns
    <2>2. Own(n, cleared(store[n]))
      BY Zenon, <2>1, ClearedNames DEF Own, TypeOK
    <2> QED
      BY Zenon, <1>d, <2>1, <2>2, StoreOwn
  <1>6. ASSUME NEW c \in Clients, List(c) PROVE Goal
    BY Zenon, <1>6, <1>b, ListEffect DEF StoresOwn
  <1>7. ASSUME NEW c \in Clients, MakeNodeDir(c) PROVE Goal
    BY Zenon, <1>7, <1>a, <1>c DEF MakeNodeDir
  <1>e. ASSUME NEW c \in Clients PROVE arg[c] \in Nodes /\ st[c] \in KrunkitNodeState /\ Own(arg[c], st[c])
    BY Zenon, <1>e DEF TypeOK, ClientsOwn
  <1>f. ASSUME NEW c \in Clients, NEW s, Own(arg[c], s), NEW l, l # "idle", Goto(c, l),
               UNCHANGED arg, st' = [st EXCEPT ![c] = s]
        PROVE  ClientsOwn'
    <2>1. Own(arg'[c], st'[c]) /\ \A d \in Clients \ {c} : arg'[d] = arg[d] /\ st'[d] = st[d]
      BY Zenon, <1>f DEF TypeOK
    <2> QED
      BY Zenon, <1>f, <2>1, GotoOwn
  <1>8. ASSUME NEW c \in Clients, WriteNewState(c) PROVE Goal
    <2> DEFINE s == [NoNodeState EXCEPT !.octet = netfile[NetOf[arg[c]]]]
    <2>1. /\ st' = [st EXCEPT ![c] = s] /\ store' = [store EXCEPT ![arg[c]] = s]
          /\ UNCHANGED arg /\ Goto(c, "start")
      BY Zenon, <1>8 DEF WriteNewState
    <2>2. Own(arg[c], s)
      BY Zenon DEF NoNodeState, Own
    <2> HIDE DEF s
    <2> QED
      BY Zenon, <1>e, <1>f, <2>1, <2>2, StoreOwn
  <1>9. ASSUME NEW c \in Clients, AlreadyRunning(c) PROVE Goal
    <2> DEFINE t == adopted(arg[c], st[c])
               s == [t EXCEPT !.status = "running"]
    <2>1. Own(arg[c], t) /\ t \in KrunkitNodeState
      BY Zenon, <1>e, AdoptedOwn, AdoptedType
    <2>2. Own(arg[c], s)
      <3> HIDE DEF t
      <3>1. s.pid = t.pid /\ s.start = t.start /\ s.hash = t.hash
        BY Zenon, <2>1 DEF KrunkitNodeState
      <3> QED
        BY Zenon, <2>1, <3>1, SameName
    <2>3. store' = [store EXCEPT ![arg[c]] = s] /\ Return(c)
      BY Zenon, <1>9 DEF AlreadyRunning, Release
    <2> HIDE DEF s
    <2> QED
      BY Zenon, <1>e, <2>2, <2>3, StoreOwn, ReturnOwn
  <1>10. ASSUME NEW c \in Clients, PrepareBoot(c) PROVE Goal
    <2> DEFINE s == [st[c] EXCEPT !.gen = boots + 1, !.ip = 0]
    <2>1. /\ UNCHANGED <<store, arg>> /\ Goto(c, "prep")
          /\ st' = st \/ st' = [st EXCEPT ![c] = s]
      BY ZenonT(30), <1>10 DEF PrepareBoot, TypeOK
    <2>2. s.pid = st[c].pid /\ s.start = st[c].start /\ s.hash = st[c].hash
      BY Zenon, <1>e DEF KrunkitNodeState
    <2> HIDE DEF s
    <2>3. Own(arg[c], s)
      BY Zenon, <1>e, <2>2, SameName
    <2> QED
      BY Zenon, <1>a, <1>c, <1>f, <2>1, <2>3
  <1>11. ASSUME NEW c \in Clients, Spawn(c) PROVE Goal
    <2>1. PICK p \in Pids :
            st' = [st EXCEPT ![c].pid = p, ![c].start = clock, ![c].hash = arg[c],
                             ![c].ip = 0, ![c].status = "running"]
      BY ZenonT(30), <1>11 DEF Spawn
    <2> DEFINE s == [st[c] EXCEPT !.pid = p, !.start = clock, !.hash = arg[c],
                                  !.ip = 0, !.status = "running"]
    <2>2. Own(arg[c], s)
      BY Zenon, <1>e DEF KrunkitNodeState, Own
    <2>3. st' = [st EXCEPT ![c] = s]
      BY Zenon, <2>1 DEF TypeOK
    <2>4. UNCHANGED <<store, arg>> /\ Goto(c, "spawned")
      BY Zenon, <1>11 DEF Spawn, disk
    <2> HIDE DEF s
    <2> QED
      BY Zenon, <1>a, <1>f, <2>2, <2>3, <2>4
  <1>12. ASSUME NEW c \in Clients, RecordProcess(c) PROVE Goal
    BY Zenon, <1>12, <1>c, <1>e, StoreOwn DEF RecordProcess
  <1>13. ASSUME NEW c \in Clients,
                \/ Started(c) \/ StopStuck(c) \/ StopReturns(c) \/ removeUnusedNetwork(c)
                \/ ExecFails(c) \/ KillClient(c)
         PROVE  Goal
    BY Zenon, <1>13, <1>a, ReturnOwn
       DEF Started, StopStuck, StopReturns, removeUnusedNetwork, ExecFails, KillClient, Release, disk
  <1>g. ASSUME NEW c \in Clients, AfterFailure(c) PROVE ClientsOwn'
    BY Zenon, <1>g, <1>c, ReturnOwn DEF AfterFailure, Release
  <1>14. ASSUME NEW c \in Clients, TerminateStarted(c) PROVE Goal
    BY Zenon, <1>14, <1>a, <1>g DEF TerminateStarted, disk
  <1>15. ASSUME NEW c \in Clients, FailEarly(c) PROVE Goal
    BY Zenon, <1>15, <1>a, <1>c, <1>g DEF FailEarly, disk
  <1>16. ASSUME NEW c \in Clients, CleanNodeDir(c) \/ RemoveStoppedDir(c) PROVE Goal
    <2>1. /\ store' = store \/ store' = [store EXCEPT ![arg[c]] = None]
          /\ Goto(c, "forget") /\ UNCHANGED <<arg, st>>
      BY Zenon, <1>16 DEF CleanNodeDir, RemoveStoppedDir, RemoveNodeDir
    <2>2. StoresOwn'
      BY Zenon, <2>1 DEF StoresOwn, TypeOK
    <2> QED
      BY Zenon, <1>c, <2>1, <2>2
  <1>17. ASSUME NEW c \in Clients, SignalProcess(c) PROVE Goal
    BY Zenon, <1>17, <1>a, <1>b DEF SignalProcess, client, disk
  <1>18. ASSUME NEW c \in Clients, StopFinished(c) PROVE Goal
    <2> DEFINE s == [cleared(st[c]) EXCEPT !.ip = 0]
    <2>1. Own(arg[c], s)
      BY Zenon, <1>e, ClearedNames DEF Own
    <2>2. /\ store' = [store EXCEPT ![arg[c]] = s] /\ UNCHANGED <<arg, st>>
          /\ Goto(c, "rmdir") \/ Goto(c, "signalled")
      BY Zenon, <1>18 DEF StopFinished
    <2> HIDE DEF s
    <2> QED
      BY Zenon, <1>c, <1>e, <2>1, <2>2, StoreOwn
  <1>19. ASSUME NEW c \in Clients, ResolveAddress(c) PROVE Goal
    BY Zenon, <1>19, <1>a, <1>c, ReturnOwn DEF ResolveAddress, disk
  <1>20. ASSUME NEW c \in Clients, SaveAddress(c) PROVE Goal
    <2>1. CASE UNCHANGED store
      BY Zenon, <1>20, <1>a, <2>1, ReturnOwn DEF SaveAddress
    <2>2. CASE store[arg[c]] # None /\ store' = [store EXCEPT ![arg[c]].ip = addr[c]]
      <3> DEFINE s == [store[arg[c]] EXCEPT !.ip = addr[c]]
      <3>1. store[arg[c]] \in KrunkitNodeState /\ Own(arg[c], store[arg[c]])
        BY Zenon, <1>e, <2>2 DEF TypeOK, StoresOwn
      <3>2. Own(arg[c], s)
        BY Zenon, <3>1 DEF KrunkitNodeState, Own
      <3>3. store' = [store EXCEPT ![arg[c]] = s]
        BY Zenon, <2>2
      <3> HIDE DEF s
      <3> QED
        BY Zenon, <1>e, <1>20, <3>2, <3>3, StoreOwn, ReturnOwn DEF SaveAddress
    <2> QED
      BY Zenon, <1>20, <2>1, <2>2 DEF SaveAddress
  <1>21. ASSUME NEW p \in Pids, ProcessExit(p) \/ OtherProcess(p) \/ GuestReport(p) PROVE Goal
    BY Zenon, <1>21, <1>a, <1>b DEF ProcessExit, OtherProcess, GuestReport, client, disk
  <1>22. ASSUME Tick PROVE Goal
    BY Zenon, <1>22, <1>a, <1>b DEF Tick, client, disk
  <1>23. ASSUME Reboot PROVE Goal
    BY Zenon, <1>23, <1>a DEF Reboot, ClientsOwn, Own, NoNodeState, disk
  <1>24. Goal
    BY ZenonT(30), StepCases, <1>1, <1>2, <1>3, <1>4, <1>5, <1>6, <1>7, <1>8, <1>9, <1>10, <1>11,
       <1>12, <1>13, <1>14, <1>15, <1>16, <1>17, <1>18, <1>19, <1>20, <1>21, <1>22, <1>23
  <1> QED
    BY Zenon, <1>0, <1>24

\* A step of the client that holds the lock, about node n, leaves the VMs and the
\* records of the other nodes alone.
LEMMA LockedStep ==
  ASSUME TypeOK, TypeOK', TrackInv, NEW c \in Clients, NEW n \in Nodes,
         \A d \in Clients \ {c} : pc[d] \notin Locked /\ pc'[d] = pc[d],
         pc[c] = "spawned" => arg[c] = n,
         \A p \in Pids :
           \/ procs'[p] = procs[p] /\ (p \in lost' <=> p \in lost)
           \/ procs'[p] = None
           \/ procs'[p].node = n,
         \A m \in Nodes \ {n} : store'[m] = store[m],
         LostAreStrays', Tracked(n)', Knows(c)'
  PROVE  TrackInv'
  <1>1. ASSUME NEW d \in Clients PROVE Knows(d)'
    <2>1. CASE d = c
      BY Zenon, <2>1
    <2>2. CASE d # c
      <3>1. pc'[d] \notin Locked
        BY Zenon, <2>2
      <3> QED
        BY Zenon, <3>1 DEF Knows, Locked
    <2> QED
      BY Zenon, <2>1, <2>2
  <1>2. ASSUME NEW m \in Nodes PROVE Tracked(m)'
    <2>1. CASE m = n
      BY Zenon, <2>1
    <2>2. CASE m # n
      <3>1. ~InHand(m)
        BY Zenon, <2>2 DEF InHand, Locked
      <3>2. ASSUME NEW p \in Pids, p \in VMsOf(m)', p \notin lost' PROVE Named(m, p)'
        <4>1. procs'[p] # None /\ procs'[p].node = m
          BY Zenon, <3>2 DEF VMsOf
        <4>2. procs'[p] = procs[p] /\ p \notin lost
          BY Zenon, <2>2, <3>2, <4>1
        <4>3. Named(m, p)
          BY Zenon, <3>1, <4>1, <4>2 DEF TrackInv, Tracked, VMsOf
        <4>4. store'[m] = store[m]
          BY Zenon, <2>2
        <4> QED
          BY Zenon, <4>2, <4>3, <4>4 DEF Named, processOwned
      <3> QED
        BY Zenon, <3>2 DEF Tracked, VMsOf
    <2> QED
      BY Zenon, <2>1, <2>2
  <1> QED
    BY Zenon, <1>1, <1>2 DEF TrackInv

\* Nothing but the process table changes: processes end, or unrelated ones begin.
LEMMA HostStep ==
  ASSUME TypeOK, TrackInv, UNCHANGED <<pc, op, arg, st, store>>,
         \A p \in Pids :
           \/ procs'[p] = procs[p] /\ (p \in lost' <=> p \in lost)
           \/ procs'[p] = None
           \/ /\ procs'[p].node = 0
              /\ procs[p] = None
              /\ \A c \in Clients : ~(pc[c] \in {"spawned", "recorded"} /\ st[c].pid = p),
         LostAreStrays'
  PROVE  TrackInv'
  <1>1. ASSUME NEW n \in Nodes, NEW p \in Pids, p \in VMsOf(n)'
        PROVE  procs'[p] = procs[p] /\ p \in VMsOf(n) /\ (p \in lost' <=> p \in lost)
    <2>1. procs'[p] # None /\ procs'[p].node = n /\ n # 0
      BY Zenon, <1>1, ConstantsAssumption DEF VMsOf
    <2>2. procs'[p] = procs[p] /\ (p \in lost' <=> p \in lost)
      BY Zenon, <2>1
    <2> QED
      BY Zenon, <2>1, <2>2 DEF VMsOf
  <1>2. ASSUME NEW n \in Nodes PROVE Tracked(n)'
    <2>1. ASSUME NEW p \in Pids, p \in VMsOf(n)', p \notin lost' PROVE Named(n, p)' \/ InHand(n)'
      <3>1. procs'[p] = procs[p]
        BY Zenon, <1>1, <2>1
      <3>2. Named(n, p) \/ InHand(n)
        BY Zenon, <1>1, <2>1 DEF TrackInv, Tracked
      <3> QED
        BY Zenon, <3>1, <3>2 DEF Named, InHand, processOwned
    <2> QED
      BY Zenon, <2>1 DEF Tracked, VMsOf
  <1>3. ASSUME NEW c \in Clients PROVE Knows(c)'
    <2>0. arg[c] \in Nodes /\ st[c] \in KrunkitNodeState /\ Knows(c)
      BY Zenon DEF TypeOK, TrackInv
    <2>1. pc[c] \in {"net", "dir"} => store'[arg[c]] = None
      BY Zenon, <2>0 DEF Knows
    <2>2. pc[c] = "start" => st[c] = store'[arg[c]] /\ (op[c] = "create" => st[c].pid = 0)
      BY Zenon, <2>0 DEF Knows
    <2>3. pc[c] \in {"prep", "clean", "rmdir"} => VMsOf(arg[c])' \subseteq lost'
      <3>1. VMsOf(arg[c])' \subseteq Pids
        BY Zenon DEF VMsOf
      <3> QED
        BY Zenon, <1>1, <2>0, <3>1 DEF Knows
    <2>4. ASSUME pc[c] \in {"spawned", "recorded"}
          PROVE  /\ st[c].pid # 0 /\ st[c].start # 0
                 /\ VMsOf(arg[c])' \ lost' \subseteq {st[c].pid}
                 /\ procs'[st[c].pid] # None => processOwned(arg[c], st[c])'
      <3>0. /\ st[c].pid # 0 /\ st[c].start # 0 /\ VMsOf(arg[c]) \ lost \subseteq {st[c].pid}
            /\ procs[st[c].pid] # None => processOwned(arg[c], st[c])
        BY Zenon, <2>0, <2>4 DEF Knows
      <3>1. VMsOf(arg[c])' \subseteq Pids
        BY Zenon DEF VMsOf
      <3>2. VMsOf(arg[c])' \ lost' \subseteq {st[c].pid}
        BY Zenon, <1>1, <2>0, <3>0, <3>1
      <3>3. st[c].pid \in Pids
        BY Zenon, <2>0, <3>0 DEF KrunkitNodeState
      <3>4. procs'[st[c].pid] \in {None, procs[st[c].pid]}
        BY Zenon, <2>4, <3>3
      <3> QED
        BY Zenon, <3>0, <3>2, <3>4 DEF processOwned
    <2>5. ASSUME pc[c] = "stopping", NEW p \in Pids, p \in VMsOf(arg[c])', p \notin lost'
          PROVE  p = st[c].pid /\ processOwned(arg[c], st[c])'
      <3>1. procs'[p] = procs[p] /\ p \in VMsOf(arg[c]) /\ p \notin lost
        BY Zenon, <1>1, <2>0, <2>5
      <3>2. p = st[c].pid /\ processOwned(arg[c], st[c])
        BY Zenon, <2>0, <2>5, <3>1 DEF Knows
      <3> QED
        BY Zenon, <3>1, <3>2 DEF processOwned
    <2>6. VMsOf(arg[c])' \subseteq Pids
      BY Zenon DEF VMsOf
    <2> QED
      BY Zenon, <2>1, <2>2, <2>3, <2>4, <2>5, <2>6 DEF Knows
  <1> QED
    BY Zenon, <1>2, <1>3 DEF TrackInv

\* A step of a client outside the lock that changes neither records nor processes.
LEMMA FreeStep ==
  ASSUME TypeOK, TrackInv, NEW c \in Clients, pc[c] \notin Locked, pc'[c] \notin Locked,
         \A d \in Clients \ {c} : pc'[d] = pc[d] /\ op'[d] = op[d] /\ arg'[d] = arg[d] /\ st'[d] = st[d],
         UNCHANGED <<store, procs, lost, strays>>
  PROVE  TrackInv'
  <1>1. LostAreStrays'
    BY Zenon DEF TrackInv, LostAreStrays
  <1>2. ASSUME NEW n \in Nodes PROVE Tracked(n)'
    <2>1. ASSUME InHand(n) PROVE InHand(n)'
      <3>1. PICK d \in Clients : pc[d] = "spawned" /\ arg[d] = n
        BY Zenon, <2>1 DEF InHand
      <3>2. d # c
        BY Zenon, <3>1 DEF Locked
      <3>3. pc'[d] = "spawned" /\ arg'[d] = n
        BY Zenon, <3>1, <3>2
      <3> QED
        BY Zenon, <3>3 DEF InHand
    <2>2. VMsOf(n)' = VMsOf(n)
      BY Zenon DEF VMsOf
    <2>3. ASSUME NEW p, Named(n, p) PROVE Named(n, p)'
      BY Zenon, <2>3 DEF Named, processOwned
    <2> QED
      BY Zenon, <2>1, <2>2, <2>3 DEF TrackInv, Tracked
  <1>3. ASSUME NEW d \in Clients PROVE Knows(d)'
    <2>1. CASE d = c
      BY Zenon, <2>1 DEF Knows, Locked
    <2>2. CASE d # c
      <3>1. pc'[d] = pc[d] /\ op'[d] = op[d] /\ arg'[d] = arg[d] /\ st'[d] = st[d] /\ Knows(d)
        BY Zenon, <2>2 DEF TrackInv
      <3>2. VMsOf(arg[d])' = VMsOf(arg[d])
        BY Zenon, <3>1 DEF VMsOf
      <3>3. processOwned(arg[d], st[d])' <=> processOwned(arg[d], st[d])
        BY Zenon, <3>1 DEF processOwned
      <3> QED
        BY Zenon, <3>1, <3>2, <3>3 DEF Knows
    <2> QED
      BY Zenon, <2>1, <2>2
  <1> QED
    BY Zenon, <1>1, <1>2, <1>3 DEF TrackInv

\* Nobody holds the lock: records may change as long as no VM kiac knows of is forgotten.
LEMMA OpenStep ==
  ASSUME TypeOK, TrackInv,
         \A d \in Clients : pc[d] \notin Locked /\ pc'[d] \notin Locked,
         UNCHANGED procs, lost \subseteq lost', LostAreStrays',
         \A n \in Nodes : store[n] # None /\ processOwned(n, store[n]) =>
           \/ /\ store'[n] # None /\ store'[n].pid = store[n].pid
              /\ processOwned(n, store'[n])
           \/ store[n].pid \in lost'
  PROVE  TrackInv'
  <1>1. ASSUME NEW n \in Nodes PROVE Tracked(n)'
    <2>1. VMsOf(n)' = VMsOf(n)
      BY Zenon DEF VMsOf
    <2>2. ~InHand(n)
      BY Zenon DEF InHand, Locked
    <2>3. ASSUME NEW p, p \in VMsOf(n), p \notin lost' PROVE Named(n, p)'
      <3>1. Named(n, p)
        BY Zenon, <2>2, <2>3 DEF TrackInv, Tracked
      <3>2. store'[n] # None /\ store'[n].pid = p /\ processOwned(n, store'[n])
        BY Zenon, <2>3, <3>1 DEF Named
      <3> QED
        BY Zenon, <3>2 DEF Named, processOwned
    <2> QED
      BY Zenon, <2>1, <2>3 DEF Tracked
  <1>2. ASSUME NEW d \in Clients PROVE Knows(d)'
    BY Zenon, <1>2 DEF Knows, Locked
  <1> QED
    BY Zenon, <1>1, <1>2 DEF TrackInv

\* A client gives up its node's VM, if ps says it is not there: the VM is lost.
LEMMA LoseEffect ==
  ASSUME TypeOK, LostAreStrays, NEW n \in Nodes, NEW s \in KrunkitNodeState, Own(n, s),
         LoseIfOwned(n, s), UNCHANGED procs,
         \A p \in VMsOf(n) \ lost : p = s.pid /\ processOwned(n, s)
  PROVE  /\ VMsOf(n)' \subseteq lost' /\ LostAreStrays'
         /\ \A p \in Pids : \/ procs'[p] = procs[p] /\ (p \in lost' <=> p \in lost)
                            \/ procs'[p].node = n
  <1>0. VMsOf(n)' = VMsOf(n)
    BY Zenon DEF VMsOf
  <1>1. CASE processOwned(n, s)
    <2>1. lost' = lost \cup {s.pid} /\ strays' = strays \cup {n}
      BY Zenon, <1>1 DEF LoseIfOwned, Lose
    <2>2. procs[s.pid] # None /\ procs[s.pid].node = n
      BY Zenon, <1>1, OwnedFacts
    <2>3. LostAreStrays'
      BY Zenon, <2>1, <2>2 DEF LostAreStrays
    <2>4. VMsOf(n)' \subseteq lost'
      BY Zenon, <1>0, <2>1
    <2> QED
      BY Zenon, <2>1, <2>2, <2>3, <2>4
  <1>2. CASE ~processOwned(n, s)
    <2>1. UNCHANGED lost /\ UNCHANGED strays
      BY Zenon, <1>2 DEF LoseIfOwned
    <2> QED
      BY Zenon, <1>0, <1>2, <2>1 DEF LostAreStrays
  <1> QED
    BY Zenon, <1>1, <1>2

\* After a step of the lock holder no VM of its node is left but the lost ones.
LEMMA GoneStep ==
  ASSUME TypeOK, TypeOK', TrackInv, NEW c \in Clients, NEW n \in Nodes,
         \A d \in Clients \ {c} : pc[d] \notin Locked /\ pc'[d] = pc[d],
         pc[c] = "spawned" => arg[c] = n,
         \A p \in Pids :
           \/ procs'[p] = procs[p] /\ (p \in lost' <=> p \in lost)
           \/ procs'[p] = None
           \/ procs'[p].node = n,
         \A m \in Nodes \ {n} : store'[m] = store[m],
         LostAreStrays', VMsOf(n)' \subseteq lost',
         \/ pc'[c] \in {"idle", "forget", "signalled"}
         \/ pc'[c] \in {"prep", "clean", "rmdir"} /\ arg'[c] = n
  PROVE  TrackInv'
  <1>1. Tracked(n)'
    BY Zenon DEF Tracked
  <1>2. Knows(c)'
    BY Zenon DEF Knows
  <1> QED
    BY Zenon, <1>1, <1>2, LockedStep

\* The lock holder moves on without touching records or processes.
LEMMA QuietStep ==
  ASSUME TypeOK, TypeOK', TrackInv, NEW c \in Clients,
         \A d \in Clients \ {c} : pc[d] \notin Locked /\ pc'[d] = pc[d],
         pc[c] # "spawned",
         UNCHANGED procs, UNCHANGED lost, UNCHANGED strays, UNCHANGED store, Knows(c)'
  PROVE  TrackInv'
  <1>1. LostAreStrays'
    BY Zenon DEF TrackInv, LostAreStrays
  <1>2. SomeNode \in Nodes /\ Tracked(SomeNode) /\ ~InHand(SomeNode)
    BY Zenon, SomeNodeType DEF TrackInv, InHand, Locked
  <1>3. Tracked(SomeNode)'
    BY Zenon, <1>2 DEF Tracked, VMsOf, Named, processOwned
  <1> QED
    BY Zenon, <1>1, <1>2, <1>3, LockedStep

\* Without a client that just started one, every VM kiac did not lose is on record.
LEMMA OnRecord ==
  ASSUME TrackInv, NEW n \in Nodes, ~InHand(n), NEW p \in VMsOf(n) \ lost
  PROVE  store[n] # None /\ p = store[n].pid /\ processOwned(n, store[n])
  BY Zenon DEF TrackInv, Tracked, Named

LEMMA TrackCalls ==
  ASSUME NetworkInv, TypeOK', Identified, TrackInv, NEW c \in Clients, NEW n \in Nodes,
         NEW o \in {"stop", "remove"},
         \/ RunDetached(c, n) \/ Start(c, n) \/ Exec(c, n)
         \/ StopNotRunning(c, o, n) \/ StopRunning(c, o, n)
  PROVE  TrackInv'
  <1> USE DEF NetworkInv
  <1>a. ASSUME lock = None, pc[c] = "idle", NEW l, Goto(c, l)
        PROVE  /\ pc'[c] = l
               /\ \A d \in Clients \ {c} : pc[d] \notin Locked /\ pc'[d] = pc[d]
               /\ \A m \in Nodes : ~InHand(m)
    BY Zenon, <1>a, Unlocked DEF Goto, InHand, Locked, TypeOK
  <1>1. CASE RunDetached(c, n)
    <2>1. /\ lock = None /\ pc[c] = "idle" /\ Goto(c, "net") /\ arg' = [arg EXCEPT ![c] = n]
          /\ store[n] = None
      BY Zenon, <1>1 DEF RunDetached, Acquire, At, Owns
    <2>2. UNCHANGED procs /\ UNCHANGED lost /\ UNCHANGED strays /\ UNCHANGED store
      BY Zenon, <1>1 DEF RunDetached, host
    <2>3. pc'[c] = "net" /\ arg'[c] = n
      BY Zenon, <1>a, <2>1 DEF TypeOK
    <2>4. Knows(c)'
      BY Zenon, <2>1, <2>2, <2>3 DEF Knows
    <2> QED
      BY Zenon, <1>a, <2>1, <2>2, <2>4, QuietStep
  <1>2. CASE Start(c, n)
    <2>1. /\ lock = None /\ pc[c] = "idle" /\ Goto(c, "start") /\ arg' = [arg EXCEPT ![c] = n]
          /\ op' = [op EXCEPT ![c] = "start"] /\ st' = [st EXCEPT ![c] = store[n]]
      BY Zenon, <1>2 DEF Start, Acquire, At
    <2>2. UNCHANGED procs /\ UNCHANGED lost /\ UNCHANGED strays /\ UNCHANGED store
      BY Zenon, <1>2 DEF Start, disk, host
    <2>3. pc'[c] = "start" /\ arg'[c] = n /\ op'[c] = "start" /\ st'[c] = store[n]
      BY Zenon, <1>a, <2>1 DEF TypeOK
    <2>4. Knows(c)'
      BY Zenon, <2>2, <2>3 DEF Knows
    <2> QED
      BY Zenon, <1>a, <2>1, <2>2, <2>4, QuietStep
  <1>3. CASE Exec(c, n)
    <2>1. /\ pc[c] = "idle" /\ pc' = [pc EXCEPT ![c] = "addr"] /\ arg' = [arg EXCEPT ![c] = n]
          /\ op' = [op EXCEPT ![c] = "exec"] /\ st' = [st EXCEPT ![c] = adopted(n, store[n])]
      BY Zenon, <1>3 DEF Exec, At, Goto
    <2>2. UNCHANGED <<store, procs, lost, strays>>
      BY Zenon, <1>3 DEF Exec, disk, host
    <2>3. /\ pc[c] \notin Locked /\ pc'[c] \notin Locked
          /\ \A d \in Clients \ {c} : pc'[d] = pc[d] /\ op'[d] = op[d] /\ arg'[d] = arg[d] /\ st'[d] = st[d]
      BY Zenon, <2>1 DEF TypeOK, Locked
    <2> QED
      BY Zenon, <2>2, <2>3, FreeStep
  <1>b. ASSUME store[n] # None PROVE store[n] \in KrunkitNodeState /\ Own(n, store[n])
    BY Zenon, <1>b DEF TypeOK, Identified, StoresOwn
  <1>4. CASE StopNotRunning(c, o, n)
    <2>1. /\ lock = None /\ pc[c] = "idle" /\ (Goto(c, "rmdir") \/ Goto(c, "signalled"))
          /\ arg' = [arg EXCEPT ![c] = n] /\ store[n] # None
          /\ store' = [store EXCEPT ![n] = cleared(store[n])]
          /\ LoseIfOwned(n, store[n]) /\ UNCHANGED procs
      BY Zenon, <1>4 DEF StopNotRunning, Acquire, At, Owns
    <2>2. /\ pc'[c] \in {"rmdir", "signalled"} /\ arg'[c] = n
          /\ \A d \in Clients \ {c} : pc[d] \notin Locked /\ pc'[d] = pc[d]
          /\ ~InHand(n)
      BY Zenon, <1>a, <2>1 DEF TypeOK
    <2>3. \A p \in VMsOf(n) \ lost : p = store[n].pid /\ processOwned(n, store[n])
      BY Zenon, <2>2, OnRecord
    <2>4. /\ VMsOf(n)' \subseteq lost' /\ LostAreStrays'
          /\ \A p \in Pids : \/ procs'[p] = procs[p] /\ (p \in lost' <=> p \in lost)
                             \/ procs'[p].node = n
      BY Zenon, <1>b, <2>1, <2>3, LoseEffect DEF TrackInv
    <2>5. \A m \in Nodes \ {n} : store'[m] = store[m]
      BY Zenon, <2>1 DEF TypeOK
    <2> QED
      BY Zenon, <2>1, <2>2, <2>4, <2>5, GoneStep
  <1>5. CASE StopRunning(c, o, n)
    <2>1. /\ lock = None /\ pc[c] = "idle" /\ Goto(c, "stopping") /\ arg' = [arg EXCEPT ![c] = n]
          /\ st' = [st EXCEPT ![c] = adopted(n, store[n])] /\ store[n] # None
      BY Zenon, <1>5 DEF StopRunning, Acquire, At, Owns
    <2>2. UNCHANGED procs /\ UNCHANGED lost /\ UNCHANGED strays /\ UNCHANGED store
      BY Zenon, <1>5 DEF StopRunning, disk, host
    <2>3. pc'[c] = "stopping" /\ arg'[c] = n /\ st'[c] = adopted(n, store[n]) /\ ~InHand(n)
      BY Zenon, <1>a, <2>1 DEF TypeOK
    <2>4. ASSUME NEW p \in VMsOf(n) \ lost
          PROVE  p = adopted(n, store[n]).pid /\ processOwned(n, adopted(n, store[n]))
      <3>1. p = store[n].pid /\ processOwned(n, store[n])
        BY Zenon, <2>3, OnRecord
      <3> QED
        BY Zenon, <1>b, <2>1, <3>1, AdoptedType, AdoptedOwn
    <2>5. Knows(c)'
      <3>1. VMsOf(arg[c])' = VMsOf(n)
        BY Zenon, <2>2, <2>3 DEF VMsOf
      <3>2. processOwned(arg[c], st[c])' <=> processOwned(n, adopted(n, store[n]))
        BY Zenon, <2>2, <2>3 DEF processOwned
      <3> QED
        BY Zenon, <2>2, <2>3, <2>4, <3>1, <3>2 DEF Knows
    <2> QED
      BY Zenon, <1>a, <2>1, <2>2, <2>5, QuietStep
  <1> QED
    BY Zenon, <1>1, <1>2, <1>3, <1>4, <1>5

LEMMA TrackStart ==
  ASSUME NetworkInv, TypeOK', Identified, TrackInv, NEW c \in Clients,
         \/ MakeNodeDir(c) \/ WriteNewState(c) \/ AlreadyRunning(c) \/ PrepareBoot(c)
         \/ Spawn(c) \/ RecordProcess(c) \/ Started(c)
  PROVE  TrackInv'
  <1> USE DEF NetworkInv
  <1>n. PICK n \in Nodes : n = arg[c]
    BY Zenon DEF TypeOK
  <1>0. /\ n \in Nodes /\ st[c] \in KrunkitNodeState /\ Own(n, st[c])
        /\ Knows(c) /\ pc[c] \in Locked /\ LostAreStrays
    BY Zenon, <1>n DEF MakeNodeDir, WriteNewState, AlreadyRunning, PrepareBoot, Spawn, RecordProcess,
                 Started, At, Locked, TypeOK, Identified, ClientsOwn, TrackInv
  <1>a. ASSUME NEW l, Goto(c, l)
        PROVE  /\ pc'[c] = l
               /\ \A d \in Clients \ {c} : pc[d] \notin Locked /\ pc'[d] = pc[d]
    BY Zenon, <1>n, <1>0, <1>a, Alone DEF Goto, TypeOK
  <1>b. ASSUME pc[c] # "spawned" PROVE ~InHand(n)
    BY Zenon, <1>n, <1>0, <1>b, Alone DEF InHand, Locked
  <1>1. CASE MakeNodeDir(c)
    <2>1. /\ pc[c] = "net" /\ Goto(c, "dir") /\ UNCHANGED arg
          /\ UNCHANGED procs /\ UNCHANGED lost /\ UNCHANGED strays /\ UNCHANGED store
      BY Zenon, <1>n, <1>1 DEF MakeNodeDir, At, host
    <2>2. pc'[c] = "dir" /\ store[n] = None
      BY Zenon, <1>n, <1>0, <1>a, <2>1 DEF Knows
    <2>3. Knows(c)'
      BY Zenon, <1>n, <2>1, <2>2 DEF Knows
    <2> QED
      BY Zenon, <1>n, <1>a, <2>1, <2>3, QuietStep
  <1>2. CASE WriteNewState(c)
    <2>0. PICK s : s = [NoNodeState EXCEPT !.octet = netfile[NetOf[arg[c]]]]
      BY Zenon
    <2>1. /\ pc[c] = "dir" /\ Goto(c, "start") /\ UNCHANGED arg
          /\ st' = [st EXCEPT ![c] = s] /\ store' = [store EXCEPT ![n] = s]
          /\ UNCHANGED procs /\ UNCHANGED lost /\ UNCHANGED strays
      BY Zenon, <1>n, <1>2, <2>0 DEF WriteNewState, At, host
    <2>2. s.pid = 0
      BY Zenon, <2>0 DEF NoNodeState
    <2>3. pc'[c] = "start" /\ st'[c] = s /\ store'[n] = s /\ arg'[c] = n
      BY Zenon, <1>n, <1>0, <1>a, <2>1 DEF TypeOK
    <2>4. Knows(c)'
      BY Zenon, <2>2, <2>3 DEF Knows
    <2>5. store[n] = None
      BY Zenon, <1>n, <1>0, <2>1 DEF Knows
    <2>6. VMsOf(n) \subseteq lost
      BY Zenon, <1>n, <1>0, <1>b, <2>1, <2>5, OnRecord
    <2>7. Tracked(n)'
      BY Zenon, <2>1, <2>6 DEF Tracked, VMsOf
    <2>8. LostAreStrays'
      BY Zenon, <1>n, <1>0, <2>1 DEF LostAreStrays
    <2>9. \A m \in Nodes \ {n} : store'[m] = store[m]
      BY Zenon, <2>1 DEF TypeOK
    <2>10. \A p \in Pids : procs'[p] = procs[p] /\ (p \in lost' <=> p \in lost)
      BY Zenon, <2>1
    <2> QED
      BY Zenon, <1>n, <1>0, <1>a, <2>1, <2>4, <2>7, <2>8, <2>9, <2>10, LockedStep
  <1>3. CASE AlreadyRunning(c)
    <2>t. PICK t : t = adopted(n, st[c])
      BY Zenon
    <2>s. PICK s : s = [t EXCEPT !.status = "running"]
      BY Zenon
    <2>1. /\ pc[c] = "start" /\ Goto(c, "idle") /\ processOwned(n, st[c])
          /\ store' = [store EXCEPT ![n] = s]
          /\ UNCHANGED procs /\ UNCHANGED lost /\ UNCHANGED strays
      BY Zenon, <1>n, <1>3, <2>t, <2>s DEF AlreadyRunning, At, Release, Return, host
    <2>2. t \in KrunkitNodeState /\ t.pid = st[c].pid /\ processOwned(n, t)
      BY Zenon, <1>n, <1>0, <2>t, <2>1, AdoptedType, AdoptedOwn
    <2>3. s.pid = st[c].pid /\ processOwned(n, s)
      <3>1. s.pid = t.pid /\ s.start = t.start /\ s.hash = t.hash
        BY Zenon, <2>s, <2>2 DEF KrunkitNodeState
      <3> QED
        BY Zenon, <2>2, <3>1, SameName
    <2>4. s # None
      <3>1. s \in KrunkitNodeState
        BY Zenon, <2>s, <2>2 DEF KrunkitNodeState
      <3> QED
        BY Zenon, <3>1, NoneAssumption
    <2>5. st[c] = store[n]
      BY Zenon, <1>n, <1>0, <2>1 DEF Knows
    <2>6. store'[n] = s /\ \A m \in Nodes \ {n} : store'[m] = store[m]
      BY Zenon, <1>n, <1>0, <2>1 DEF TypeOK
    <2>7. Tracked(n)'
      <3>1. VMsOf(n)' = VMsOf(n)
        BY Zenon, <2>1 DEF VMsOf
      <3>2. ASSUME NEW p \in VMsOf(n) \ lost PROVE Named(n, p)'
        <4>1. p = s.pid
          BY Zenon, <1>n, <1>0, <1>b, <2>1, <2>3, <2>5, OnRecord
        <4> QED
          BY Zenon, <2>1, <2>3, <2>4, <2>6, <4>1 DEF Named, processOwned
      <3> QED
        BY Zenon, <2>1, <3>1, <3>2 DEF Tracked
    <2>8. LostAreStrays'
      BY Zenon, <1>n, <1>0, <2>1 DEF LostAreStrays
    <2>9. Knows(c)'
      <3>1. pc'[c] = "idle"
        BY Zenon, <1>a, <2>1
      <3> QED
        BY Zenon, <3>1 DEF Knows
    <2>10. \A p \in Pids : procs'[p] = procs[p] /\ (p \in lost' <=> p \in lost)
      BY Zenon, <2>1
    <2> QED
      BY Zenon, <1>n, <1>0, <1>a, <2>1, <2>6, <2>7, <2>8, <2>9, <2>10, LockedStep
  <1>4. CASE PrepareBoot(c)
    <2>1. /\ pc[c] = "start" /\ Goto(c, "prep") /\ UNCHANGED arg /\ LoseIfOwned(n, st[c])
          /\ UNCHANGED procs /\ UNCHANGED store
      BY Zenon, <1>n, <1>4 DEF PrepareBoot, At
    <2>2. st[c] = store[n]
      BY Zenon, <1>n, <1>0, <2>1 DEF Knows
    <2>3. \A p \in VMsOf(n) \ lost : p = st[c].pid /\ processOwned(n, st[c])
      BY Zenon, <1>n, <1>0, <1>b, <2>1, <2>2, OnRecord
    <2>4. /\ VMsOf(n)' \subseteq lost' /\ LostAreStrays'
          /\ \A p \in Pids : \/ procs'[p] = procs[p] /\ (p \in lost' <=> p \in lost)
                             \/ procs'[p].node = n
      BY Zenon, <1>n, <1>0, <2>1, <2>3, LoseEffect
    <2>5. pc'[c] = "prep" /\ arg'[c] = n
      BY Zenon, <1>n, <1>a, <2>1
    <2> QED
      BY Zenon, <1>n, <1>0, <1>a, <2>1, <2>4, <2>5, GoneStep
  <1>5. CASE Spawn(c)
    <2>1. PICK p \in Pids :
            /\ procs[p] = None
            /\ procs' = [procs EXCEPT ![p] = [node |-> arg[c], start |-> clock, boot |-> boots]]
            /\ st' = [st EXCEPT ![c].pid = p, ![c].start = clock, ![c].hash = arg[c],
                                ![c].ip = 0, ![c].status = "running"]
      BY ZenonT(30), <1>5 DEF Spawn
    <2>s. PICK s : s = [st[c] EXCEPT !.pid = p, !.start = clock, !.hash = arg[c],
                                     !.ip = 0, !.status = "running"]
      BY Zenon
    <2>2. /\ pc[c] = "prep" /\ Goto(c, "spawned") /\ UNCHANGED arg
          /\ UNCHANGED store /\ UNCHANGED lost /\ UNCHANGED strays
      BY Zenon, <1>5 DEF Spawn, At, disk
    <2>3. s.pid = p /\ s.start = clock /\ s.hash = n
      BY Zenon, <1>n, <1>0, <2>s DEF KrunkitNodeState
    <2>4. st' = [st EXCEPT ![c] = s]
      BY Zenon, <2>1, <2>s DEF TypeOK
    <2>5. st'[c] = s /\ pc'[c] = "spawned" /\ arg'[c] = n
      BY Zenon, <1>n, <1>a, <2>2, <2>4 DEF TypeOK
    <2>6. /\ procs'[p] # None /\ procs'[p].node = n /\ procs'[p].start = clock
          /\ \A q \in Pids \ {p} : procs'[q] = procs[q]
      <3>1. /\ procs'[p] = [node |-> n, start |-> clock, boot |-> boots]
            /\ \A q \in Pids \ {p} : procs'[q] = procs[q]
        BY ZenonT(30), <1>n, <2>1 DEF TypeOK
      <3>2. [node |-> n, start |-> clock, boot |-> boots] \in Process
        BY Zenon, <1>n, <1>0 DEF Process, TypeOK
      <3>3. procs'[p] # None
        BY Zenon, <3>1, <3>2, NoneAssumption
      <3>4. procs'[p].node = n /\ procs'[p].start = clock
        BY <3>1
      <3> QED
        BY Zenon, <3>1, <3>3, <3>4
    <2>7. VMsOf(n) \subseteq lost
      BY Zenon, <1>n, <1>0, <2>2 DEF Knows
    <2>8. VMsOf(n)' \ lost' \subseteq {p}
      BY Zenon, <2>2, <2>6, <2>7 DEF VMsOf
    <2>9. clock # 0 /\ p # 0
      BY Zenon, ConstantsAssumption DEF Identified, Timed
    <2>10. processOwned(n, s)'
      BY Zenon, <2>3, <2>4, <2>5, <2>6, <2>9 DEF processOwned
    <2>11. Knows(c)'
      BY Zenon, <2>3, <2>5, <2>8, <2>9, <2>10 DEF Knows
    <2>12. Tracked(n)'
      BY Zenon, <2>5 DEF Tracked, InHand
    <2>13. LostAreStrays'
      BY Zenon, <1>n, <1>0, <2>1, <2>2, <2>6 DEF LostAreStrays, TypeOK
    <2>14. \A q \in Pids : \/ procs'[q] = procs[q] /\ (q \in lost' <=> q \in lost)
                           \/ procs'[q].node = n
      BY Zenon, <2>2, <2>6
    <2> QED
      BY Zenon, <1>n, <1>0, <1>a, <2>2, <2>11, <2>12, <2>13, <2>14, LockedStep
  <1>6. CASE RecordProcess(c)
    <2>1. /\ pc[c] = "spawned" /\ Goto(c, "recorded") /\ UNCHANGED arg /\ UNCHANGED st
          /\ store' = [store EXCEPT ![n] = st[c]]
          /\ UNCHANGED procs /\ UNCHANGED lost /\ UNCHANGED strays
      BY Zenon, <1>n, <1>6 DEF RecordProcess, At, host
    <2>2. /\ st[c].pid # 0 /\ st[c].start # 0 /\ VMsOf(n) \ lost \subseteq {st[c].pid}
          /\ procs[st[c].pid] # None => processOwned(n, st[c])
      BY Zenon, <1>n, <1>0, <2>1 DEF Knows
    <2>3. pc'[c] = "recorded" /\ arg'[c] = n /\ VMsOf(n)' = VMsOf(n)
      BY Zenon, <1>n, <1>a, <2>1 DEF VMsOf
    <2>4. processOwned(n, st[c])' <=> processOwned(n, st[c])
      BY Zenon, <2>1 DEF processOwned
    <2>5. Knows(c)'
      BY Zenon, <2>1, <2>2, <2>3, <2>4 DEF Knows
    <2>6. store'[n] = st[c] /\ \A m \in Nodes \ {n} : store'[m] = store[m]
      BY Zenon, <1>n, <1>0, <2>1 DEF TypeOK
    <2>7. ASSUME NEW p \in VMsOf(n) \ lost PROVE Named(n, p)'
      <3>1. p = st[c].pid /\ processOwned(n, st[c])
        BY Zenon, <2>2, <2>7 DEF VMsOf
      <3>2. st[c] # None
        BY Zenon, <1>n, <1>0, NoneAssumption
      <3> QED
        BY Zenon, <2>1, <2>6, <3>1, <3>2 DEF Named, processOwned
    <2>8. Tracked(n)'
      BY Zenon, <2>1, <2>3, <2>7 DEF Tracked
    <2>9. LostAreStrays'
      BY Zenon, <1>n, <1>0, <2>1 DEF LostAreStrays
    <2>10. \A p \in Pids : procs'[p] = procs[p] /\ (p \in lost' <=> p \in lost)
      BY Zenon, <2>1
    <2> QED
      BY Zenon, <1>n, <1>0, <1>a, <2>1, <2>5, <2>6, <2>8, <2>9, <2>10, LockedStep
  <1>7. CASE Started(c)
    <2>1. /\ pc[c] = "recorded" /\ Goto(c, "idle")
          /\ UNCHANGED procs /\ UNCHANGED lost /\ UNCHANGED strays /\ UNCHANGED store
      BY Zenon, <1>7 DEF Started, At, Release, Return, disk, host
    <2>2. Knows(c)'
      <3>1. pc'[c] = "idle"
        BY Zenon, <1>a, <2>1
      <3> QED
        BY Zenon, <3>1 DEF Knows
    <2> QED
      BY Zenon, <1>n, <1>a, <2>1, <2>2, QuietStep
  <1> QED
    BY Zenon, <1>1, <1>2, <1>3, <1>4, <1>5, <1>6, <1>7

LEMMA TrackUndo ==
  ASSUME NetworkInv, TypeOK', Identified, TrackInv, NEW c \in Clients,
         \/ TerminateStarted(c) \/ FailEarly(c) \/ CleanNodeDir(c) \/ RemoveStoppedDir(c)
         \/ removeUnusedNetwork(c)
  PROVE  TrackInv'
  <1> USE DEF NetworkInv
  <1>n. PICK n \in Nodes : n = arg[c]
    BY Zenon DEF TypeOK
  <1>0. /\ st[c] \in KrunkitNodeState /\ Own(n, st[c])
        /\ Knows(c) /\ pc[c] \in Locked /\ LostAreStrays
    BY Zenon, <1>n DEF TerminateStarted, FailEarly, CleanNodeDir, RemoveStoppedDir,
                 removeUnusedNetwork, At, Locked, TypeOK, Identified, ClientsOwn, TrackInv
  <1>a. ASSUME NEW l, Goto(c, l)
        PROVE  /\ pc'[c] = l
               /\ \A d \in Clients \ {c} : pc[d] \notin Locked /\ pc'[d] = pc[d]
    BY Zenon, <1>0, <1>a, Alone DEF Goto, TypeOK
  <1>b. ASSUME pc[c] # "spawned" PROVE ~InHand(n)
    BY Zenon, <1>n, <1>0, <1>b, Alone DEF InHand, Locked
  <1>c. ASSUME AfterFailure(c)
        PROVE  /\ pc'[c] = "idle" \/ (pc'[c] = "clean" /\ arg'[c] = n /\ op[c] = "create")
               /\ \A d \in Clients \ {c} : pc[d] \notin Locked /\ pc'[d] = pc[d]
    BY Zenon, <1>n, <1>a, <1>c DEF AfterFailure, Release, Return
  <1>1. CASE TerminateStarted(c)
    <2>p. PICK p : p = st[c].pid
      BY Zenon
    <2>1. /\ pc[c] \in {"spawned", "recorded"} /\ AfterFailure(c) /\ UNCHANGED store
          /\ \/ /\ procs' = IF processOwned(n, st[c]) THEN [procs EXCEPT ![p] = None] ELSE procs
                /\ lost' = lost \ {p}
                /\ UNCHANGED strays
             \/ /\ processOwned(n, st[c])
                /\ Lose(n, p)
                /\ UNCHANGED procs
      BY Zenon, <1>n, <1>1, <2>p DEF TerminateStarted, disk
    <2>2. /\ p # 0 /\ VMsOf(n) \ lost \subseteq {p}
          /\ procs[p] # None => processOwned(n, st[c])
      BY Zenon, <1>n, <1>0, <2>p, <2>1 DEF Knows
    <2>3. p \in Pids
      BY Zenon, <1>0, <2>p, <2>2 DEF KrunkitNodeState
    <2>4. processOwned(n, st[c]) => procs[p] # None /\ procs[p].node = n
      BY Zenon, <1>0, <2>p, OwnedFacts
    <2> DEFINE Gone == /\ LostAreStrays' /\ VMsOf(n)' \subseteq lost'
                       /\ \A q \in Pids : \/ procs'[q] = procs[q] /\ (q \in lost' <=> q \in lost)
                                          \/ procs'[q] = None
                                          \/ procs'[q].node = n
    <2>5. ASSUME processOwned(n, st[c]), procs' = [procs EXCEPT ![p] = None],
                 lost' = lost \ {p}, UNCHANGED strays
          PROVE  Gone
      <3>1. procs'[p] = None /\ \A q \in Pids \ {p} : procs'[q] = procs[q]
        BY Zenon, <2>3, <2>5 DEF TypeOK
      <3>2. LostAreStrays'
        BY Zenon, <1>0, <2>5, <3>1 DEF LostAreStrays, TypeOK
      <3>3. VMsOf(n)' \subseteq lost'
        BY Zenon, <2>2, <2>5, <3>1 DEF VMsOf
      <3> QED
        BY Zenon, <2>5, <3>1, <3>2, <3>3
    <2>6. ASSUME ~processOwned(n, st[c]), UNCHANGED procs, lost' = lost \ {p}, UNCHANGED strays
          PROVE  Gone
      <3>1. procs[p] = None /\ p \notin lost
        BY Zenon, <1>0, <2>2, <2>6 DEF LostAreStrays
      <3>2. lost' = lost
        BY Zenon, <2>6, <3>1
      <3>3. LostAreStrays'
        BY Zenon, <1>0, <2>6, <3>2 DEF LostAreStrays
      <3>4. VMsOf(n)' \subseteq lost'
        BY Zenon, <2>2, <2>6, <3>1, <3>2 DEF VMsOf
      <3> QED
        BY Zenon, <2>6, <3>2, <3>3, <3>4
    <2>7. ASSUME processOwned(n, st[c]), Lose(n, p), UNCHANGED procs PROVE Gone
      <3>1. lost' = lost \cup {p} /\ strays' = strays \cup {n}
        BY Zenon, <2>7 DEF Lose
      <3>2. LostAreStrays'
        BY Zenon, <1>0, <2>4, <2>7, <3>1 DEF LostAreStrays
      <3>3. VMsOf(n)' \subseteq lost'
        BY Zenon, <2>2, <2>7, <3>1 DEF VMsOf
      <3> QED
        BY Zenon, <2>4, <2>7, <3>1, <3>2, <3>3
    <2>8. Gone
      BY Zenon, <2>1, <2>5, <2>6, <2>7
    <2> QED
      BY Zenon, <1>n, <1>c, <2>1, <2>8, GoneStep
  <1>2. CASE FailEarly(c)
    <2>1. /\ pc[c] \in {"net", "dir", "start", "prep"}
          /\ Goto(c, "forget") \/ (pc[c] # "net" /\ AfterFailure(c))
          /\ UNCHANGED procs /\ UNCHANGED lost /\ UNCHANGED strays /\ UNCHANGED store
      BY Zenon, <1>2 DEF FailEarly, disk, host
    <2>2. /\ \/ pc'[c] \in {"forget", "idle"}
             \/ pc'[c] = "clean" /\ arg'[c] = n /\ op[c] = "create" /\ pc[c] # "net"
          /\ \A d \in Clients \ {c} : pc[d] \notin Locked /\ pc'[d] = pc[d]
      BY Zenon, <1>a, <1>c, <2>1
    <2>3. ~InHand(n)
      BY Zenon, <1>b, <2>1
    <2>4. ASSUME pc[c] # "net", op[c] = "create" PROVE VMsOf(n) \subseteq lost
      <3>1. CASE pc[c] = "dir"
        BY Zenon, <1>n, <1>0, <2>3, <3>1, OnRecord DEF Knows
      <3>2. CASE pc[c] = "start"
        <4>1. st[c] = store[n] /\ st[c].pid = 0
          BY Zenon, <1>n, <1>0, <2>4, <3>2 DEF Knows
        <4> QED
          BY Zenon, <2>3, <4>1, OnRecord DEF processOwned
      <3>3. CASE pc[c] = "prep"
        BY Zenon, <1>n, <1>0, <3>3 DEF Knows
      <3> QED
        BY Zenon, <2>1, <2>4, <3>1, <3>2, <3>3
    <2>5. VMsOf(n)' = VMsOf(n)
      BY Zenon, <2>1 DEF VMsOf
    <2>6. Knows(c)'
      <3>1. CASE pc'[c] \in {"forget", "idle"}
        BY Zenon, <3>1 DEF Knows
      <3>2. CASE pc'[c] = "clean" /\ arg'[c] = n /\ op[c] = "create" /\ pc[c] # "net"
        BY Zenon, <2>1, <2>4, <2>5, <3>2 DEF Knows
      <3> QED
        BY Zenon, <2>2, <3>1, <3>2
    <2> QED
      BY Zenon, <2>1, <2>2, <2>6, QuietStep
  <1>3. CASE CleanNodeDir(c) \/ RemoveStoppedDir(c)
    <2>1. /\ pc[c] \in {"clean", "rmdir"} /\ Goto(c, "forget")
          /\ store' = store \/ store' = [store EXCEPT ![n] = None]
          /\ UNCHANGED procs /\ UNCHANGED lost /\ UNCHANGED strays
      BY Zenon, <1>n, <1>3 DEF CleanNodeDir, RemoveStoppedDir, RemoveNodeDir, At, host
    <2>2. VMsOf(n) \subseteq lost
      BY Zenon, <1>n, <1>0, <2>1 DEF Knows
    <2>3. VMsOf(n)' \subseteq lost'
      BY Zenon, <2>1, <2>2 DEF VMsOf
    <2>4. LostAreStrays'
      BY Zenon, <1>0, <2>1 DEF LostAreStrays
    <2>5. \A m \in Nodes \ {n} : store'[m] = store[m]
      BY Zenon, <2>1 DEF TypeOK
    <2>6. \A p \in Pids : procs'[p] = procs[p] /\ (p \in lost' <=> p \in lost)
      BY Zenon, <2>1
    <2> QED
      BY Zenon, <1>a, <2>1, <2>3, <2>4, <2>5, <2>6, GoneStep
  <1>4. CASE removeUnusedNetwork(c)
    <2>1. /\ pc[c] = "forget" /\ Goto(c, "idle")
          /\ UNCHANGED procs /\ UNCHANGED lost /\ UNCHANGED strays /\ UNCHANGED store
      BY Zenon, <1>4 DEF removeUnusedNetwork, At, Release, Return, host
    <2>2. pc'[c] = "idle"
      BY Zenon, <1>a, <2>1
    <2>3. Knows(c)'
      BY Zenon, <2>2 DEF Knows
    <2> QED
      BY Zenon, <1>a, <2>1, <2>3, QuietStep
  <1> QED
    BY Zenon, <1>1, <1>2, <1>3, <1>4

LEMMA TrackStop ==
  ASSUME NetworkInv, TypeOK', Identified, TrackInv, NEW c \in Clients,
         SignalProcess(c) \/ StopFinished(c) \/ StopStuck(c) \/ StopReturns(c)
  PROVE  TrackInv'
  <1> USE DEF NetworkInv
  <1>n. PICK n \in Nodes : n = arg[c]
    BY Zenon DEF TypeOK
  <1>0. /\ st[c] \in KrunkitNodeState /\ Own(n, st[c])
        /\ Knows(c) /\ pc[c] \in Locked /\ LostAreStrays
    BY Zenon, <1>n DEF SignalProcess, StopFinished, StopStuck, StopReturns,
                 At, Locked, TypeOK, Identified, ClientsOwn, TrackInv
  <1>a. ASSUME NEW l, Goto(c, l)
        PROVE  /\ pc'[c] = l
               /\ \A d \in Clients \ {c} : pc[d] \notin Locked /\ pc'[d] = pc[d]
    BY Zenon, <1>0, <1>a, Alone DEF Goto, TypeOK
  <1>1. CASE SignalProcess(c)
    <2>p. PICK p : p = st[c].pid
      BY Zenon
    <2>1. /\ pc[c] = "stopping" /\ processOwned(n, st[c])
          /\ procs' = [procs EXCEPT ![p] = None] /\ lost' = lost \ {p} /\ UNCHANGED strays
          /\ UNCHANGED <<pc, op, arg, st, store>>
      BY Zenon, <1>n, <1>1, <2>p DEF SignalProcess, At, client, disk
    <2>2. p \in Pids
      BY Zenon, <1>0, <2>p, <2>1, OwnedFacts
    <2>3. procs'[p] = None /\ \A q \in Pids \ {p} : procs'[q] = procs[q]
      BY Zenon, <2>1, <2>2 DEF TypeOK
    <2>4. LostAreStrays'
      BY Zenon, <1>0, <2>1, <2>3 DEF LostAreStrays, TypeOK
    <2>5. \A q \in Pids : (procs'[q] = procs[q] /\ (q \in lost' <=> q \in lost)) \/ procs'[q] = None
      BY Zenon, <2>1, <2>3
    <2> QED
      BY Zenon, <2>1, <2>4, <2>5, HostStep
  <1>2. CASE StopFinished(c)
    <2>1. /\ pc[c] = "stopping" /\ LoseIfOwned(n, st[c])
          /\ store' = [store EXCEPT ![n] = [cleared(st[c]) EXCEPT !.ip = 0]]
          /\ Goto(c, "rmdir") \/ Goto(c, "signalled")
          /\ UNCHANGED arg /\ UNCHANGED procs
      BY Zenon, <1>n, <1>2 DEF StopFinished, At
    <2>2. \A p \in VMsOf(n) \ lost : p = st[c].pid /\ processOwned(n, st[c])
      BY Zenon, <1>n, <1>0, <2>1 DEF Knows
    <2>3. /\ VMsOf(n)' \subseteq lost' /\ LostAreStrays'
          /\ \A p \in Pids : \/ procs'[p] = procs[p] /\ (p \in lost' <=> p \in lost)
                             \/ procs'[p].node = n
      BY Zenon, <1>0, <2>1, <2>2, LoseEffect
    <2>4. \A m \in Nodes \ {n} : store'[m] = store[m]
      BY Zenon, <2>1 DEF TypeOK
    <2>5. /\ pc'[c] \in {"rmdir", "signalled"} /\ arg'[c] = n
          /\ \A d \in Clients \ {c} : pc[d] \notin Locked /\ pc'[d] = pc[d]
      BY Zenon, <1>n, <1>a, <2>1
    <2> QED
      BY Zenon, <2>1, <2>3, <2>4, <2>5, GoneStep
  <1>3. CASE StopStuck(c) \/ StopReturns(c)
    <2>1. /\ pc[c] \in {"stopping", "signalled"} /\ Goto(c, "idle")
          /\ UNCHANGED procs /\ UNCHANGED lost /\ UNCHANGED strays /\ UNCHANGED store
      BY Zenon, <1>3 DEF StopStuck, StopReturns, At, Release, Return, disk, host
    <2>2. pc'[c] = "idle"
      BY Zenon, <1>a, <2>1
    <2>3. Knows(c)'
      BY Zenon, <2>2 DEF Knows
    <2> QED
      BY Zenon, <1>a, <2>1, <2>3, QuietStep
  <1> QED
    BY Zenon, <1>1, <1>2, <1>3

LEMMA ReturnEffect ==
  ASSUME TypeOK, NEW c \in Clients, Return(c)
  PROVE  /\ pc'[c] = "idle"
         /\ \A d \in Clients \ {c} : pc'[d] = pc[d] /\ op'[d] = op[d] /\ arg'[d] = arg[d] /\ st'[d] = st[d]
  BY Zenon DEF Return, Goto, TypeOK

LEMMA TrackExec ==
  ASSUME NetworkInv, TypeOK', Identified, TrackInv, NEW c \in Clients,
         ResolveAddress(c) \/ SaveAddress(c) \/ ExecFails(c) \/ List(c)
  PROVE  TrackInv'
  <1> USE DEF NetworkInv
  <1>0. LostAreStrays
    BY Zenon DEF TrackInv
  <1>1. CASE ResolveAddress(c) \/ ExecFails(c)
    <2>1. /\ pc[c] \in {"addr", "ssh"} /\ UNCHANGED <<store, procs, lost, strays>>
          /\ Return(c) \/ (pc' = [pc EXCEPT ![c] = "ssh"] /\ UNCHANGED <<op, arg, st>>)
      BY Zenon, <1>1 DEF ResolveAddress, ExecFails, At, Goto, disk, host
    <2>2. /\ pc'[c] \in {"idle", "ssh"}
          /\ \A d \in Clients \ {c} : pc'[d] = pc[d] /\ op'[d] = op[d] /\ arg'[d] = arg[d] /\ st'[d] = st[d]
      BY Zenon, <2>1, ReturnEffect DEF TypeOK
    <2>3. pc[c] \notin Locked /\ pc'[c] \notin Locked
      BY Zenon, <2>1, <2>2 DEF Locked
    <2> QED
      BY Zenon, <2>1, <2>2, <2>3, FreeStep
  <1>2. CASE SaveAddress(c)
    <2>1. /\ lock = None /\ Return(c) /\ UNCHANGED procs /\ UNCHANGED lost /\ UNCHANGED strays
          /\ \/ store' = store
             \/ store[arg[c]] # None /\ store' = [store EXCEPT ![arg[c]].ip = addr[c]]
      BY Zenon, <1>2 DEF SaveAddress, host
    <2>2. \A d \in Clients : pc[d] \notin Locked /\ pc'[d] \notin Locked
      BY Zenon, <2>1, Unlocked, ReturnEffect DEF Locked
    <2>3. ASSUME NEW n \in Nodes, store[n] # None, processOwned(n, store[n])
          PROVE  store'[n] # None /\ store'[n].pid = store[n].pid /\ processOwned(n, store'[n])
      <3>1. CASE store'[n] = store[n]
        BY Zenon, <2>3, <3>1
      <3>2. CASE store'[n] # store[n]
        <4>0. store[n] \in KrunkitNodeState
          BY Zenon, <2>3 DEF TypeOK
        <4>1. store'[n] = [store[n] EXCEPT !.ip = addr[c]]
          BY ZenonT(30), <2>1, <3>2 DEF TypeOK
        <4>2. /\ store'[n].pid = store[n].pid /\ store'[n].start = store[n].start
              /\ store'[n].hash = store[n].hash
          BY Zenon, <4>0, <4>1 DEF KrunkitNodeState
        <4>3. store'[n] \in KrunkitNodeState
          BY Zenon, <4>0, <4>1 DEF KrunkitNodeState, TypeOK
        <4> QED
          BY Zenon, <2>3, <4>2, <4>3, NoneAssumption, SameName
      <3> QED
        BY Zenon, <3>1, <3>2
    <2>4. LostAreStrays' /\ lost \subseteq lost'
      BY Zenon, <1>0, <2>1 DEF LostAreStrays
    <2> QED
      BY Zenon, <2>1, <2>2, <2>3, <2>4, OpenStep
  <1>3. CASE List(c)
    <2>1. /\ \A n \in Nodes : store[n] # None /\ processOwned(n, store[n]) =>
               \/ /\ store'[n] # None /\ store'[n].pid = store[n].pid
                  /\ processOwned(n, store'[n])
               \/ store[n].pid \in lost'
          /\ lost \subseteq lost' /\ strays \subseteq strays' /\ lock = None
          /\ \A p \in lost' : p \in lost \/ (procs[p] # None /\ procs[p].node \in strays')
      BY Zenon, <1>3, ListEffect
    <2>2. UNCHANGED pc /\ UNCHANGED procs
      BY Zenon, <1>3, ListEffect
    <2>3. LostAreStrays'
      BY Zenon, <1>0, <2>1, <2>2 DEF LostAreStrays
    <2>4. \A d \in Clients : pc[d] \notin Locked /\ pc'[d] \notin Locked
      BY Zenon, <2>1, <2>2, Unlocked
    <2> QED
      BY Zenon, <2>1, <2>2, <2>3, <2>4, OpenStep
  <1> QED
    BY Zenon, <1>1, <1>2, <1>3

LEMMA TrackKill ==
  ASSUME NetworkInv, TypeOK', Identified, TrackInv, NEW c \in Clients, KillClient(c)
  PROVE  TrackInv'
  <1> USE DEF NetworkInv
  <1>n. PICK n \in Nodes : n = arg[c]
    BY Zenon DEF TypeOK
  <1>0. st[c] \in KrunkitNodeState /\ Own(n, st[c]) /\ Knows(c) /\ LostAreStrays
    BY Zenon, <1>n DEF TypeOK, Identified, ClientsOwn, TrackInv
  <1>1. /\ Return(c) /\ UNCHANGED store /\ UNCHANGED procs
        /\ IF pc[c] = "spawned" THEN LoseIfOwned(n, st[c]) ELSE UNCHANGED <<lost, strays>>
    BY Zenon, <1>n DEF KillClient, At, disk
  <1>2. /\ pc'[c] = "idle"
        /\ \A d \in Clients \ {c} : pc'[d] = pc[d] /\ op'[d] = op[d] /\ arg'[d] = arg[d] /\ st'[d] = st[d]
    BY Zenon, <1>1, ReturnEffect
  <1>3. CASE pc[c] = "spawned"
    <2>1. \A d \in Clients \ {c} : pc[d] \notin Locked
      BY Zenon, <1>3, Alone DEF Locked
    <2>2. \A p \in VMsOf(n) \ lost : p = st[c].pid /\ processOwned(n, st[c])
      <3>1. /\ VMsOf(n) \ lost \subseteq {st[c].pid}
            /\ procs[st[c].pid] # None => processOwned(n, st[c])
        BY Zenon, <1>n, <1>0, <1>3 DEF Knows
      <3> QED
        BY Zenon, <3>1 DEF VMsOf
    <2>3. /\ VMsOf(n)' \subseteq lost' /\ LostAreStrays'
          /\ \A p \in Pids : \/ procs'[p] = procs[p] /\ (p \in lost' <=> p \in lost)
                             \/ procs'[p].node = n
      BY Zenon, <1>0, <1>1, <1>3, <2>2, LoseEffect
    <2> QED
      BY Zenon, <1>n, <1>1, <1>2, <2>1, <2>3, GoneStep
  <1>4. CASE pc[c] # "spawned" /\ pc[c] \in Locked
    <2>1. \A d \in Clients \ {c} : pc[d] \notin Locked
      BY Zenon, <1>4, Alone
    <2>2. Knows(c)'
      BY Zenon, <1>2 DEF Knows
    <2>3. UNCHANGED lost /\ UNCHANGED strays
      BY Zenon, <1>1, <1>4
    <2> QED
      BY Zenon, <1>1, <1>2, <1>4, <2>1, <2>2, <2>3, QuietStep
  <1>5. CASE pc[c] \notin Locked
    <2>1. pc[c] # "spawned" /\ pc'[c] \notin Locked
      BY Zenon, <1>2, <1>5 DEF Locked
    <2>2. UNCHANGED <<store, procs, lost, strays>>
      BY Zenon, <1>1, <2>1
    <2> QED
      BY Zenon, <1>2, <1>5, <2>1, <2>2, FreeStep
  <1> QED
    BY Zenon, <1>3, <1>4, <1>5

LEMMA TrackHost ==
  ASSUME NetworkInv, TypeOK', Identified, TrackInv,
         \/ \E p \in Pids : ProcessExit(p) \/ OtherProcess(p) \/ GuestReport(p)
         \/ Tick \/ Reboot \/ UNCHANGED vars
  PROVE  TrackInv'
  <1> USE DEF NetworkInv
  <1>0. LostAreStrays
    BY Zenon DEF TrackInv
  <1>1. ASSUME NEW p \in Pids, ProcessExit(p) PROVE TrackInv'
    <2>1. /\ procs' = [procs EXCEPT ![p] = None] /\ lost' = lost \ {p} /\ UNCHANGED strays
          /\ UNCHANGED <<pc, op, arg, st, store>>
      BY Zenon, <1>1 DEF ProcessExit, client, disk
    <2>2. procs'[p] = None /\ \A q \in Pids \ {p} : procs'[q] = procs[q]
      BY Zenon, <2>1 DEF TypeOK
    <2>3. LostAreStrays'
      BY Zenon, <1>0, <2>1, <2>2 DEF LostAreStrays, TypeOK
    <2>4. \A q \in Pids : (procs'[q] = procs[q] /\ (q \in lost' <=> q \in lost)) \/ procs'[q] = None
      BY Zenon, <2>1, <2>2
    <2> QED
      BY Zenon, <2>1, <2>3, <2>4, HostStep
  <1>2. ASSUME NEW p \in Pids, OtherProcess(p) PROVE TrackInv'
    <2>1. /\ procs' = [procs EXCEPT ![p] = [node |-> 0, start |-> clock, boot |-> 0]]
          /\ procs[p] = None /\ UNCHANGED lost /\ UNCHANGED strays
          /\ \A c \in Clients : ~(pc[c] \in {"spawned", "recorded"} /\ st[c].pid = p)
          /\ UNCHANGED <<pc, op, arg, st, store>>
      BY Zenon, <1>2 DEF OtherProcess, client, disk
    <2>2. /\ procs'[p] = [node |-> 0, start |-> clock, boot |-> 0]
          /\ \A q \in Pids \ {p} : procs'[q] = procs[q]
      BY Zenon, <2>1 DEF TypeOK
    <2>3. procs'[p].node = 0
      BY <2>2
    <2>4. p \notin lost
      BY Zenon, <1>0, <2>1 DEF LostAreStrays
    <2>5. LostAreStrays'
      BY Zenon, <1>0, <2>1, <2>2, <2>4 DEF LostAreStrays, TypeOK
    <2>6. \A q \in Pids :
            \/ procs'[q] = procs[q] /\ (q \in lost' <=> q \in lost)
            \/ /\ procs'[q].node = 0
               /\ procs[q] = None
               /\ \A c \in Clients : ~(pc[c] \in {"spawned", "recorded"} /\ st[c].pid = q)
      BY Zenon, <2>1, <2>2, <2>3
    <2> QED
      BY Zenon, <2>1, <2>5, <2>6, HostStep
  <1>3. CASE Tick \/ UNCHANGED vars \/ \E p \in Pids : GuestReport(p)
    <2>1. /\ UNCHANGED procs /\ UNCHANGED lost /\ UNCHANGED strays
          /\ UNCHANGED <<pc, op, arg, st, store>>
      BY Zenon, <1>3 DEF Tick, GuestReport, vars, client, disk, host
    <2>2. LostAreStrays' /\ \A q \in Pids : procs'[q] = procs[q] /\ (q \in lost' <=> q \in lost)
      BY Zenon, <1>0, <2>1 DEF LostAreStrays
    <2> QED
      BY Zenon, <2>1, <2>2, HostStep
  <1>4. CASE Reboot
    <2>1. /\ procs' = [p \in Pids |-> None] /\ lost' = {} /\ pc' = [c \in Clients |-> "idle"]
      BY Zenon, <1>4 DEF Reboot
    <2>2. \A n \in Nodes : VMsOf(n)' = {}
      BY Zenon, <2>1 DEF VMsOf
    <2>3. \A c \in Clients : pc'[c] = "idle"
      BY Zenon, <2>1
    <2>4. \A c \in Clients : Knows(c)'
      BY Zenon, <2>3 DEF Knows
    <2> QED
      BY Zenon, <2>1, <2>2, <2>4 DEF TrackInv, LostAreStrays, Tracked
  <1> QED
    BY Zenon, <1>1, <1>2, <1>3, <1>4

LEMMA InitTracked == Init => TrackInv
  <1> SUFFICES ASSUME Init PROVE TrackInv
    BY Zenon
  <1>1. PICK pid \in [Legacy -> Pids], o \in [NetIDs -> Octets \cup {None}] :
          /\ \A m, n \in Legacy : pid[m] = pid[n] => m = n
          /\ \A i \in NetIDs : o[i] = None <=> \A n \in Legacy : NetOf[n] # i
          /\ \A i, j \in NetIDs : o[i] # None /\ o[i] = o[j] => i = j
          /\ netfile = o
          /\ store = [n \in Nodes |-> IF n \in Legacy THEN LegacyState(pid[n], o[NetOf[n]]) ELSE None]
          /\ procs = [p \in Pids |-> IF \E n \in Legacy : pid[n] = p
                        THEN [node |-> CHOOSE n \in Legacy : pid[n] = p, start |-> 1, boot |-> 1]
                        ELSE None]
    BY Zenon DEF Init
  <1>a. \A i \in NetIDs : o[i] = None <=> \A n \in Legacy : NetOf[n] # i
    BY Zenon, <1>1
  <1>2. lost = {} /\ \A c \in Clients : pc[c] = "idle"
    BY Zenon DEF Init
  <1>3. \A c \in Clients : Knows(c)
    BY Zenon, <1>2 DEF Knows
  <1>4. ASSUME NEW n \in Nodes, NEW p \in VMsOf(n) PROVE Named(n, p)
    <2>1. p \in Pids /\ procs[p] # None /\ procs[p].node = n
      BY Zenon, <1>4 DEF VMsOf
    <2>2. \E m \in Legacy : pid[m] = p
      BY Zenon, <1>1, <2>1
    <2>3. PICK m : m = CHOOSE q \in Legacy : pid[q] = p
      BY Zenon
    <2>4. procs[p] = [node |-> m, start |-> 1, boot |-> 1]
      BY Zenon, <1>1, <2>1, <2>2, <2>3
    <2>5. n \in Legacy /\ pid[n] = p
      <3>1. n = m
        BY <2>1, <2>4
      <3> QED
        BY Zenon, <2>2, <2>3, <3>1
    <2>6. store[n] = LegacyState(pid[n], o[NetOf[n]])
      BY Zenon, <1>1, <2>5
    <2>7. store[n].pid = p /\ store[n].start = 0
      BY <2>5, <2>6 DEF LegacyState
    <2>8. store[n] \in KrunkitNodeState
      <3>1. o[NetOf[n]] \in Octets
        BY Zenon, <1>a, <2>5, ConstantsAssumption
      <3>2. 1 \in BootIDs
        BY ConstantsAssumption DEF BootIDs
      <3>3. LegacyState(pid[n], o[NetOf[n]]) \in KrunkitNodeState
        BY Zenon, <2>5, <3>1, <3>2, Zeros DEF LegacyState, KrunkitNodeState
      <3> QED
        BY Zenon, <2>6, <3>3
    <2>9. store[n] # None /\ p # 0
      BY Zenon, <2>1, <2>8, NoneAssumption, ConstantsAssumption
    <2> QED
      BY Zenon, <2>1, <2>7, <2>9 DEF Named, processOwned
  <1> QED
    BY Zenon, <1>2, <1>3, <1>4 DEF TrackInv, LostAreStrays, Tracked

\* The whole inductive invariant of the VM processes.
ProcessInv == NetworkInv /\ Identified /\ TrackInv

LEMMA InitProcesses == Init => ProcessInv
  BY Zenon, InitNetworks, InitIdentified, InitTracked DEF ProcessInv

LEMMA ProcessStep == ProcessInv /\ [Next]_vars => ProcessInv'
  <1> SUFFICES ASSUME ProcessInv, [Next]_vars PROVE ProcessInv'
    BY Zenon
  <1>1. NetworkInv' /\ TypeOK'
    BY Zenon, NetworkStep DEF ProcessInv, NetworkInv
  <1>2. Identified'
    BY Zenon, IdentifiedStep DEF ProcessInv, NetworkInv
  <1>3. TrackInv'
    <2>1. CASE UNCHANGED vars
      BY Zenon, <1>1, <2>1, TrackHost DEF ProcessInv
    <2>2. CASE Next
      BY ZenonT(30), <1>1, <2>2, StepCases, TrackCalls, TrackStart, TrackUndo, TrackStop, TrackExec,
         TrackKill, TrackHost DEF ProcessInv
    <2> QED
      BY Zenon, <2>1, <2>2
  <1> QED
    BY Zenon, <1>1, <1>2, <1>3 DEF ProcessInv

LEMMA ProcessesTracked == ProcessInv => EveryVMTracked
  <1> SUFFICES ASSUME ProcessInv, NEW n \in Nodes, NEW p \in VMsOf(n) \ lost
               PROVE  /\ \/ store[n] # None /\ store[n].pid = p /\ processOwned(n, store[n])
                         \/ \E c \in Clients : pc[c] = "spawned" /\ arg[c] = n /\ st[c].pid = p
                      /\ VMsOf(n) \ lost = {p}
    BY Zenon DEF EveryVMTracked
  <1>0. TrackInv
    BY Zenon DEF ProcessInv
  <1>1. CASE InHand(n)
    <2>1. PICK c \in Clients : pc[c] = "spawned" /\ arg[c] = n
      BY Zenon, <1>1 DEF InHand
    <2>2. VMsOf(n) \ lost \subseteq {st[c].pid}
      BY Zenon, <1>0, <2>1 DEF TrackInv, Knows
    <2> QED
      BY Zenon, <2>1, <2>2
  <1>2. CASE ~InHand(n)
    <2>1. \A q \in VMsOf(n) \ lost :
            store[n] # None /\ q = store[n].pid /\ processOwned(n, store[n])
      BY Zenon, <1>0, <1>2, OnRecord
    <2> QED
      BY Zenon, <2>1
  <1> QED
    BY Zenon, <1>1, <1>2

\* Every VM process is the one its node's state.json names or is in the hands of the
\* client that just started it, unless kiac lost it, whatever the clients, kills,
\* failures of ps and reuses of PIDs: no disk is attached to two VMs.
THEOREM VMsTracked == Spec => []EveryVMTracked
  <1>1. Init => ProcessInv
    BY Zenon, InitProcesses
  <1>2. ProcessInv /\ [Next]_vars => ProcessInv'
    BY Zenon, ProcessStep
  <1>3. ProcessInv => EveryVMTracked
    BY Zenon, ProcessesTracked
  <1> QED
    BY <1>1, <1>2, <1>3, PTL DEF Spec

LEMMA SignalStep ==
  ASSUME ProcessInv, NEW c \in Clients, SignalProcess(c) \/ TerminateStarted(c), NEW p \in Pids,
         procs'[p] # procs[p]
  PROVE  procs[p].node = arg[c]
  <1>0. /\ TypeOK /\ arg[c] \in Nodes /\ st[c] \in KrunkitNodeState /\ Own(arg[c], st[c])
    BY Zenon DEF ProcessInv, NetworkInv, TypeOK, Identified, ClientsOwn
  <1>1. processOwned(arg[c], st[c]) /\ procs' = [procs EXCEPT ![st[c].pid] = None]
    BY Zenon DEF SignalProcess, TerminateStarted
  <1>2. p = st[c].pid
    BY Zenon, <1>0, <1>1 DEF TypeOK
  <1> QED
    BY Zenon, <1>0, <1>1, <1>2, OwnedFacts

\* Stopping or undoing a start signals only this node's VM, for any reuse of PIDs.
THEOREM SignalsOwn == Spec => SignalsOnlyItsVM
  <1>1. Init => ProcessInv
    BY Zenon, InitProcesses
  <1>2. ProcessInv /\ [Next]_vars => ProcessInv'
    BY Zenon, ProcessStep
  <1>3. ProcessInv /\ [Next]_vars =>
          [\A c \in Clients : SignalProcess(c) \/ TerminateStarted(c) =>
             \A p \in Pids : procs'[p] # procs[p] => procs[p].node = arg[c]]_vars
    BY Zenon, SignalStep
  <1> QED
    BY <1>1, <1>2, <1>3, PTL DEF Spec, SignalsOnlyItsVM

-----------------------------------------------------------------------------
(* Addresses.                                                              *)

\* A report carries the generation of the boot that made it, for a node that never
\* had a second VM.
ReportsInv ==
  /\ \A n \in Nodes : store[n] # None /\ ~store[n].guest => generation[n] = 0
  /\ \A n \in Nodes \ strays : report[n] # None => report[n].ip = report[n].gen
  /\ \A n \in Nodes \ strays : generation[n] # 0 =>
       \A p \in VMsOf(n) : procs[p].boot = generation[n]

\* What a client knows of the boot its state is about.
KnowsBoot(c) ==
  /\ pc[c] \in {"start", "prep", "spawned", "recorded", "stopping"} =>
       st[c].guest = store[arg[c]].guest
  /\ pc[c] = "prep" /\ st[c].guest => generation[arg[c]] = boots
  /\ pc[c] = "ssh" /\ st[c].guest /\ arg[c] \notin strays => addr[c] = st[c].gen

AddressInv == ProcessInv /\ ReportsInv /\ \A c \in Clients : KnowsBoot(c)

\* A step that makes no VM and writes neither generation nor report.
LEMMA ReportsFrame ==
  ASSUME ReportsInv, strays \subseteq strays', UNCHANGED generation, UNCHANGED report,
         \A n \in Nodes : store'[n] # None =>
           store'[n].guest \/ (store[n] # None /\ store'[n].guest = store[n].guest),
         \A p \in Pids : procs'[p] = procs[p] \/ procs'[p] = None \/ procs'[p].node = 0
  PROVE  ReportsInv'
  <1>1. \A n \in Nodes : store'[n] # None /\ ~store'[n].guest => generation'[n] = 0
    BY Zenon DEF ReportsInv
  <1>2. ASSUME NEW n \in Nodes, n \notin strays' PROVE report'[n] # None => report'[n].ip = report'[n].gen
    BY Zenon, <1>2 DEF ReportsInv
  <1>3. ASSUME NEW n \in Nodes, n \notin strays', generation'[n] # 0, NEW p \in Pids, p \in VMsOf(n)'
        PROVE  procs'[p].boot = generation'[n]
    <2>1. procs'[p] # None /\ procs'[p].node = n /\ n # 0
      BY Zenon, <1>3, ConstantsAssumption DEF VMsOf
    <2>2. procs'[p] = procs[p]
      BY Zenon, <2>1
    <2>3. p \in VMsOf(n)
      BY Zenon, <2>1, <2>2 DEF VMsOf
    <2> QED
      BY Zenon, <1>3, <2>2, <2>3 DEF ReportsInv
  <1>4. \A n \in Nodes : VMsOf(n)' \subseteq Pids
    BY Zenon DEF VMsOf
  <1> QED
    BY Zenon, <1>1, <1>2, <1>3, <1>4 DEF ReportsInv

\* The clients that do not take the step know what they knew: they are outside the
\* lock, or nothing of what they know changes.
LEMMA BootFrame ==
  ASSUME TypeOK, NEW c \in Clients, \A d \in Clients : KnowsBoot(d), strays \subseteq strays',
         \A d \in Clients \ {c} : pc'[d] = pc[d] /\ arg'[d] = arg[d] /\ st'[d] = st[d] /\ addr'[d] = addr[d],
         \/ \A d \in Clients \ {c} : pc[d] \notin Locked
         \/ UNCHANGED <<store, generation, boots>>,
         KnowsBoot(c)'
  PROVE  \A d \in Clients : KnowsBoot(d)'
  <1> SUFFICES ASSUME NEW d \in Clients, d # c PROVE KnowsBoot(d)'
    BY Zenon
  <1>1. /\ pc'[d] = pc[d] /\ arg'[d] = arg[d] /\ st'[d] = st[d] /\ addr'[d] = addr[d]
        /\ KnowsBoot(d)
    BY Zenon
  <1>2. CASE pc[d] \notin Locked
    BY Zenon, <1>1, <1>2 DEF KnowsBoot, Locked
  <1>3. CASE UNCHANGED <<store, generation, boots>>
    BY Zenon, <1>1, <1>3 DEF KnowsBoot
  <1> QED
    BY Zenon, <1>2, <1>3

\* A client that holds no state of its node and no address knows nothing of a boot.
LEMMA NoBootKnown ==
  ASSUME NEW c \in Clients,
         pc'[c] \notin {"start", "prep", "spawned", "recorded", "stopping", "ssh"}
  PROVE  KnowsBoot(c)'
  BY Zenon DEF KnowsBoot

\* A node without lost VMs has no VM when its client knows it has none but lost ones.
LEMMA NoVMPrime ==
  ASSUME LostAreStrays', NEW n \in Nodes, n \notin strays', VMsOf(n)' \subseteq lost'
  PROVE  VMsOf(n)' = {}
  BY Zenon DEF LostAreStrays, VMsOf

\* The address a client resolves is that of the boot whose state it holds.
LEMMA ResolvedAddress ==
  ASSUME ReportsInv, NEW n \in Nodes, n \notin strays, NEW s, s.guest, NEW ip \in nodeAddress(n, s),
         ip # 0
  PROVE  ip = s.gen
  <1>1. report[n] # None /\ report[n].gen = s.gen /\ ip = report[n].ip
    BY Zenon DEF nodeAddress
  <1> QED
    BY Zenon, <1>1 DEF ReportsInv

LEMMA StraysGrow ==
  ASSUME NEW n, NEW s, LoseIfOwned(n, s)
  PROVE  strays \subseteq strays'
  BY Zenon DEF LoseIfOwned, Lose

LEMMA ReturnKeeps ==
  ASSUME TypeOK, NEW c \in Clients, Return(c)
  PROVE  /\ pc'[c] = "idle"
         /\ \A d \in Clients \ {c} : pc'[d] = pc[d] /\ arg'[d] = arg[d] /\ st'[d] = st[d] /\ addr'[d] = addr[d]
  BY Zenon DEF Return, Goto, TypeOK

LEMMA GotoKeeps ==
  ASSUME TypeOK, NEW c \in Clients, NEW l, Goto(c, l)
  PROVE  pc'[c] = l /\ \A d \in Clients \ {c} : pc'[d] = pc[d]
  BY Zenon DEF Goto, TypeOK

LEMMA AddressCalls ==
  ASSUME AddressInv, NEW c \in Clients, NEW n \in Nodes, NEW o \in {"stop", "remove"},
         \/ RunDetached(c, n) \/ Start(c, n) \/ Exec(c, n)
         \/ StopNotRunning(c, o, n) \/ StopRunning(c, o, n)
  PROVE  ReportsInv' /\ \A d \in Clients : KnowsBoot(d)'
  <1>0. TypeOK /\ LockHeld /\ Identified /\ ReportsInv /\ \A d \in Clients : KnowsBoot(d)
    BY Zenon DEF AddressInv, ProcessInv, NetworkInv
  <1>a. ASSUME UNCHANGED <<store, generation, report, procs, strays>> PROVE ReportsInv'
    <2>1. /\ store' = store /\ procs' = procs /\ strays \subseteq strays'
          /\ UNCHANGED generation /\ UNCHANGED report
      BY Zenon, <1>a
    <2> QED
      BY Zenon, <1>0, <2>1, ReportsFrame
  <1>1. CASE RunDetached(c, n)
    <2>1. /\ Goto(c, "net") /\ arg' = [arg EXCEPT ![c] = n] /\ UNCHANGED <<st, addr>>
          /\ UNCHANGED <<store, generation, boots>> /\ UNCHANGED <<store, generation, report, procs, strays>>
      BY Zenon, <1>1 DEF RunDetached, Acquire, host
    <2>2. /\ pc'[c] = "net" /\ strays \subseteq strays'
          /\ \A d \in Clients \ {c} : pc'[d] = pc[d] /\ arg'[d] = arg[d] /\ st'[d] = st[d] /\ addr'[d] = addr[d]
      BY Zenon, <1>0, <2>1, GotoKeeps DEF TypeOK
    <2>3. KnowsBoot(c)'
      BY Zenon, <2>2, NoBootKnown
    <2> QED
      BY Zenon, <1>0, <1>a, <2>1, <2>2, <2>3, BootFrame
  <1>2. CASE Start(c, n)
    <2>1. /\ Goto(c, "start") /\ arg' = [arg EXCEPT ![c] = n] /\ st' = [st EXCEPT ![c] = store[n]]
          /\ UNCHANGED addr
          /\ UNCHANGED <<store, generation, boots>> /\ UNCHANGED <<store, generation, report, procs, strays>>
      BY Zenon, <1>2 DEF Start, Acquire, disk, host
    <2>2. /\ pc'[c] = "start" /\ arg'[c] = n /\ st'[c] = store[n] /\ strays \subseteq strays'
          /\ \A d \in Clients \ {c} : pc'[d] = pc[d] /\ arg'[d] = arg[d] /\ st'[d] = st[d] /\ addr'[d] = addr[d]
      BY Zenon, <1>0, <2>1, GotoKeeps DEF TypeOK
    <2>3. KnowsBoot(c)'
      BY Zenon, <2>1, <2>2 DEF KnowsBoot
    <2> QED
      BY Zenon, <1>0, <1>a, <2>1, <2>2, <2>3, BootFrame
  <1>3. CASE Exec(c, n) \/ StopRunning(c, o, n)
    <2>1. /\ Goto(c, "addr") \/ Goto(c, "stopping")
          /\ arg' = [arg EXCEPT ![c] = n] /\ st' = [st EXCEPT ![c] = adopted(n, store[n])]
          /\ UNCHANGED addr /\ store[n] # None
          /\ UNCHANGED <<store, generation, boots>> /\ UNCHANGED <<store, generation, report, procs, strays>>
      BY Zenon, <1>3 DEF Exec, StopRunning, Acquire, Owns, disk, host
    <2>2. /\ pc'[c] \in {"addr", "stopping"} /\ arg'[c] = n /\ st'[c] = adopted(n, store[n])
          /\ strays \subseteq strays'
          /\ \A d \in Clients \ {c} : pc'[d] = pc[d] /\ arg'[d] = arg[d] /\ st'[d] = st[d] /\ addr'[d] = addr[d]
      BY Zenon, <1>0, <2>1, GotoKeeps DEF TypeOK
    <2>3. adopted(n, store[n]).guest = store[n].guest
      BY Zenon, <1>0, <2>1, AdoptedType DEF TypeOK
    <2>4. KnowsBoot(c)'
      BY Zenon, <2>1, <2>2, <2>3 DEF KnowsBoot
    <2> QED
      BY Zenon, <1>0, <1>a, <2>1, <2>2, <2>4, BootFrame
  <1>4. CASE StopNotRunning(c, o, n)
    <2>1. Goto(c, "rmdir") \/ Goto(c, "signalled")
      BY Zenon, <1>4 DEF StopNotRunning, Acquire
    <2>2. /\ lock = None /\ arg' = [arg EXCEPT ![c] = n] /\ st' = [st EXCEPT ![c] = cleared(store[n])]
          /\ UNCHANGED addr /\ store[n] # None /\ store' = [store EXCEPT ![n] = cleared(store[n])]
          /\ LoseIfOwned(n, store[n])
          /\ UNCHANGED generation /\ UNCHANGED report /\ UNCHANGED procs
      BY Zenon, <1>4 DEF StopNotRunning, Acquire, Owns
    <2>3. strays \subseteq strays'
      BY Zenon, <2>2, StraysGrow
    <2>4. cleared(store[n]).guest = store[n].guest
      BY Zenon, <1>0, <2>2, ClearedNames DEF TypeOK
    <2>5. \A m \in Nodes : store'[m] # None => store[m] # None /\ store'[m].guest = store[m].guest
      BY Zenon, <1>0, <2>2, <2>4 DEF TypeOK
    <2>6. ReportsInv'
      BY Zenon, <1>0, <2>2, <2>3, <2>5, ReportsFrame
    <2>7. /\ pc'[c] \in {"rmdir", "signalled"}
          /\ \A d \in Clients \ {c} : pc'[d] = pc[d] /\ arg'[d] = arg[d] /\ st'[d] = st[d] /\ addr'[d] = addr[d]
      BY Zenon, <1>0, <2>1, <2>2, GotoKeeps DEF TypeOK
    <2>8. KnowsBoot(c)'
      BY Zenon, <2>7, NoBootKnown
    <2>9. \A d \in Clients \ {c} : pc[d] \notin Locked
      BY Zenon, <1>0, <2>2, Unlocked
    <2> QED
      BY Zenon, <1>0, <2>3, <2>6, <2>7, <2>8, <2>9, BootFrame
  <1> QED
    BY Zenon, <1>1, <1>2, <1>3, <1>4

LEMMA AddressStart ==
  ASSUME AddressInv, ProcessInv', NEW c \in Clients,
         \/ WriteNewState(c) \/ AlreadyRunning(c) \/ PrepareBoot(c)
         \/ Spawn(c) \/ RecordProcess(c)
  PROVE  ReportsInv' /\ \A d \in Clients : KnowsBoot(d)'
  <1>n. PICK n \in Nodes : n = arg[c]
    BY Zenon DEF AddressInv, ProcessInv, NetworkInv, TypeOK
  <1>0. TypeOK /\ LockHeld /\ Identified /\ ReportsInv /\ \A d \in Clients : KnowsBoot(d)
    BY Zenon DEF AddressInv, ProcessInv, NetworkInv
  <1>1. /\ pc[c] \in Locked /\ st[c] \in KrunkitNodeState /\ KnowsBoot(c)
        /\ \A d \in Clients \ {c} : pc[d] \notin Locked
    BY Zenon, <1>0, Alone DEF WriteNewState, AlreadyRunning, PrepareBoot, Spawn, RecordProcess, At,
                              Locked, TypeOK
  <1>2. CASE WriteNewState(c)
    <2>s. PICK s : s = [NoNodeState EXCEPT !.octet = netfile[NetOf[arg[c]]]]
      BY Zenon
    <2>1. /\ Goto(c, "start") /\ UNCHANGED arg /\ UNCHANGED addr
          /\ st' = [st EXCEPT ![c] = s] /\ store' = [store EXCEPT ![n] = s]
          /\ UNCHANGED generation /\ UNCHANGED report /\ UNCHANGED procs /\ UNCHANGED strays
      BY Zenon, <1>n, <1>2, <2>s DEF WriteNewState, host
    <2>2. s.guest
      BY Zenon, <2>s DEF NoNodeState
    <2>3. /\ pc'[c] = "start" /\ arg'[c] = n /\ st'[c] = s /\ store'[n] = s /\ strays \subseteq strays'
          /\ \A d \in Clients \ {c} : pc'[d] = pc[d] /\ arg'[d] = arg[d] /\ st'[d] = st[d] /\ addr'[d] = addr[d]
          /\ \A m \in Nodes \ {n} : store'[m] = store[m]
      BY Zenon, <1>n, <1>0, <2>1, GotoKeeps DEF TypeOK
    <2>4. KnowsBoot(c)'
      BY Zenon, <2>3 DEF KnowsBoot
    <2>5. ReportsInv'
      BY Zenon, <1>0, <2>1, <2>2, <2>3, ReportsFrame
    <2> QED
      BY Zenon, <1>0, <1>1, <2>3, <2>4, <2>5, BootFrame
  <1>3. CASE AlreadyRunning(c)
    <2>t. PICK t : t = adopted(n, st[c])
      BY Zenon
    <2>s. PICK s : s = [t EXCEPT !.status = "running"]
      BY Zenon
    <2>1. /\ Return(c) /\ pc[c] = "start" /\ store' = [store EXCEPT ![n] = s]
          /\ UNCHANGED generation /\ UNCHANGED report /\ UNCHANGED procs /\ UNCHANGED strays
      BY Zenon, <1>n, <1>3, <2>t, <2>s DEF AlreadyRunning, At, Release, host
    <2>2. t \in KrunkitNodeState /\ t.guest = st[c].guest
      BY Zenon, <1>0, <1>1, <2>t, AdoptedType
    <2>3. s.guest = st[c].guest
      BY Zenon, <2>2, <2>s DEF KrunkitNodeState
    <2>4. st[c].guest = store[n].guest /\ store[n] # None
      BY Zenon, <1>n, <1>1, <2>1 DEF KnowsBoot, AddressInv, ProcessInv, NetworkInv, NetworkInHand
    <2>5. \A m \in Nodes : store'[m] # None => store[m] # None /\ store'[m].guest = store[m].guest
      BY Zenon, <1>0, <2>1, <2>3, <2>4 DEF TypeOK
    <2>6. ReportsInv'
      BY Zenon, <1>0, <2>1, <2>5, ReportsFrame
    <2>7. /\ pc'[c] = "idle" /\ strays \subseteq strays'
          /\ \A d \in Clients \ {c} : pc'[d] = pc[d] /\ arg'[d] = arg[d] /\ st'[d] = st[d] /\ addr'[d] = addr[d]
      BY Zenon, <1>0, <2>1, ReturnKeeps
    <2>8. KnowsBoot(c)'
      BY Zenon, <2>7, NoBootKnown
    <2> QED
      BY Zenon, <1>0, <1>1, <2>6, <2>7, <2>8, BootFrame
  <1>4. CASE PrepareBoot(c)
    <2>b. PICK b : b = boots + 1
      BY Zenon
    <2>s. PICK s : s = [st[c] EXCEPT !.gen = b, !.ip = 0]
      BY Zenon
    <2>1. /\ pc[c] = "start" /\ Goto(c, "prep") /\ UNCHANGED arg /\ UNCHANGED addr
          /\ boots' = b /\ LoseIfOwned(n, st[c])
          /\ UNCHANGED store /\ UNCHANGED procs
          /\ IF st[c].guest
               THEN /\ report' = [report EXCEPT ![n] = None]
                    /\ generation' = [generation EXCEPT ![n] = b]
                    /\ st' = [st EXCEPT ![c] = s]
               ELSE UNCHANGED report /\ UNCHANGED generation /\ UNCHANGED st
      BY Zenon, <1>n, <1>0, <1>4, <2>b, <2>s DEF PrepareBoot, At, TypeOK
    <2>2. strays \subseteq strays'
      BY Zenon, <2>1, StraysGrow
    <2>3. s.guest = st[c].guest
      BY Zenon, <1>1, <2>s DEF KrunkitNodeState
    <2>4. st[c].guest = store[n].guest /\ store[n] # None
      BY Zenon, <1>n, <1>1, <2>1 DEF KnowsBoot, AddressInv, ProcessInv, NetworkInv, NetworkInHand
    <2>5. /\ pc'[c] = "prep" /\ arg'[c] = n /\ st'[c].guest = store'[n].guest
          /\ st[c].guest = st'[c].guest
          /\ \A d \in Clients \ {c} : pc'[d] = pc[d] /\ arg'[d] = arg[d] /\ st'[d] = st[d] /\ addr'[d] = addr[d]
      BY ZenonT(30), <1>n, <1>0, <2>1, <2>3, <2>4, GotoKeeps DEF TypeOK
    <2>6. st[c].guest => generation'[n] = b
      BY Zenon, <1>0, <2>1 DEF TypeOK
    <2>7. KnowsBoot(c)'
      BY Zenon, <2>1, <2>5, <2>6 DEF KnowsBoot
    <2>8. ReportsInv'
      <3>1. CASE ~st[c].guest
        <4>1. UNCHANGED report /\ UNCHANGED generation
          BY Zenon, <2>1, <3>1
        <4> QED
          BY Zenon, <1>0, <2>1, <2>2, <4>1, ReportsFrame
      <3>2. CASE st[c].guest
        <4>1. /\ report'[n] = None /\ store'[n].guest
              /\ \A m \in Nodes \ {n} : report'[m] = report[m] /\ generation'[m] = generation[m]
          BY Zenon, <1>0, <2>1, <2>4, <3>2 DEF TypeOK
        <4>2. n \notin strays' => VMsOf(n)' = {}
          <5>1. LostAreStrays' /\ Knows(c)'
            BY Zenon DEF ProcessInv, TrackInv
          <5>2. VMsOf(n)' \subseteq lost'
            BY Zenon, <2>5, <5>1 DEF Knows
          <5> QED
            BY Zenon, <5>1, <5>2, NoVMPrime
        <4>3. \A m \in Nodes : VMsOf(m)' = VMsOf(m)
          BY Zenon, <2>1 DEF VMsOf
        <4>4. \A m \in Nodes : store'[m] # None /\ ~store'[m].guest => generation'[m] = 0
          BY Zenon, <1>0, <2>1, <4>1 DEF ReportsInv
        <4>5. \A m \in Nodes \ strays' : report'[m] # None => report'[m].ip = report'[m].gen
          BY Zenon, <1>0, <2>2, <4>1 DEF ReportsInv
        <4>6. \A m \in Nodes \ strays' : generation'[m] # 0 =>
                \A p \in VMsOf(m)' : procs'[p].boot = generation'[m]
          BY ZenonT(30), <1>0, <2>1, <2>2, <4>1, <4>2, <4>3 DEF ReportsInv
        <4> QED
          BY Zenon, <4>4, <4>5, <4>6 DEF ReportsInv
      <3> QED
        BY Zenon, <3>1, <3>2
    <2> QED
      BY Zenon, <1>0, <1>1, <2>2, <2>5, <2>7, <2>8, BootFrame
  <1>5. CASE Spawn(c)
    <2>1. PICK p \in Pids :
            /\ procs[p] = None
            /\ procs' = [procs EXCEPT ![p] = [node |-> arg[c], start |-> clock, boot |-> boots]]
            /\ st' = [st EXCEPT ![c].pid = p, ![c].start = clock, ![c].hash = arg[c],
                                ![c].ip = 0, ![c].status = "running"]
      BY ZenonT(30), <1>5 DEF Spawn
    <2>s. PICK s : s = [st[c] EXCEPT !.pid = p, !.start = clock, !.hash = arg[c],
                                     !.ip = 0, !.status = "running"]
      BY Zenon
    <2>2. /\ pc[c] = "prep" /\ Goto(c, "spawned") /\ UNCHANGED arg /\ UNCHANGED addr
          /\ UNCHANGED store /\ UNCHANGED report /\ UNCHANGED generation /\ UNCHANGED strays
      BY Zenon, <1>5 DEF Spawn, At, disk
    <2>3. s.guest = st[c].guest
      BY Zenon, <1>1, <2>s DEF KrunkitNodeState
    <2>4. st' = [st EXCEPT ![c] = s]
      BY Zenon, <1>0, <2>1, <2>s DEF TypeOK
    <2>5. /\ pc'[c] = "spawned" /\ arg'[c] = n /\ st'[c] = s /\ strays \subseteq strays'
          /\ \A d \in Clients \ {c} : pc'[d] = pc[d] /\ arg'[d] = arg[d] /\ st'[d] = st[d] /\ addr'[d] = addr[d]
      BY Zenon, <1>n, <1>0, <2>2, <2>4, GotoKeeps DEF TypeOK
    <2>6. st[c].guest = store[n].guest /\ store[n] # None /\ (st[c].guest => generation[n] = boots)
      BY Zenon, <1>n, <1>1, <2>2 DEF KnowsBoot, AddressInv, ProcessInv, NetworkInv, NetworkInHand
    <2>7. KnowsBoot(c)'
      BY Zenon, <2>2, <2>3, <2>5, <2>6 DEF KnowsBoot
    <2>8. /\ procs'[p] = [node |-> n, start |-> clock, boot |-> boots]
          /\ \A q \in Pids \ {p} : procs'[q] = procs[q]
      BY Zenon, <1>n, <1>0, <2>1 DEF TypeOK
    <2>9. procs'[p].boot = boots /\ procs'[p].node = n
      BY <2>8
    <2>10. generation[n] # 0 => generation[n] = boots
      BY Zenon, <1>0, <2>6 DEF ReportsInv
    <2>11. ASSUME NEW m \in Nodes, m \notin strays', generation'[m] # 0, NEW q \in Pids, q \in VMsOf(m)'
           PROVE  procs'[q].boot = generation'[m]
      <3>1. CASE q = p
        <4>1. m = n
          BY Zenon, <2>9, <2>11, <3>1 DEF VMsOf
        <4> QED
          BY Zenon, <2>2, <2>9, <2>10, <2>11, <3>1, <4>1
      <3>2. CASE q # p
        <4>1. procs'[q] = procs[q] /\ q \in VMsOf(m)
          BY Zenon, <2>8, <2>11, <3>2 DEF VMsOf
        <4> QED
          BY Zenon, <1>0, <2>2, <2>11, <4>1 DEF ReportsInv
      <3> QED
        BY Zenon, <3>1, <3>2
    <2>12. \A m \in Nodes : VMsOf(m)' \subseteq Pids
      BY Zenon DEF VMsOf
    <2>13. /\ \A m \in Nodes : store'[m] # None /\ ~store'[m].guest => generation'[m] = 0
           /\ \A m \in Nodes \ strays' : report'[m] # None => report'[m].ip = report'[m].gen
      BY Zenon, <1>0, <2>2 DEF ReportsInv
    <2>14. ReportsInv'
      BY Zenon, <2>11, <2>12, <2>13 DEF ReportsInv
    <2> QED
      BY Zenon, <1>0, <1>1, <2>5, <2>7, <2>14, BootFrame
  <1>6. CASE RecordProcess(c)
    <2>1. /\ pc[c] = "spawned" /\ Goto(c, "recorded") /\ UNCHANGED arg /\ UNCHANGED addr /\ UNCHANGED st
          /\ store' = [store EXCEPT ![n] = st[c]]
          /\ UNCHANGED generation /\ UNCHANGED report /\ UNCHANGED procs /\ UNCHANGED strays
      BY Zenon, <1>n, <1>6 DEF RecordProcess, At, host
    <2>2. st[c].guest = store[n].guest /\ store[n] # None
      BY Zenon, <1>n, <1>1, <2>1 DEF KnowsBoot, AddressInv, ProcessInv, NetworkInv, NetworkInHand
    <2>3. /\ pc'[c] = "recorded" /\ arg'[c] = n /\ st'[c] = st[c] /\ store'[n] = st[c]
          /\ strays \subseteq strays'
          /\ \A d \in Clients \ {c} : pc'[d] = pc[d] /\ arg'[d] = arg[d] /\ st'[d] = st[d] /\ addr'[d] = addr[d]
          /\ \A m \in Nodes \ {n} : store'[m] = store[m]
      BY Zenon, <1>n, <1>0, <2>1, GotoKeeps DEF TypeOK
    <2>4. KnowsBoot(c)'
      BY Zenon, <2>3 DEF KnowsBoot
    <2>5. \A m \in Nodes : store'[m] # None => store[m] # None /\ store'[m].guest = store[m].guest
      BY Zenon, <2>2, <2>3
    <2>6. ReportsInv'
      BY Zenon, <1>0, <2>1, <2>3, <2>5, ReportsFrame
    <2> QED
      BY Zenon, <1>0, <1>1, <2>3, <2>4, <2>6, BootFrame
  <1> QED
    BY Zenon, <1>2, <1>3, <1>4, <1>5, <1>6

LEMMA AddressEnd ==
  ASSUME AddressInv, NEW c \in Clients,
         \/ MakeNodeDir(c) \/ Started(c) \/ TerminateStarted(c) \/ FailEarly(c) \/ CleanNodeDir(c)
         \/ RemoveStoppedDir(c) \/ removeUnusedNetwork(c) \/ StopFinished(c) \/ StopStuck(c)
         \/ StopReturns(c)
  PROVE  ReportsInv' /\ \A d \in Clients : KnowsBoot(d)'
  <1>n. PICK n \in Nodes : n = arg[c]
    BY Zenon DEF AddressInv, ProcessInv, NetworkInv, TypeOK
  <1>0. TypeOK /\ LockHeld /\ ReportsInv /\ \A d \in Clients : KnowsBoot(d)
    BY Zenon DEF AddressInv, ProcessInv, NetworkInv
  <1>1. /\ pc[c] \in Locked /\ st[c] \in KrunkitNodeState /\ KnowsBoot(c)
    BY Zenon, <1>0
       DEF MakeNodeDir, Started, TerminateStarted, FailEarly, CleanNodeDir, RemoveStoppedDir,
           removeUnusedNetwork, StopFinished, StopStuck, StopReturns, At, Locked, TypeOK
  <1>a. ASSUME Release(c) \/ \E l \in {"dir", "clean", "forget", "rmdir", "signalled"} :
                               Goto(c, l) /\ UNCHANGED <<arg, st, addr>>,
               strays \subseteq strays'
        PROVE  \A d \in Clients : KnowsBoot(d)'
    <2>1. /\ pc'[c] \in {"idle", "dir", "clean", "forget", "rmdir", "signalled"}
          /\ \A d \in Clients \ {c} : pc'[d] = pc[d] /\ arg'[d] = arg[d] /\ st'[d] = st[d] /\ addr'[d] = addr[d]
      BY Zenon, <1>0, <1>a, ReturnKeeps, GotoKeeps DEF Release
    <2>2. KnowsBoot(c)'
      BY Zenon, <2>1, NoBootKnown
    <2>3. \A d \in Clients \ {c} : pc[d] \notin Locked
      BY Zenon, <1>0, <1>1, Alone
    <2> QED
      BY Zenon, <1>0, <1>a, <2>1, <2>2, <2>3, BootFrame
  <1>b. ASSUME UNCHANGED store, UNCHANGED generation, UNCHANGED report, UNCHANGED procs,
               UNCHANGED strays
        PROVE  ReportsInv' /\ strays \subseteq strays'
    BY Zenon, <1>0, <1>b, ReportsFrame
  <1>2. CASE MakeNodeDir(c) \/ Started(c) \/ removeUnusedNetwork(c) \/ StopStuck(c) \/ StopReturns(c)
    <2>1. /\ UNCHANGED store /\ UNCHANGED generation /\ UNCHANGED report /\ UNCHANGED procs
          /\ UNCHANGED strays
      BY Zenon, <1>2 DEF MakeNodeDir, Started, removeUnusedNetwork, StopStuck, StopReturns, disk, host
    <2>2. Release(c) \/ (Goto(c, "dir") /\ UNCHANGED <<arg, st, addr>>)
      BY Zenon, <1>2 DEF MakeNodeDir, Started, removeUnusedNetwork, StopStuck, StopReturns
    <2> QED
      BY Zenon, <1>a, <1>b, <2>1, <2>2
  <1>3. CASE FailEarly(c)
    <2>1. /\ UNCHANGED store /\ UNCHANGED generation /\ UNCHANGED report /\ UNCHANGED procs
          /\ UNCHANGED strays
      BY Zenon, <1>3 DEF FailEarly, disk, host
    <2>2. Release(c) \/ \E l \in {"clean", "forget"} : Goto(c, l) /\ UNCHANGED <<arg, st, addr>>
      BY Zenon, <1>3 DEF FailEarly, AfterFailure
    <2> QED
      BY Zenon, <1>a, <1>b, <2>1, <2>2
  <1>4. CASE TerminateStarted(c)
    <2>1. /\ UNCHANGED store /\ UNCHANGED generation /\ UNCHANGED report
          /\ procs' = procs \/ procs' = [procs EXCEPT ![st[c].pid] = None]
          /\ strays \subseteq strays'
      BY Zenon, <1>4 DEF TerminateStarted, Lose, disk
    <2>2. Release(c) \/ (Goto(c, "clean") /\ UNCHANGED <<arg, st, addr>>)
      BY Zenon, <1>4 DEF TerminateStarted, AfterFailure
    <2>3. \A p \in Pids : procs'[p] = procs[p] \/ procs'[p] = None
      BY Zenon, <1>0, <2>1 DEF TypeOK
    <2>4. ReportsInv'
      BY Zenon, <1>0, <2>1, <2>3, ReportsFrame
    <2> QED
      BY Zenon, <1>a, <2>1, <2>2, <2>4
  <1>5. CASE CleanNodeDir(c) \/ RemoveStoppedDir(c)
    <2>1. /\ Goto(c, "forget") /\ UNCHANGED <<arg, st, addr>>
          /\ UNCHANGED procs /\ UNCHANGED strays
          /\ \/ /\ store' = [store EXCEPT ![n] = None]
                /\ report' = [report EXCEPT ![n] = None] /\ generation' = [generation EXCEPT ![n] = 0]
             \/ /\ UNCHANGED report /\ UNCHANGED generation
                /\ store' = store \/ store' = [store EXCEPT ![n] = None]
      BY Zenon, <1>n, <1>5 DEF CleanNodeDir, RemoveStoppedDir, RemoveNodeDir, host
    <2>2. \A m \in Nodes : store'[m] # None => store[m] # None /\ store'[m] = store[m]
      BY Zenon, <1>0, <2>1 DEF TypeOK
    <2>3. CASE UNCHANGED report /\ UNCHANGED generation
      <3>1. ReportsInv'
        BY Zenon, <1>0, <2>1, <2>2, <2>3, ReportsFrame
      <3> QED
        BY Zenon, <1>a, <2>1, <3>1
    <2>4. CASE /\ report' = [report EXCEPT ![n] = None]
               /\ generation' = [generation EXCEPT ![n] = 0]
      <3>1. /\ report'[n] = None /\ generation'[n] = 0
            /\ \A m \in Nodes \ {n} : report'[m] = report[m] /\ generation'[m] = generation[m]
        BY Zenon, <1>0, <2>4 DEF TypeOK
      <3>2. \A m \in Nodes : VMsOf(m)' = VMsOf(m)
        BY Zenon, <2>1 DEF VMsOf
      <3>3. \A m \in Nodes : store'[m] # None /\ ~store'[m].guest => generation'[m] = 0
        BY Zenon, <1>0, <2>2, <3>1 DEF ReportsInv
      <3>4. \A m \in Nodes \ strays' : report'[m] # None => report'[m].ip = report'[m].gen
        BY Zenon, <1>0, <2>1, <3>1 DEF ReportsInv
      <3>5. \A m \in Nodes \ strays' : generation'[m] # 0 =>
              \A p \in VMsOf(m)' : procs'[p].boot = generation'[m]
        BY Zenon, <1>0, <2>1, <3>1, <3>2 DEF ReportsInv
      <3>6. ReportsInv'
        BY Zenon, <3>3, <3>4, <3>5 DEF ReportsInv
      <3> QED
        BY Zenon, <1>a, <2>1, <3>6
    <2> QED
      BY Zenon, <2>1, <2>3, <2>4
  <1>6. CASE StopFinished(c)
    <2>s. PICK s : s = [cleared(st[c]) EXCEPT !.ip = 0]
      BY Zenon
    <2>1. /\ pc[c] = "stopping" /\ LoseIfOwned(n, st[c]) /\ store' = [store EXCEPT ![n] = s]
          /\ Goto(c, "rmdir") \/ Goto(c, "signalled")
          /\ UNCHANGED <<arg, st, addr>>
          /\ UNCHANGED generation /\ UNCHANGED report /\ UNCHANGED procs
      BY Zenon, <1>n, <1>6, <2>s DEF StopFinished, At
    <2>2. s.guest = st[c].guest
      BY Zenon, <1>1, <2>s, ClearedNames
    <2>3. st[c].guest = store[n].guest /\ store[n] # None
      BY Zenon, <1>n, <1>1, <2>1 DEF KnowsBoot, AddressInv, ProcessInv, NetworkInv, NetworkInHand
    <2>4. strays \subseteq strays'
      BY Zenon, <2>1, StraysGrow
    <2>5. \A m \in Nodes : store'[m] # None => store[m] # None /\ store'[m].guest = store[m].guest
      BY Zenon, <1>0, <2>1, <2>2, <2>3 DEF TypeOK
    <2>6. ReportsInv'
      BY Zenon, <1>0, <2>1, <2>4, <2>5, ReportsFrame
    <2> QED
      BY Zenon, <1>a, <2>1, <2>4, <2>6
  <1> QED
    BY Zenon, <1>2, <1>3, <1>4, <1>5, <1>6

LEMMA AddressExec ==
  ASSUME AddressInv, NEW c \in Clients,
         ResolveAddress(c) \/ SaveAddress(c) \/ ExecFails(c) \/ List(c) \/ KillClient(c)
  PROVE  ReportsInv' /\ \A d \in Clients : KnowsBoot(d)'
  <1>n. PICK n \in Nodes : n = arg[c]
    BY Zenon DEF AddressInv, ProcessInv, NetworkInv, TypeOK
  <1>0. TypeOK /\ LockHeld /\ Identified /\ ReportsInv /\ \A d \in Clients : KnowsBoot(d)
    BY Zenon DEF AddressInv, ProcessInv, NetworkInv
  <1>b. ASSUME UNCHANGED store, UNCHANGED generation, UNCHANGED report, UNCHANGED procs,
               strays \subseteq strays'
        PROVE  ReportsInv'
    BY Zenon, <1>0, <1>b, ReportsFrame
  <1>1. CASE ResolveAddress(c)
    <2>1. PICK ip \in nodeAddress(n, st[c]) :
            IF ip = 0 THEN Return(c)
            ELSE /\ addr' = [addr EXCEPT ![c] = ip]
                 /\ Goto(c, "ssh")
                 /\ UNCHANGED <<op, arg, st>>
      BY Zenon, <1>n, <1>1 DEF ResolveAddress
    <2>2. /\ UNCHANGED store /\ UNCHANGED generation /\ UNCHANGED report /\ UNCHANGED procs
          /\ strays \subseteq strays' /\ UNCHANGED <<store, generation, boots>> /\ UNCHANGED strays
      BY Zenon, <1>1 DEF ResolveAddress, disk, host
    <2>3. CASE ip = 0
      <3>1. /\ pc'[c] = "idle"
            /\ \A d \in Clients \ {c} : pc'[d] = pc[d] /\ arg'[d] = arg[d] /\ st'[d] = st[d] /\ addr'[d] = addr[d]
        BY Zenon, <1>0, <2>1, <2>3, ReturnKeeps
      <3>2. KnowsBoot(c)'
        BY Zenon, <3>1, NoBootKnown
      <3> QED
        BY Zenon, <1>0, <1>b, <2>2, <3>1, <3>2, BootFrame
    <2>4. CASE ip # 0
      <3>1. /\ pc'[c] = "ssh" /\ addr'[c] = ip /\ st'[c] = st[c] /\ arg'[c] = n
            /\ \A d \in Clients \ {c} : pc'[d] = pc[d] /\ arg'[d] = arg[d] /\ st'[d] = st[d] /\ addr'[d] = addr[d]
        BY Zenon, <1>n, <1>0, <2>1, <2>4, GotoKeeps DEF TypeOK
      <3>2. st[c].guest /\ n \notin strays => ip = st[c].gen
        BY Zenon, <1>0, <2>4, ResolvedAddress
      <3>3. KnowsBoot(c)'
        BY Zenon, <2>2, <3>1, <3>2 DEF KnowsBoot
      <3> QED
        BY Zenon, <1>0, <1>b, <2>2, <3>1, <3>3, BootFrame
    <2> QED
      BY Zenon, <2>3, <2>4
  <1>2. CASE ExecFails(c) \/ KillClient(c)
    <2>1. /\ UNCHANGED store /\ UNCHANGED generation /\ UNCHANGED report /\ UNCHANGED procs
          /\ UNCHANGED <<store, generation, boots>> /\ Return(c)
      BY Zenon, <1>2 DEF ExecFails, KillClient, disk, host
    <2>2. strays \subseteq strays'
      BY Zenon, <1>2, StraysGrow DEF ExecFails, KillClient, host
    <2>3. /\ pc'[c] = "idle"
          /\ \A d \in Clients \ {c} : pc'[d] = pc[d] /\ arg'[d] = arg[d] /\ st'[d] = st[d] /\ addr'[d] = addr[d]
      BY Zenon, <1>0, <2>1, ReturnKeeps
    <2>4. KnowsBoot(c)'
      BY Zenon, <2>3, NoBootKnown
    <2> QED
      BY Zenon, <1>0, <1>b, <2>1, <2>2, <2>3, <2>4, BootFrame
  <1>3. CASE SaveAddress(c)
    <2>1. /\ lock = None /\ Return(c) /\ UNCHANGED procs /\ UNCHANGED strays
          /\ UNCHANGED generation /\ UNCHANGED report
          /\ \/ store' = store
             \/ store[n] # None /\ store' = [store EXCEPT ![n].ip = addr[c]]
      BY Zenon, <1>n, <1>3 DEF SaveAddress, host
    <2>2. ASSUME NEW m \in Nodes, store'[m] # None
          PROVE  store[m] # None /\ store'[m].guest = store[m].guest
      <3>1. CASE store'[m] = store[m]
        BY Zenon, <2>2, <3>1
      <3>2. CASE store'[m] # store[m]
        <4>1. store[m] # None /\ store'[m] = [store[m] EXCEPT !.ip = addr[c]]
          BY ZenonT(30), <1>0, <2>1, <3>2 DEF TypeOK
        <4>2. store[m] \in KrunkitNodeState
          BY Zenon, <1>0, <4>1 DEF TypeOK
        <4> QED
          BY Zenon, <4>1, <4>2 DEF KrunkitNodeState
      <3> QED
        BY Zenon, <3>1, <3>2
    <2>3. ReportsInv' /\ strays \subseteq strays'
      BY Zenon, <1>0, <2>1, <2>2, ReportsFrame
    <2>4. /\ pc'[c] = "idle"
          /\ \A d \in Clients \ {c} : pc'[d] = pc[d] /\ arg'[d] = arg[d] /\ st'[d] = st[d] /\ addr'[d] = addr[d]
      BY Zenon, <1>0, <2>1, ReturnKeeps
    <2>5. KnowsBoot(c)'
      BY Zenon, <2>4, NoBootKnown
    <2>6. \A d \in Clients \ {c} : pc[d] \notin Locked
      BY Zenon, <1>0, <2>1, Unlocked
    <2> QED
      BY Zenon, <1>0, <2>3, <2>4, <2>5, <2>6, BootFrame
  <1>4. CASE List(c)
    <2>1. /\ \A m \in Nodes : store'[m] # None => store[m] # None /\ store'[m].guest = store[m].guest
          /\ strays \subseteq strays' /\ lock = None
      BY Zenon, <1>0, <1>4, ListEffect
    <2>2. /\ UNCHANGED pc /\ UNCHANGED arg /\ UNCHANGED st /\ UNCHANGED addr
          /\ UNCHANGED generation /\ UNCHANGED report /\ UNCHANGED procs
      BY Zenon, <1>0, <1>4, ListEffect
    <2>3. ReportsInv'
      BY Zenon, <1>0, <2>1, <2>2, ReportsFrame
    <2>4. \A d \in Clients : pc[d] \notin Locked
      BY Zenon, <1>0, <2>1, Unlocked
    <2>5. \A d \in Clients : KnowsBoot(d)'
      BY Zenon, <1>0, <2>1, <2>2, <2>4 DEF KnowsBoot, Locked
    <2> QED
      BY Zenon, <2>3, <2>5
  <1> QED
    BY Zenon, <1>1, <1>2, <1>3, <1>4

LEMMA AddressHost ==
  ASSUME AddressInv,
         \/ \E c \in Clients : SignalProcess(c)
         \/ \E p \in Pids : ProcessExit(p) \/ OtherProcess(p) \/ GuestReport(p)
         \/ Tick \/ Reboot \/ UNCHANGED vars
  PROVE  ReportsInv' /\ \A d \in Clients : KnowsBoot(d)'
  <1>0. TypeOK /\ ReportsInv /\ \A d \in Clients : KnowsBoot(d)
    BY Zenon DEF AddressInv, ProcessInv, NetworkInv
  <1>a. ASSUME UNCHANGED <<pc, arg, st, addr>>, UNCHANGED <<store, generation, boots, strays>>
        PROVE  \A d \in Clients : KnowsBoot(d)'
    BY Zenon, <1>0, <1>a DEF KnowsBoot
  <1>1. ASSUME UNCHANGED <<pc, arg, st, addr>>, UNCHANGED <<store, generation, boots, strays>>,
               UNCHANGED report,
               \A p \in Pids : procs'[p] = procs[p] \/ procs'[p] = None \/ procs'[p].node = 0
        PROVE  ReportsInv' /\ \A d \in Clients : KnowsBoot(d)'
    <2>1. store' = store /\ UNCHANGED generation /\ strays \subseteq strays'
      BY Zenon, <1>1
    <2>2. ReportsInv'
      BY Zenon, <1>0, <1>1, <2>1, ReportsFrame
    <2> QED
      BY Zenon, <1>1, <1>a, <2>2
  <1>2. CASE \/ \E c \in Clients : SignalProcess(c)
             \/ \E p \in Pids : ProcessExit(p) \/ OtherProcess(p)
    <2>1. /\ UNCHANGED <<pc, arg, st, addr>> /\ UNCHANGED <<store, generation, boots, strays>>
          /\ UNCHANGED report
      BY Zenon, <1>2 DEF SignalProcess, ProcessExit, OtherProcess, client, disk
    <2>2. \E q : \/ procs' = [procs EXCEPT ![q] = None]
                 \/ procs' = [procs EXCEPT ![q] = [node |-> 0, start |-> clock, boot |-> 0]]
      BY Zenon, <1>2 DEF SignalProcess, ProcessExit, OtherProcess
    <2>3. PICK q : \/ procs' = [procs EXCEPT ![q] = None]
                   \/ procs' = [procs EXCEPT ![q] = [node |-> 0, start |-> clock, boot |-> 0]]
      BY Zenon, <2>2
    <2>4. \A p \in Pids : \/ procs'[p] = procs[p] \/ procs'[p] = None
                          \/ procs'[p] = [node |-> 0, start |-> clock, boot |-> 0]
      BY Zenon, <1>0, <2>3 DEF TypeOK
    <2>5. [node |-> 0, start |-> clock, boot |-> 0].node = 0
      BY Zenon
    <2>6. \A p \in Pids : procs'[p] = procs[p] \/ procs'[p] = None \/ procs'[p].node = 0
      BY Zenon, <2>4, <2>5
    <2> QED
      BY Zenon, <1>1, <2>1, <2>6
  <1>3. CASE Tick \/ UNCHANGED vars
    <2>1. /\ UNCHANGED <<pc, arg, st, addr>> /\ UNCHANGED <<store, generation, boots, strays>>
          /\ UNCHANGED report /\ procs' = procs
      BY Zenon, <1>3 DEF Tick, vars, client, disk, host
    <2> QED
      BY Zenon, <1>1, <2>1
  <1>4. ASSUME NEW p \in Pids, GuestReport(p) PROVE ReportsInv' /\ \A d \in Clients : KnowsBoot(d)'
    <2>n. PICK n : n = procs[p].node
      BY Zenon
    <2>g. PICK g : g = generation[n]
      BY Zenon
    <2>b. PICK b : b = procs[p].boot
      BY Zenon
    <2>1. /\ UNCHANGED <<pc, arg, st, addr>> /\ UNCHANGED <<store, generation, boots, strays>>
          /\ procs' = procs /\ procs[p] # None /\ n \in dirs /\ g # 0
          /\ report' = [report EXCEPT ![n] = [gen |-> g, ip |-> b]]
      BY Zenon, <1>4, <2>n, <2>g, <2>b DEF GuestReport, client, disk, host
    <2>2. n \in Nodes /\ p \in VMsOf(n)
      BY Zenon, <1>0, <2>n, <2>1 DEF TypeOK, VMsOf
    <2>3. n \notin strays => b = g
      BY Zenon, <1>0, <2>g, <2>b, <2>1, <2>2 DEF ReportsInv
    <2>4. report'[n] = [gen |-> g, ip |-> b] /\ \A m \in Nodes \ {n} : report'[m] = report[m]
      BY Zenon, <1>0, <2>1, <2>2 DEF TypeOK
    <2>5. report'[n].gen = g /\ report'[n].ip = b
      BY <2>4
    <2>6. \A m \in Nodes \ strays' : report'[m] # None => report'[m].ip = report'[m].gen
      BY Zenon, <1>0, <2>1, <2>3, <2>4, <2>5 DEF ReportsInv
    <2>7. \A m \in Nodes : VMsOf(m)' = VMsOf(m)
      BY Zenon, <2>1 DEF VMsOf
    <2>8. ReportsInv'
      BY Zenon, <1>0, <2>1, <2>6, <2>7 DEF ReportsInv
    <2> QED
      BY Zenon, <1>a, <2>1, <2>8
  <1>5. CASE Reboot
    <2>1. /\ UNCHANGED store /\ UNCHANGED generation /\ UNCHANGED report /\ strays \subseteq strays'
          /\ procs' = [p \in Pids |-> None] /\ pc' = [c \in Clients |-> "idle"]
      BY Zenon, <1>5 DEF Reboot, disk
    <2>2. \A p \in Pids : procs'[p] = None
      BY Zenon, <2>1
    <2>3. ReportsInv'
      BY Zenon, <1>0, <2>1, <2>2, ReportsFrame
    <2>4. \A c \in Clients : pc'[c] = "idle"
      BY Zenon, <2>1
    <2> QED
      BY Zenon, <2>3, <2>4, NoBootKnown
  <1> QED
    BY Zenon, <1>2, <1>3, <1>4, <1>5

LEMMA InitAddresses == Init => AddressInv
  <1> SUFFICES ASSUME Init PROVE AddressInv
    BY Zenon
  <1>1. /\ generation = [n \in Nodes |-> 0] /\ report = [n \in Nodes |-> None]
        /\ pc = [c \in Clients |-> "idle"]
    BY Zenon DEF Init
  <1>2. ReportsInv
    BY Zenon, <1>1 DEF ReportsInv
  <1>3. \A c \in Clients : KnowsBoot(c)
    BY Zenon, <1>1 DEF KnowsBoot
  <1> QED
    BY Zenon, <1>2, <1>3, InitProcesses DEF AddressInv

LEMMA AddressStep == AddressInv /\ [Next]_vars => AddressInv'
  <1> SUFFICES ASSUME AddressInv, [Next]_vars PROVE AddressInv'
    BY Zenon
  <1>1. ProcessInv'
    BY Zenon, ProcessStep DEF AddressInv
  <1>2. ReportsInv' /\ \A d \in Clients : KnowsBoot(d)'
    <2>1. CASE UNCHANGED vars
      BY Zenon, <2>1, AddressHost
    <2>2. CASE Next
      BY ZenonT(30), <1>1, <2>2, StepCases, AddressCalls, AddressStart, AddressEnd, AddressExec, AddressHost
    <2> QED
      BY Zenon, <2>1, <2>2
  <1> QED
    BY Zenon, <1>1, <1>2 DEF AddressInv

\* An Exec connects to the boot whose state it read, whatever restarts of the VM by
\* other clients come between its unlocked reads.
THEOREM AddressesRight == Spec => []AddressOfTheBootRead
  <1>1. Init => AddressInv
    BY Zenon, InitAddresses
  <1>2. AddressInv /\ [Next]_vars => AddressInv'
    BY Zenon, AddressStep
  <1>3. AddressInv => AddressOfTheBootRead
    BY Zenon DEF AddressInv, KnowsBoot, AddressOfTheBootRead
  <1> QED
    BY <1>1, <1>2, <1>3, PTL DEF Spec

-----------------------------------------------------------------------------
(* The inventory.                                                          *)

\* The record of a node, if there is one, names no VM that runs.
Gone(n) == store[n] # None => ~processOwned(n, store[n])

\* What makes a record removable: a creation that is undone has recorded no process
\* before its VM's, and has recorded that one; whoever removes a directory knows that
\* the record in it names nothing that runs.
Removable(c) ==
  /\ op[c] = "create" /\ pc[c] \in {"prep", "spawned"} => store[arg[c]].pid = 0
  /\ pc[c] = "recorded" => store[arg[c]] = st[c]
  /\ pc[c] \in {"clean", "rmdir"} => Gone(arg[c])

RemovalInv == \A c \in Clients : Removable(c)

\* A process that ends or belongs to no node, and one that begins, make no record name
\* a VM that did not run; only one that ends halts a VM.
LEMMA PhaseOfProcs ==
  ASSUME TypeOK, StoresOwn, NEW n \in Nodes, store'[n] = store[n],
         \A p \in Pids : procs'[p] = procs[p] \/ procs'[p] = None \/ procs'[p].node # n
  PROVE  /\ phaseOf(n)' = phaseOf(n) \/ (phaseOf(n) = "running" /\ phaseOf(n)' = "stopped")
         /\ Gone(n) => Gone(n)'
         /\ (\A p \in Pids : procs'[p] = procs[p] \/ procs[p] = None) => phaseOf(n)' = phaseOf(n)
  <1>1. CASE store[n] = None
    BY Zenon, <1>1 DEF phaseOf, Gone
  <1>2. CASE store[n] # None
    <2> DEFINE s == store[n]
    <2>1. s \in KrunkitNodeState /\ Own(n, s)
      BY Zenon, <1>2 DEF TypeOK, StoresOwn
    <2>2. s.pid = 0 \/ s.pid \in Pids
      BY Zenon, <2>1 DEF KrunkitNodeState
    <2> HIDE DEF s
    <2>3. processOwned(n, store[n])' => s.pid \in Pids /\ procs'[s.pid] # None /\ procs'[s.pid].node = n
      BY Zenon, <2>1, <2>2 DEF processOwned, Own, s
    <2>4. processOwned(n, store[n])' => processOwned(n, store[n])
      BY Zenon, <2>1, <2>2, <2>3 DEF processOwned, s
    <2>5. processOwned(n, store[n]) /\ (\A p \in Pids : procs'[p] = procs[p] \/ procs[p] = None)
            => processOwned(n, store[n])'
      BY Zenon, <2>2 DEF processOwned, s
    <2> QED
      BY Zenon, <1>2, <2>4, <2>5 DEF phaseOf, Gone
  <1> QED
    BY Zenon, <1>1, <1>2

\* Only the client that holds the lock has something to remove.
LEMMA RemovalOfOne ==
  ASSUME NEW c \in Clients, \A d \in Clients \ {c} : pc[d] \notin Locked /\ pc'[d] = pc[d],
         Removable(c)'
  PROVE  RemovalInv'
  <1> SUFFICES ASSUME NEW d \in Clients PROVE Removable(d)'
    BY Zenon DEF RemovalInv
  <1>1. CASE d = c
    BY Zenon, <1>1
  <1>2. CASE d # c
    <2>1. pc'[d] \notin Locked
      BY Zenon, <1>2
    <2> QED
      BY Zenon, <2>1 DEF Removable, Locked
  <1> QED
    BY Zenon, <1>1, <1>2

\* Elsewhere a client has nothing to remove.
LEMMA NothingRemoved ==
  ASSUME NEW c \in Clients, \A d \in Clients \ {c} : pc[d] \notin Locked /\ pc'[d] = pc[d],
         pc'[c] \notin {"prep", "spawned", "recorded", "clean", "rmdir"}
  PROVE  RemovalInv'
  <1>1. Removable(c)'
    BY Zenon DEF Removable
  <1> QED
    BY Zenon, <1>1, RemovalOfOne

LEMMA RemovalCalls ==
  ASSUME ProcessInv, RemovalInv, NEW c \in Clients, NEW n \in Nodes, NEW o \in {"stop", "remove"},
         \/ RunDetached(c, n) \/ Start(c, n)
         \/ StopNotRunning(c, o, n) \/ StopRunning(c, o, n)
  PROVE  RemovalInv'
  <1>0. TypeOK /\ LockHeld
    BY Zenon DEF ProcessInv, NetworkInv
  <1>1. PICK l \in {"net", "start", "stopping", "rmdir", "signalled"} :
          /\ lock = None /\ Goto(c, l) /\ arg' = [arg EXCEPT ![c] = n]
          /\ l = "rmdir" => StopNotRunning(c, o, n)
    BY ZenonT(30) DEF RunDetached, Start, StopNotRunning, StopRunning, Acquire
  <1>2. pc'[c] = l /\ \A d \in Clients \ {c} : pc[d] \notin Locked /\ pc'[d] = pc[d]
    BY Zenon, <1>0, <1>1, GotoKeeps, Unlocked
  <1>3. CASE l # "rmdir"
    BY Zenon, <1>2, <1>3, NothingRemoved
  <1>4. CASE l = "rmdir"
    <2>1. store[n] # None /\ store' = [store EXCEPT ![n] = cleared(store[n])]
      BY Zenon, <1>1, <1>4 DEF StopNotRunning, Owns
    <2>2. store'[n] = cleared(store[n]) /\ cleared(store[n]).pid = 0
      BY Zenon, <1>0, <2>1, ClearedNames DEF TypeOK
    <2>3. arg'[c] = n
      BY Zenon, <1>0, <1>1 DEF TypeOK
    <2>4. Gone(n)'
      BY Zenon, <2>2 DEF Gone, processOwned
    <2>5. Removable(c)'
      BY Zenon, <1>2, <1>4, <2>3, <2>4 DEF Removable
    <2> QED
      BY Zenon, <1>2, <2>5, RemovalOfOne
  <1> QED
    BY Zenon, <1>3, <1>4

\* Every step under the lock leaves its client with a removable record, or nothing to
\* remove: a VM that is given up after its record was written is dead first.
LEMMA RemovalSteps ==
  ASSUME MayStick = FALSE, ProcessInv, RemovalInv, NEW c \in Clients,
         \/ MakeNodeDir(c) \/ WriteNewState(c) \/ AlreadyRunning(c) \/ PrepareBoot(c) \/ Spawn(c)
         \/ RecordProcess(c) \/ Started(c) \/ TerminateStarted(c) \/ FailEarly(c) \/ CleanNodeDir(c)
         \/ removeUnusedNetwork(c) \/ SignalProcess(c) \/ StopFinished(c) \/ StopStuck(c)
         \/ StopReturns(c) \/ RemoveStoppedDir(c)
  PROVE  RemovalInv'
  <1>n. PICK n \in Nodes : n = arg[c]
    BY Zenon DEF ProcessInv, NetworkInv, TypeOK
  <1>0. /\ TypeOK /\ LockHeld /\ Knows(c) /\ Removable(c) /\ st[c] \in KrunkitNodeState
        /\ n = arg[c] /\ StoresOwn
    BY Zenon, <1>n DEF ProcessInv, NetworkInv, TrackInv, RemovalInv, TypeOK, Identified
  <1>1. pc[c] \in Locked
    BY ZenonT(30) DEF MakeNodeDir, WriteNewState, AlreadyRunning, PrepareBoot, Spawn, RecordProcess, Started,
         TerminateStarted, FailEarly, CleanNodeDir, removeUnusedNetwork, SignalProcess, StopFinished,
         StopStuck, StopReturns, RemoveStoppedDir, At, Locked
  <1>2. \A d \in Clients \ {c} : pc[d] \notin Locked
    BY Zenon, <1>0, <1>1, Alone
  <1>a. ASSUME NEW l, Goto(c, l)
        PROVE  pc'[c] = l /\ \A d \in Clients \ {c} : pc[d] \notin Locked /\ pc'[d] = pc[d]
    BY Zenon, <1>0, <1>2, <1>a, GotoKeeps
  <1>b. ASSUME Return(c) PROVE RemovalInv'
    <2>1. pc'[c] = "idle" /\ \A d \in Clients \ {c} : pc[d] \notin Locked /\ pc'[d] = pc[d]
      BY Zenon, <1>0, <1>2, <1>b, ReturnKeeps
    <2> QED
      BY Zenon, <2>1, NothingRemoved
  <1>c. ASSUME NEW l \in {"dir", "start", "forget", "signalled"}, Goto(c, l) PROVE RemovalInv'
    <2>1. pc'[c] = l /\ \A d \in Clients \ {c} : pc[d] \notin Locked /\ pc'[d] = pc[d]
      BY Zenon, <1>a, <1>c
    <2> QED
      BY Zenon, <2>1, NothingRemoved
  <1>d. ASSUME Gone(n)', NEW l \in {"clean", "rmdir"}, Goto(c, l), UNCHANGED arg PROVE RemovalInv'
    <2>1. pc'[c] = l /\ \A d \in Clients \ {c} : pc[d] \notin Locked /\ pc'[d] = pc[d]
      BY Zenon, <1>a, <1>d
    <2>2. Removable(c)'
      BY Zenon, <1>n, <1>d, <2>1 DEF Removable
    <2> QED
      BY Zenon, <2>1, <2>2, RemovalOfOne
  <1>3. CASE MakeNodeDir(c) \/ WriteNewState(c)
    BY Zenon, <1>3, <1>c DEF MakeNodeDir, WriteNewState
  <1>4. CASE AlreadyRunning(c) \/ Started(c) \/ removeUnusedNetwork(c) \/ StopStuck(c) \/ StopReturns(c)
    BY Zenon, <1>4, <1>b DEF AlreadyRunning, Started, removeUnusedNetwork, StopStuck, StopReturns, Release
  <1>5. CASE CleanNodeDir(c) \/ RemoveStoppedDir(c)
    BY Zenon, <1>5, <1>c DEF CleanNodeDir, RemoveStoppedDir, RemoveNodeDir
  <1>6. CASE PrepareBoot(c)
    <2>1. pc[c] = "start" /\ Goto(c, "prep") /\ UNCHANGED op /\ UNCHANGED arg /\ UNCHANGED store
      BY Zenon, <1>6 DEF PrepareBoot, At
    <2>2. op[c] = "create" => store[n].pid = 0
      BY Zenon, <1>0, <2>1 DEF Knows
    <2>3. pc'[c] = "prep" /\ op'[c] = op[c] /\ arg'[c] = n /\ store'[n] = store[n]
      BY Zenon, <1>n, <1>a, <2>1
    <2>4. Removable(c)'
      BY ZenonT(30), <2>2, <2>3 DEF Removable
    <2> QED
      BY Zenon, <1>a, <2>1, <2>4, RemovalOfOne
  <1>7. CASE Spawn(c)
    <2>1. pc[c] = "prep" /\ Goto(c, "spawned") /\ UNCHANGED op /\ UNCHANGED arg /\ UNCHANGED store
      BY Zenon, <1>7 DEF Spawn, At, disk
    <2>2. op[c] = "create" => store[n].pid = 0
      BY Zenon, <1>0, <2>1 DEF Removable
    <2>3. pc'[c] = "spawned" /\ op'[c] = op[c] /\ arg'[c] = n /\ store'[n] = store[n]
      BY Zenon, <1>n, <1>a, <2>1
    <2>4. Removable(c)'
      BY ZenonT(30), <2>2, <2>3 DEF Removable
    <2> QED
      BY Zenon, <1>a, <2>1, <2>4, RemovalOfOne
  <1>8. CASE RecordProcess(c)
    <2>1. /\ Goto(c, "recorded") /\ UNCHANGED op /\ UNCHANGED arg /\ UNCHANGED st
          /\ store' = [store EXCEPT ![n] = st[c]]
      BY Zenon, <1>n, <1>8 DEF RecordProcess
    <2>2. store'[n] = st[c]
      BY Zenon, <1>0, <2>1 DEF TypeOK
    <2>3. pc'[c] = "recorded" /\ arg'[c] = n /\ store'[n] = st'[c]
      BY Zenon, <1>n, <1>a, <2>1, <2>2
    <2>4. Removable(c)'
      BY ZenonT(30), <2>3 DEF Removable
    <2> QED
      BY Zenon, <1>a, <2>1, <2>4, RemovalOfOne
  <1>9. CASE SignalProcess(c)
    <2>1. pc[c] = "stopping" /\ UNCHANGED pc
      BY Zenon, <1>9 DEF SignalProcess, At, client
    <2> QED
      BY Zenon, <1>2, <2>1, NothingRemoved
  <1>10. CASE StopFinished(c)
    <2>1. store' = [store EXCEPT ![n] = [cleared(st[c]) EXCEPT !.ip = 0]] /\ UNCHANGED arg
      BY Zenon, <1>n, <1>10 DEF StopFinished
    <2>2. PICK l \in {"rmdir", "signalled"} : Goto(c, l)
      BY Zenon, <1>10 DEF StopFinished
    <2>3. store'[n].pid = 0
      BY Zenon, <1>0, <2>1, ClearedNames DEF TypeOK
    <2>4. Gone(n)'
      BY Zenon, <2>3 DEF Gone, processOwned
    <2> QED
      BY Zenon, <2>1, <2>2, <2>4, <1>c, <1>d
  <1>11. CASE FailEarly(c)
    <2>1. UNCHANGED store /\ UNCHANGED procs
      BY Zenon, <1>11 DEF FailEarly, disk, host
    <2>2. \/ Goto(c, "forget")
          \/ Return(c)
          \/ /\ pc[c] \in {"dir", "start", "prep"} /\ op[c] = "create"
             /\ Goto(c, "clean") /\ UNCHANGED arg
      BY Zenon, <1>11 DEF FailEarly, AfterFailure, Release
    <2>3. ASSUME pc[c] \in {"dir", "start", "prep"}, op[c] = "create" PROVE Gone(n)
      <3>1. store[n] = None \/ store[n].pid = 0
        BY Zenon, <1>0, <2>3 DEF Knows, Removable
      <3> QED
        BY Zenon, <3>1 DEF Gone, processOwned
    <2>4. Gone(n) => Gone(n)'
      BY Zenon, <2>1 DEF Gone, processOwned
    <2> QED
      BY Zenon, <2>2, <2>3, <2>4, <1>b, <1>c, <1>d
  <1>12. CASE TerminateStarted(c)
    <2>1. /\ pc[c] \in {"spawned", "recorded"}
          /\ procs' = IF processOwned(n, st[c]) THEN [procs EXCEPT ![st[c].pid] = None] ELSE procs
          /\ UNCHANGED store
      BY Zenon, <1>n, <1>12 DEF TerminateStarted, disk
    <2>2. Return(c) \/ (op[c] = "create" /\ Goto(c, "clean") /\ UNCHANGED arg)
      BY Zenon, <1>12 DEF TerminateStarted, AfterFailure, Release
    <2>3. ASSUME op[c] = "create" PROVE Gone(n)'
      <3>1. CASE pc[c] = "spawned"
        <4>1. store[n].pid = 0
          BY Zenon, <1>0, <2>3, <3>1 DEF Removable
        <4> QED
          BY Zenon, <2>1, <4>1 DEF Gone, processOwned
      <3>2. CASE pc[c] = "recorded"
        <4>1. store[n] = st[c] /\ store' = store
          BY Zenon, <1>0, <2>1, <3>2 DEF Removable
        <4>2. CASE processOwned(n, st[c])
          <5>1. st[c].pid \in Pids
            BY Zenon, <1>0, <4>2 DEF processOwned, KrunkitNodeState
          <5>2. procs'[st[c].pid] = None
            BY Zenon, <1>0, <2>1, <4>2, <5>1 DEF TypeOK
          <5> QED
            BY Zenon, <4>1, <5>2 DEF Gone, processOwned
        <4>3. CASE ~processOwned(n, st[c])
          BY Zenon, <2>1, <4>1, <4>3 DEF Gone, processOwned
        <4> QED
          BY Zenon, <4>2, <4>3
      <3> QED
        BY Zenon, <2>1, <3>1, <3>2
    <2> QED
      BY Zenon, <2>2, <2>3, <1>b, <1>d
  <1> QED
    BY Zenon, <1>3, <1>4, <1>5, <1>6, <1>7, <1>8, <1>9, <1>10, <1>11, <1>12

LEMMA RemovalExec ==
  ASSUME ProcessInv, RemovalInv, NEW c \in Clients, NEW n \in Nodes,
         \/ Exec(c, n) \/ ResolveAddress(c) \/ SaveAddress(c) \/ ExecFails(c) \/ List(c) \/ KillClient(c)
  PROVE  RemovalInv'
  <1>0. TypeOK /\ LockHeld
    BY Zenon DEF ProcessInv, NetworkInv
  <1>a. ASSUME pc[c] \notin Locked, pc'[c] \notin Locked, UNCHANGED store, UNCHANGED procs,
               \A d \in Clients \ {c} : pc'[d] = pc[d] /\ op'[d] = op[d] /\ arg'[d] = arg[d] /\ st'[d] = st[d]
        PROVE  RemovalInv'
    <2> SUFFICES ASSUME NEW d \in Clients PROVE Removable(d)'
      BY Zenon DEF RemovalInv
    <2>1. CASE d = c
      BY Zenon, <1>a, <2>1 DEF Removable, Locked
    <2>2. CASE d # c
      <3>1. /\ pc'[d] = pc[d] /\ op'[d] = op[d] /\ arg'[d] = arg[d] /\ st'[d] = st[d]
            /\ store' = store /\ procs' = procs
        BY Zenon, <1>a, <2>2
      <3>2. Removable(d)
        BY Zenon DEF RemovalInv
      <3>3. PICK m : m = arg[d]
        BY Zenon
      <3>4. Gone(m)' <=> Gone(m)
        BY Zenon, <3>1 DEF Gone, processOwned
      <3>5. pc[d] \in {"clean", "rmdir"} => Gone(arg[d])'
        BY Zenon, <3>1, <3>2, <3>3, <3>4 DEF Removable
      <3> QED
        BY Zenon, <3>1, <3>2, <3>5 DEF Removable
    <2> QED
      BY Zenon, <2>1, <2>2
  <1>b. ASSUME \A d \in Clients : pc'[d] \notin Locked PROVE RemovalInv'
    BY Zenon, <1>b DEF RemovalInv, Removable, Locked
  <1>1. CASE Exec(c, n)
    <2>1. /\ pc[c] = "idle" /\ pc' = [pc EXCEPT ![c] = "addr"] /\ op' = [op EXCEPT ![c] = "exec"]
          /\ arg' = [arg EXCEPT ![c] = n] /\ st' = [st EXCEPT ![c] = adopted(n, store[n])]
          /\ UNCHANGED store /\ UNCHANGED procs
      BY Zenon, <1>1 DEF Exec, At, Goto, disk, host
    <2>2. /\ pc'[c] = "addr"
          /\ \A d \in Clients \ {c} : pc'[d] = pc[d] /\ op'[d] = op[d] /\ arg'[d] = arg[d] /\ st'[d] = st[d]
      BY Zenon, <1>0, <2>1 DEF TypeOK
    <2> QED
      BY Zenon, <1>a, <2>1, <2>2 DEF Locked
  <1>2. CASE ResolveAddress(c)
    <2>1. pc[c] = "addr" /\ UNCHANGED store /\ UNCHANGED procs
      BY Zenon, <1>2 DEF ResolveAddress, At, disk, host
    <2>2. Return(c) \/ (Goto(c, "ssh") /\ UNCHANGED op /\ UNCHANGED arg /\ UNCHANGED st)
      BY Zenon, <1>2 DEF ResolveAddress
    <2>3. /\ pc'[c] \in {"idle", "ssh"}
          /\ \A d \in Clients \ {c} : pc'[d] = pc[d] /\ op'[d] = op[d] /\ arg'[d] = arg[d] /\ st'[d] = st[d]
      BY Zenon, <1>0, <2>2, ReturnEffect, GotoKeeps
    <2> QED
      BY Zenon, <1>a, <2>1, <2>3 DEF Locked
  <1>3. CASE ExecFails(c)
    <2>1. pc[c] \in {"addr", "ssh"} /\ UNCHANGED store /\ UNCHANGED procs /\ Return(c)
      BY Zenon, <1>3 DEF ExecFails, disk, host
    <2>2. /\ pc'[c] = "idle"
          /\ \A d \in Clients \ {c} : pc'[d] = pc[d] /\ op'[d] = op[d] /\ arg'[d] = arg[d] /\ st'[d] = st[d]
      BY Zenon, <1>0, <2>1, ReturnEffect
    <2> QED
      BY Zenon, <1>a, <2>1, <2>2 DEF Locked
  <1>4. CASE SaveAddress(c)
    <2>1. lock = None /\ Return(c)
      BY Zenon, <1>4 DEF SaveAddress
    <2>2. pc'[c] = "idle" /\ \A d \in Clients \ {c} : pc'[d] = pc[d]
      BY Zenon, <1>0, <2>1, ReturnKeeps
    <2> QED
      BY Zenon, <1>0, <1>b, <2>1, <2>2, Unlocked DEF Locked
  <1>5. CASE List(c)
    <2>1. lock = None /\ UNCHANGED pc
      BY Zenon, <1>5 DEF List, Atomically
    <2> QED
      BY Zenon, <1>0, <1>b, <2>1, Unlocked
  <1>6. CASE KillClient(c)
    <2>1. Return(c) /\ UNCHANGED store /\ UNCHANGED procs
      BY Zenon, <1>6 DEF KillClient, disk
    <2>2. /\ pc'[c] = "idle"
          /\ \A d \in Clients \ {c} : pc'[d] = pc[d] /\ op'[d] = op[d] /\ arg'[d] = arg[d] /\ st'[d] = st[d]
      BY Zenon, <1>0, <2>1, ReturnEffect
    <2>3. CASE pc[c] \in Locked
      <3>1. \A d \in Clients \ {c} : pc[d] \notin Locked
        BY Zenon, <1>0, <2>3, Alone
      <3> QED
        BY Zenon, <1>b, <2>2, <3>1 DEF Locked
    <2>4. CASE pc[c] \notin Locked
      BY Zenon, <1>a, <2>1, <2>2, <2>4 DEF Locked
    <2> QED
      BY Zenon, <2>3, <2>4
  <1> QED
    BY Zenon, <1>1, <1>2, <1>3, <1>4, <1>5, <1>6

\* What the host's steps do to the process table.
LEMMA HostProcs ==
  ASSUME TypeOK,
         (\E p \in Pids : ProcessExit(p) \/ OtherProcess(p) \/ GuestReport(p)) \/ Tick \/ UNCHANGED vars
  PROVE  /\ UNCHANGED store /\ UNCHANGED <<pc, op, arg, st>>
         /\ \A q \in Pids : procs'[q] = procs[q] \/ procs'[q] = None \/ procs'[q].node = 0
  <1>1. UNCHANGED store /\ UNCHANGED <<pc, op, arg, st>>
    BY Zenon DEF ProcessExit, OtherProcess, GuestReport, Tick, vars, client, disk
  <1>2. ASSUME NEW p \in Pids, ProcessExit(p)
        PROVE  \A q \in Pids : procs'[q] = procs[q] \/ procs'[q] = None \/ procs'[q].node = 0
    BY Zenon, <1>1, <1>2 DEF ProcessExit, TypeOK
  <1>3. ASSUME NEW p \in Pids, OtherProcess(p)
        PROVE  \A q \in Pids : procs'[q] = procs[q] \/ procs'[q] = None \/ procs'[q].node = 0
    <2>1. procs' = [procs EXCEPT ![p] = [node |-> 0, start |-> clock, boot |-> 0]]
      BY Zenon, <1>3 DEF OtherProcess
    <2>2. [node |-> 0, start |-> clock, boot |-> 0].node = 0
      OBVIOUS
    <2> QED
      BY Zenon, <1>1, <2>1, <2>2 DEF TypeOK
  <1>4. ASSUME (\E p \in Pids : GuestReport(p)) \/ Tick \/ UNCHANGED vars
        PROVE  \A q \in Pids : procs'[q] = procs[q] \/ procs'[q] = None \/ procs'[q].node = 0
    <2>1. procs' = procs
      BY Zenon, <1>4 DEF GuestReport, Tick, vars, host
    <2> QED
      BY Zenon, <1>1, <2>1
  <1> QED
    BY Zenon, <1>1, <1>2, <1>3, <1>4

LEMMA RemovalHost ==
  ASSUME ProcessInv, RemovalInv,
         (\E p \in Pids : ProcessExit(p) \/ OtherProcess(p) \/ GuestReport(p)) \/ Tick \/ UNCHANGED vars
  PROVE  RemovalInv'
  <1>0. TypeOK /\ StoresOwn
    BY Zenon DEF ProcessInv, NetworkInv, Identified
  <1>1. /\ UNCHANGED store /\ UNCHANGED <<pc, op, arg, st>>
        /\ \A q \in Pids : procs'[q] = procs[q] \/ procs'[q] = None \/ procs'[q].node = 0
    BY Zenon, <1>0, HostProcs
  <1> SUFFICES ASSUME NEW c \in Clients PROVE Removable(c)'
    BY Zenon DEF RemovalInv
  <1>2. PICK n \in Nodes : n = arg[c]
    BY Zenon, <1>0 DEF TypeOK
  <1>3. \A q \in Pids : procs'[q] = procs[q] \/ procs'[q] = None \/ procs'[q].node # n
    BY Zenon, <1>1, ConstantsAssumption
  <1>4. Gone(n) => Gone(n)'
    BY Zenon, <1>0, <1>1, <1>3, PhaseOfProcs
  <1>5. Removable(c)
    BY Zenon DEF RemovalInv
  <1>6. pc[c] \in {"clean", "rmdir"} => Gone(arg[c])'
    BY Zenon, <1>1, <1>2, <1>4, <1>5 DEF Removable
  <1> QED
    BY Zenon, <1>1, <1>5, <1>6 DEF Removable

LEMMA RemovalStep == MayStick = FALSE /\ ProcessInv /\ RemovalInv /\ [Next]_vars => RemovalInv'
  <1> SUFFICES ASSUME MayStick = FALSE, ProcessInv, RemovalInv, [Next]_vars PROVE RemovalInv'
    BY Zenon
  <1>1. ASSUME Reboot PROVE RemovalInv'
    BY Zenon, <1>1 DEF Reboot, RemovalInv, Removable
  <1>2. CASE Next
    BY ZenonT(30), <1>1, <1>2, StepCases, RemovalCalls, RemovalSteps, RemovalExec, RemovalHost, SomeNodeType
  <1> QED
    BY Zenon, <1>2, RemovalHost

\* The phases of the nodes, which the inventory's variable stands for.
phases == [n \in Nodes |-> phaseOf(n)]

InventoryStep == Inventory!Next \/ UNCHANGED phases

LEMMA PhaseValues ==
  ASSUME NEW n \in Nodes
  PROVE  /\ phaseOf(n) \in {"absent", "stopped", "running"} /\ (phaseOf(n) = "absent" <=> store[n] = None)
         /\ phaseOf(n)' \in {"absent", "stopped", "running"} /\ (phaseOf(n)' = "absent" <=> store'[n] = None)
  BY Zenon DEF phaseOf

\* VMs may halt in any step.
LEMMA HaltStep ==
  ASSUME \A n \in Nodes :
           phaseOf(n)' = phaseOf(n) \/ (phaseOf(n) = "running" /\ phaseOf(n)' = "stopped")
  PROVE  InventoryStep
  <1> DEFINE S == {n \in Nodes : phaseOf(n) = "running" /\ phaseOf(n)' = "stopped"}
  <1>1. CASE S = {}
    <2>1. \A n \in Nodes : phaseOf(n)' = phaseOf(n)
      BY Zenon, <1>1
    <2>2. UNCHANGED phases
      BY Zenon, <2>1 DEF phases
    <2> QED
      BY Zenon, <2>2 DEF InventoryStep
  <1>2. CASE S # {}
    <2>1. \A n \in Nodes : phaseOf(n)' = IF n \in S THEN "stopped" ELSE phaseOf(n)
      BY Zenon
    <2>2. \A n \in S : phaseOf(n) = "running" /\ n \in Nodes
      BY Zenon
    <2>3. S \in SUBSET Nodes
      BY Zenon
    <2> HIDE DEF S
    <2>4. Inventory!Halt(S)
      <3>1. phases' = [n \in Nodes |-> IF n \in S THEN "stopped" ELSE phases[n]]
        BY Zenon, <2>1 DEF phases
      <3>2. \A n \in S : phases[n] = "running"
        BY Zenon, <2>2 DEF phases
      <3> QED
        BY Zenon, <1>2, <3>1, <3>2 DEF Inventory!Halt, phases
    <2>5. \E T \in SUBSET Nodes : Inventory!Halt(T)
      BY Zenon, <2>3, <2>4
    <2> QED
      BY Zenon, <2>5 DEF InventoryStep, Inventory!Next
  <1> QED
    BY Zenon, <1>1, <1>2

\* One VM may be created stopped, boot, halt, or be discarded while it does not run.
LEMMA OneVMStep ==
  ASSUME NEW n \in Nodes, \A m \in Nodes \ {n} : phaseOf(m)' = phaseOf(m),
         phaseOf(n) = "absent" => phaseOf(n)' # "running",
         phaseOf(n) = "running" => phaseOf(n)' # "absent"
  PROVE  InventoryStep
  <1>1. CASE phaseOf(n)' = phaseOf(n) \/ phaseOf(n) = "running"
    <2>1. phaseOf(n)' = phaseOf(n) \/ (phaseOf(n) = "running" /\ phaseOf(n)' = "stopped")
      BY Zenon, <1>1, PhaseValues
    <2> QED
      BY Zenon, <2>1, HaltStep
  <1>2. CASE phaseOf(n)' # phaseOf(n) /\ phaseOf(n) # "running"
    <2>1. \/ phaseOf(n) = "absent" /\ phaseOf(n)' = "stopped"
          \/ phaseOf(n) = "stopped" /\ phaseOf(n)' \in {"running", "absent"}
      BY Zenon, <1>2, PhaseValues
    <2>2. PICK v : v = phaseOf(n)'
      BY Zenon
    <2>3. phases' = [phases EXCEPT ![n] = v]
      BY Zenon, <2>2 DEF phases
    <2>4. phases[n] = phaseOf(n)
      BY Zenon DEF phases
    <2>5. Inventory!Create(n) \/ Inventory!Boot(n) \/ Inventory!Discard(n)
      BY Zenon, <2>1, <2>2, <2>3, <2>4 DEF Inventory!Create, Inventory!Boot, Inventory!Discard, phases
    <2> QED
      BY Zenon, <2>5 DEF InventoryStep, Inventory!Next
  <1> QED
    BY Zenon, <1>1, <1>2

\* A step that writes one record.
LEMMA RecordStep ==
  ASSUME NEW n \in Nodes, \A m \in Nodes \ {n} : store'[m] = store[m], procs' = procs,
         \/ store[n] # None /\ store'[n] # None
         \/ store[n] = None /\ store'[n].pid = 0
         \/ Gone(n) /\ store'[n] = None
  PROVE  InventoryStep
  <1>1. \A m \in Nodes \ {n} : phaseOf(m)' = phaseOf(m)
    BY Zenon DEF phaseOf, processOwned
  <1>2. phaseOf(n) = "absent" => phaseOf(n)' # "running"
    <2>1. CASE store[n] = None /\ store'[n].pid = 0
      BY Zenon, <2>1 DEF phaseOf, processOwned
    <2> QED
      BY Zenon, <2>1, PhaseValues
  <1>3. phaseOf(n) = "running" => phaseOf(n)' # "absent"
    BY Zenon, PhaseValues DEF phaseOf, Gone
  <1> QED
    BY Zenon, <1>1, <1>2, <1>3, OneVMStep

LEMMA StillStep ==
  ASSUME UNCHANGED store, UNCHANGED procs
  PROVE  InventoryStep
  <1>1. \A n \in Nodes : phaseOf(n)' = phaseOf(n)
    BY Zenon DEF phaseOf, processOwned
  <1> QED
    BY Zenon, <1>1, HaltStep

\* List only ever halts VMs: what it reports as running runs.
LEMMA ListHalts ==
  ASSUME ProcessInv, NEW c \in Clients, List(c)
  PROVE  InventoryStep
  <1>0. TypeOK /\ Identified
    BY Zenon DEF ProcessInv, NetworkInv
  <1> DEFINE listed == {n \in dirs : \A m \in dirs : m <= n => store[m] # None}
  <1>1. PICK owned \in [listed -> BOOLEAN], ip \in [listed -> BootIDs] :
          /\ \A n \in listed : owned[n] \in ownedAnswers(n, store[n])
          /\ store' = [n \in Nodes |-> IF n \in listed THEN Reconciled(n, owned[n], ip[n])
                                       ELSE store[n]]
    BY ZenonT(30) DEF List
  <1>2. procs' = procs
    BY Zenon DEF List
  <1>3. \A n \in Nodes : store'[n] = None <=> store[n] = None
    BY Zenon, <1>0, ListEffect
  <1>4. ASSUME NEW n \in Nodes, store[n] # None, processOwned(n, store'[n])
        PROVE  processOwned(n, store[n])
    <2>1. CASE n \in listed
      <3>1. store'[n] = Reconciled(n, owned[n], ip[n]) /\ owned[n] \in ownedAnswers(n, store[n])
        BY Zenon, <1>1, <2>1
      <3>2. store[n] \in KrunkitNodeState
        BY Zenon, <1>0, <1>4 DEF TypeOK
      <3>3. CASE owned[n]
        BY Zenon, <3>1, <3>3 DEF ownedAnswers
      <3>4. CASE ~owned[n]
        <4>1. store'[n] = store[n] \/ store'[n] = [cleared(store[n]) EXCEPT !.ip = 0]
          BY Zenon, <3>1, <3>4 DEF Reconciled
        <4>2. [cleared(store[n]) EXCEPT !.ip = 0].pid = 0
          BY Zenon, <3>2, ClearedNames
        <4> QED
          BY Zenon, <1>4, <4>1, <4>2 DEF processOwned
      <3> QED
        BY Zenon, <3>3, <3>4
    <2>2. CASE n \notin listed
      BY Zenon, <1>1, <1>4, <2>2
    <2> QED
      BY Zenon, <2>1, <2>2
  <1>5. ASSUME NEW n \in Nodes
        PROVE  phaseOf(n)' = phaseOf(n) \/ (phaseOf(n) = "running" /\ phaseOf(n)' = "stopped")
    <2>1. processOwned(n, store[n])' <=> processOwned(n, store'[n])
      BY Zenon, <1>2 DEF processOwned
    <2> QED
      BY Zenon, <1>3, <1>4, <2>1 DEF phaseOf
  <1> QED
    BY Zenon, <1>5, HaltStep

\* The steps that write records.
LEMMA InventoryRecords ==
  ASSUME ProcessInv, RemovalInv, NEW c \in Clients, NEW m \in Nodes, NEW o \in {"stop", "remove"},
         \/ StopNotRunning(c, o, m) \/ WriteNewState(c) \/ AlreadyRunning(c) \/ RecordProcess(c)
         \/ StopFinished(c) \/ SaveAddress(c) \/ CleanNodeDir(c) \/ RemoveStoppedDir(c)
  PROVE  InventoryStep
  <1>n. PICK n \in Nodes : n = arg[c]
    BY Zenon DEF ProcessInv, NetworkInv, TypeOK
  <1>0. /\ TypeOK /\ Identified /\ st[c] \in KrunkitNodeState /\ NetworkInHand /\ Knows(c) /\ Removable(c)
        /\ n = arg[c]
    BY Zenon, <1>n DEF ProcessInv, NetworkInv, TrackInv, RemovalInv, TypeOK
  <1>a. ASSUME NEW k \in Nodes, NEW s, store' = [store EXCEPT ![k] = s]
        PROVE  store'[k] = s /\ \A j \in Nodes \ {k} : store'[j] = store[j]
    BY Zenon, <1>0, <1>a DEF TypeOK
  <1>b. ASSUME NEW k \in Nodes, NEW s \in KrunkitNodeState, store[k] # None,
               store' = [store EXCEPT ![k] = s], procs' = procs
        PROVE  InventoryStep
    <2>1. store'[k] = s /\ \A j \in Nodes \ {k} : store'[j] = store[j]
      BY Zenon, <1>a, <1>b
    <2>2. store'[k] # None
      BY Zenon, <1>b, <2>1, NoneAssumption
    <2> QED
      BY Zenon, <1>b, <2>1, <2>2, RecordStep
  <1>1. CASE StopNotRunning(c, o, m)
    <2>1. store[m] # None /\ store' = [store EXCEPT ![m] = cleared(store[m])] /\ procs' = procs
      BY Zenon, <1>1 DEF StopNotRunning, Owns
    <2>2. store[m] \in KrunkitNodeState
      BY Zenon, <1>0, <2>1 DEF TypeOK
    <2>3. cleared(store[m]) \in KrunkitNodeState
      BY ZenonT(30), <2>2, ClearedType
    <2> QED
      BY Zenon, <1>b, <2>1, <2>3
  <1>2. CASE WriteNewState(c)
    <2>1. PICK s : s = [NoNodeState EXCEPT !.octet = netfile[NetOf[arg[c]]]]
      BY Zenon
    <2>2. pc[c] = "dir" /\ store' = [store EXCEPT ![n] = s] /\ procs' = procs
      BY Zenon, <1>n, <1>2, <2>1 DEF WriteNewState, At, host
    <2>3. s.pid = 0
      BY <2>1 DEF NoNodeState
    <2>4. store[n] = None
      BY Zenon, <1>0, <2>2 DEF Knows
    <2> QED
      BY Zenon, <1>a, <2>2, <2>3, <2>4, RecordStep
  <1>3. CASE AlreadyRunning(c)
    <2>1. PICK s : s = [adopted(n, st[c]) EXCEPT !.status = "running"]
      BY Zenon
    <2>2. pc[c] = "start" /\ store' = [store EXCEPT ![n] = s] /\ procs' = procs
      BY Zenon, <1>n, <1>3, <2>1 DEF AlreadyRunning, At, host
    <2>3. store[n] # None
      BY Zenon, <1>0, <2>2 DEF NetworkInHand
    <2>4. s \in KrunkitNodeState
      <3>1. adopted(n, st[c]) \in KrunkitNodeState
        BY Zenon, <1>0, AdoptedType
      <3> QED
        BY Zenon, <2>1, <3>1 DEF KrunkitNodeState
    <2> QED
      BY Zenon, <1>b, <2>2, <2>3, <2>4
  <1>4. CASE RecordProcess(c)
    <2>1. pc[c] = "spawned" /\ store' = [store EXCEPT ![n] = st[c]] /\ procs' = procs
      BY Zenon, <1>n, <1>4 DEF RecordProcess, At, host
    <2>2. store[n] # None
      BY Zenon, <1>0, <2>1 DEF NetworkInHand
    <2> QED
      BY Zenon, <1>0, <1>b, <2>1, <2>2
  <1>5. CASE StopFinished(c)
    <2>1. PICK s : s = [cleared(st[c]) EXCEPT !.ip = 0]
      BY Zenon
    <2>2. pc[c] = "stopping" /\ store' = [store EXCEPT ![n] = s] /\ procs' = procs
      BY Zenon, <1>n, <1>5, <2>1 DEF StopFinished, At
    <2>3. store[n] # None
      BY Zenon, <1>0, <2>2 DEF NetworkInHand
    <2>4. s \in KrunkitNodeState
      BY Zenon, <1>0, <2>1, ClearedType
    <2> QED
      BY ZenonT(30), <1>b, <2>2, <2>3, <2>4
  <1>6. CASE SaveAddress(c)
    <2>1. procs' = procs
      BY Zenon, <1>6 DEF SaveAddress, host
    <2>2. PICK s : s = [store[n] EXCEPT !.ip = addr[c]]
      BY Zenon
    <2>3. store' = store \/ (store[n] # None /\ store' = [store EXCEPT ![n] = s])
      BY Zenon, <1>n, <1>6, <2>2 DEF SaveAddress
    <2>4. store[n] # None => s \in KrunkitNodeState
      <3>1. addr[c] \in BootIDs /\ (store[n] # None => store[n] \in KrunkitNodeState)
        BY ZenonT(30), <1>0 DEF TypeOK
      <3> QED
        BY Zenon, <2>2, <3>1 DEF KrunkitNodeState
    <2> QED
      BY Zenon, <1>b, <2>1, <2>3, <2>4, StillStep
  <1>7. CASE CleanNodeDir(c) \/ RemoveStoppedDir(c)
    <2>1. /\ pc[c] \in {"clean", "rmdir"} /\ procs' = procs
          /\ store' = store \/ store' = [store EXCEPT ![n] = None]
      BY Zenon, <1>n, <1>7 DEF CleanNodeDir, RemoveStoppedDir, RemoveNodeDir, At, host
    <2>2. Gone(n)
      BY Zenon, <1>0, <2>1 DEF Removable
    <2> QED
      BY Zenon, <1>a, <2>1, <2>2, RecordStep, StillStep
  <1> QED
    BY Zenon, <1>1, <1>2, <1>3, <1>4, <1>5, <1>6, <1>7

\* The steps that change the process table.
LEMMA InventoryProcs ==
  ASSUME ProcessInv,
         \/ \E c \in Clients : Spawn(c) \/ SignalProcess(c) \/ TerminateStarted(c)
         \/ \E p \in Pids : ProcessExit(p) \/ OtherProcess(p) \/ GuestReport(p)
         \/ Tick \/ Reboot \/ UNCHANGED vars
  PROVE  InventoryStep
  <1>0. TypeOK /\ StoresOwn /\ NetworkInHand
    BY Zenon DEF ProcessInv, NetworkInv, Identified
  <1>a. ASSUME UNCHANGED store, \A p \in Pids : procs'[p] = procs[p] \/ procs'[p] = None \/ procs'[p].node = 0
        PROVE  InventoryStep
    <2>1. ASSUME NEW n \in Nodes
          PROVE  phaseOf(n)' = phaseOf(n) \/ (phaseOf(n) = "running" /\ phaseOf(n)' = "stopped")
      <3>1. \A p \in Pids : procs'[p] = procs[p] \/ procs'[p] = None \/ procs'[p].node # n
        BY Zenon, <1>a, ConstantsAssumption
      <3> QED
        BY Zenon, <1>0, <1>a, <3>1, PhaseOfProcs
    <2> QED
      BY Zenon, <2>1, HaltStep
  <1>1. ASSUME NEW c \in Clients, Spawn(c) PROVE InventoryStep
    <2>n. PICK n \in Nodes : n = arg[c]
      BY Zenon, <1>0 DEF TypeOK
    <2>1. pc[c] = "prep" /\ UNCHANGED store
      BY Zenon, <1>1 DEF Spawn, At, disk
    <2>2. PICK p \in Pids : procs[p] = None
                            /\ procs' = [procs EXCEPT ![p] = [node |-> n, start |-> clock, boot |-> boots]]
      BY Zenon, <2>n, <1>1 DEF Spawn
    <2>3. [node |-> n, start |-> clock, boot |-> boots].node = n
      OBVIOUS
    <2>4. \A q \in Pids : \/ procs'[q] = procs[q]
                          \/ procs'[q].node = n /\ procs[q] = None
      BY Zenon, <1>0, <2>2, <2>3 DEF TypeOK
    <2>5. ASSUME NEW m \in Nodes \ {n} PROVE phaseOf(m)' = phaseOf(m)
      <3>1. \A q \in Pids : procs'[q] = procs[q] \/ procs'[q] = None \/ procs'[q].node # m
        BY Zenon, <2>4, <2>5
      <3> QED
        BY Zenon, <1>0, <2>1, <2>4, <3>1, PhaseOfProcs
    <2>6. store[n] # None /\ store'[n] # None
      BY Zenon, <1>0, <2>n, <2>1 DEF NetworkInHand
    <2> QED
      BY Zenon, <2>5, <2>6, PhaseValues, OneVMStep
  <1>2. ASSUME NEW c \in Clients, SignalProcess(c) \/ TerminateStarted(c) PROVE InventoryStep
    <2>1. /\ UNCHANGED store
          /\ procs' = procs \/ procs' = [procs EXCEPT ![st[c].pid] = None]
      BY Zenon, <1>2 DEF SignalProcess, TerminateStarted, disk
    <2>2. \A p \in Pids : procs'[p] = procs[p] \/ procs'[p] = None
      BY Zenon, <1>0, <2>1 DEF TypeOK
    <2> QED
      BY Zenon, <1>a, <2>1, <2>2
  <1>3. CASE Reboot
    <2>1. UNCHANGED store /\ \A p \in Pids : procs'[p] = None
      BY Zenon, <1>3 DEF Reboot, disk
    <2> QED
      BY Zenon, <1>a, <2>1
  <1>4. CASE (\E p \in Pids : ProcessExit(p) \/ OtherProcess(p) \/ GuestReport(p)) \/ Tick \/ UNCHANGED vars
    BY Zenon, <1>0, <1>4, <1>a, HostProcs
  <1> QED
    BY Zenon, <1>1, <1>2, <1>3, <1>4

\* The steps that change neither.
LEMMA InventoryRest ==
  ASSUME NEW c \in Clients, NEW n \in Nodes, NEW o \in {"stop", "remove"},
         \/ RunDetached(c, n) \/ Start(c, n) \/ Exec(c, n) \/ StopRunning(c, o, n)
         \/ KillClient(c) \/ MakeNodeDir(c) \/ PrepareBoot(c) \/ Started(c) \/ FailEarly(c)
         \/ removeUnusedNetwork(c) \/ StopStuck(c) \/ StopReturns(c) \/ ResolveAddress(c) \/ ExecFails(c)
  PROVE  InventoryStep
  <1>1. UNCHANGED store /\ UNCHANGED procs
    BY ZenonT(30) DEF RunDetached, Start, Exec, StopRunning, KillClient, MakeNodeDir, PrepareBoot, Started,
         FailEarly, removeUnusedNetwork, StopStuck, StopReturns, ResolveAddress, ExecFails, disk, host
  <1> QED
    BY Zenon, <1>1, StillStep

\* Unless a VM outlives SIGKILL, the store implements the inventory whatever is killed,
\* fails or reboots: a record is created before its VM boots and is removed only once
\* the VM it names does not run.
THEOREM StoreImplementsInventory ==
  ASSUME MayStick = FALSE
  PROVE  Spec => ImplementsInventory
  <1>1. Init => ProcessInv /\ RemovalInv /\ Inventory!Init
    <2> SUFFICES ASSUME Init PROVE ProcessInv /\ RemovalInv /\ Inventory!Init
      BY Zenon
    <2>1. \A c \in Clients : pc[c] = "idle"
      BY Zenon DEF Init
    <2>2. RemovalInv
      BY Zenon, <2>1 DEF RemovalInv, Removable
    <2>3. \A n \in Nodes : phaseOf(n) \in {"absent", "running"}
      <3>1. PICK pid \in [Legacy -> Pids], oct \in [NetIDs -> Octets \cup {None}] :
              /\ \A m, n \in Legacy : pid[m] = pid[n] => m = n
              /\ store = [n \in Nodes |-> IF n \in Legacy THEN LegacyState(pid[n], oct[NetOf[n]]) ELSE None]
              /\ procs = [p \in Pids |-> IF \E n \in Legacy : pid[n] = p
                            THEN [node |-> CHOOSE n \in Legacy : pid[n] = p, start |-> 1, boot |-> 1]
                            ELSE None]
        BY SMTT(30) DEF Init
      <3>2. ASSUME NEW n \in Nodes, n \in Legacy PROVE processOwned(n, store[n])
        <4>1. store[n] = LegacyState(pid[n], oct[NetOf[n]])
          BY Zenon, <3>1, <3>2
        <4>2. store[n].pid = pid[n] /\ store[n].start = 0
          BY <4>1 DEF LegacyState
        <4>3. pid[n] \in Pids /\ pid[n] # 0
          BY Zenon, <3>1, <3>2, ConstantsAssumption
        <4>4. (CHOOSE k \in Legacy : pid[k] = pid[n]) = n
          BY Zenon, <3>1, <3>2
        <4>5. procs[pid[n]] = [node |-> n, start |-> 1, boot |-> 1]
          BY Zenon, <3>1, <3>2, <4>3, <4>4
        <4>6. procs[pid[n]] \in Process \cup {None} /\ procs[pid[n]].node = n
          BY <4>3, <4>5, InitTypes DEF TypeOK
        <4>7. procs[pid[n]] # None
          <5>1. 1 \in Seconds /\ 1 \in BootIDs
            BY ConstantsAssumption DEF Seconds, BootIDs
          <5>2. [node |-> n, start |-> 1, boot |-> 1] \in Process
            BY Zenon, <5>1 DEF Process
          <5> QED
            BY Zenon, <4>5, <5>2, NoneAssumption
        <4> QED
          BY Zenon, <4>2, <4>3, <4>6, <4>7 DEF processOwned
      <3>3. \A n \in Nodes : n \notin Legacy => store[n] = None
        BY Zenon, <3>1
      <3> QED
        BY Zenon, <3>2, <3>3 DEF phaseOf
    <2>4. Inventory!Init
      BY Zenon, <2>3 DEF Inventory!Init
    <2> QED
      BY Zenon, <2>2, <2>4, InitProcesses
  <1>2. ProcessInv /\ RemovalInv /\ [Next]_vars => (ProcessInv /\ RemovalInv)'
    BY Zenon, ProcessStep, RemovalStep
  <1>3. ProcessInv /\ RemovalInv /\ [Next]_vars => [Inventory!Next]_phases
    <2> SUFFICES ASSUME ProcessInv, RemovalInv, [Next]_vars PROVE InventoryStep
      BY Zenon DEF InventoryStep
    <2>1. CASE Next
      BY ZenonT(30), <2>1, StepCases, ListHalts, InventoryRecords, InventoryProcs, InventoryRest, SomeNodeType
    <2> QED
      BY Zenon, <2>1, InventoryProcs
  <1> QED
    BY <1>1, <1>2, <1>3, PTL DEF Spec, ImplementsInventory, Inventory!Spec, phases

=============================================================================
