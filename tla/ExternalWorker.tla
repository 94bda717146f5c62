--------------------------- MODULE ExternalWorker ---------------------------
(***************************************************************************)
(* External workers (pkg/cluster/external_worker*.go): a local VM that     *)
(* joins a K3s cluster kiac does not own.  Commands of several kiac        *)
(* processes on one worker name, serialised by the inventory lock; each    *)
(* join draws a fresh owner id, which names its VM and its remote Node.    *)
(* A process may be killed between any two steps, a VM may exit or reboot, *)
(* and the operator of the remote cluster changes Nodes at any time.       *)
(***************************************************************************)
EXTENDS Naturals

CONSTANTS
  Procs,
  MaxOwners,     \* bound on joins
  MaxBoots,      \* bound on the boots of one VM
  MaxUIDs,       \* bound on the registrations of one Node name
  Faults         \* the host operations that may fail: "write" (the inventory),
                 \* "remove" (a VM), "clean" (RunDetached's own clean-up)

ASSUME WorkerAssumption ==
  /\ MaxOwners \in Nat /\ MaxBoots \in Nat \ {0} /\ MaxUIDs \in Nat
  /\ Faults \subseteq {"write", "remove", "clean"}

Owners == 1 .. MaxOwners
Boots == 0 .. MaxBoots
UIDs == 0 .. MaxUIDs       \* 0: no Node UID

VARIABLES
  lock,          \* the process, if any, that holds the flock of ~/.kiac/workers
  pc, op,        \* per process: the next step and the command
  st,            \* per process: the ExternalWorkerState it works on
  created,       \* per process: Join's flag
  obs,           \* per process: the observation it accepted
  inv,           \* the inventory file NAME.json
  used,          \* owner ids drawn so far
  vm, boot,      \* per owner: its VM and that VM's boot count
  files, unit, agent,   \* in the guest: private files, enabled units, running agent
  node, reg,     \* the remote Node of that name, and how often it was registered
  boot0,         \* ghost: the boot a command found or made
  left           \* ghost: owners whose VM a failed RunDetached did not clear away

cmd == <<lock, pc, op, st, created, obs, boot0>>
guest == <<files, unit, agent>>
remote == <<node, reg>>
vars == <<cmd, inv, used, vm, boot, guest, remote, left>>

Phases == {"creating", "joining", "ready"}
State == [owner : Owners, phase : Phases, uid : UIDs]
None == [owner |-> 0, phase |-> "none", uid |-> 0]
Node == [uid : UIDs \ {0}, boot : Boots, ready : BOOLEAN, tainted : BOOLEAN]
NoNode == [uid |-> 0, boot |-> 0, ready |-> FALSE, tainted |-> FALSE]
NoObs == [uid |-> 0, boot |-> 0]

Steps == {"idle", "create", "provision", "transfer", "joining", "agent", "wait",
          "ready", "undo", "forget", "boot", "ssh", "halt", "remove"}

TypeOK ==
  /\ lock \subseteq Procs
  /\ pc \in [Procs -> Steps]
  /\ op \in [Procs -> {"join", "start", "stop", "delete"}]
  /\ st \in [Procs -> State \cup {None}]
  /\ created \in [Procs -> BOOLEAN]
  /\ obs \in [Procs -> [uid : UIDs, boot : Boots]] /\ boot0 \in [Procs -> Boots]
  /\ inv \in State \cup {None}
  /\ inv.phase = "ready" <=> inv.uid # 0      \* what m.read accepts
  /\ used \subseteq Owners /\ left \subseteq Owners
  /\ vm \in [Owners -> {"absent", "stopped", "running"}]
  /\ boot \in [Owners -> Boots]
  /\ files \in [Owners -> BOOLEAN] /\ unit \in [Owners -> BOOLEAN]
  /\ agent \in [Owners -> BOOLEAN]
  /\ node \in [Owners -> Node \cup {NoNode}] /\ reg \in [Owners -> UIDs]

Init ==
  /\ lock = {}
  /\ pc = [p \in Procs |-> "idle"] /\ op = [p \in Procs |-> "join"]
  /\ st = [p \in Procs |-> None] /\ created = [p \in Procs |-> FALSE]
  /\ obs = [p \in Procs |-> NoObs] /\ boot0 = [p \in Procs |-> 0]
  /\ inv = None /\ used = {} /\ left = {}
  /\ vm = [o \in Owners |-> "absent"] /\ boot = [o \in Owners |-> 0]
  /\ files = [o \in Owners |-> FALSE] /\ unit = [o \in Owners |-> FALSE]
  /\ agent = [o \in Owners |-> FALSE]
  /\ node = [o \in Owners |-> NoNode] /\ reg = [o \in Owners |-> 0]

-----------------------------------------------------------------------------
(* Steps of one process.                                                   *)

At(p, l) == pc[p] = l
Goto(p, l) == pc' = [pc EXCEPT ![p] = l]

\* The deferred unlock, or the flock a dead process drops.
Return(p) ==
  /\ lock' = {}
  /\ pc' = [pc EXCEPT ![p] = "idle"]
  /\ st' = [st EXCEPT ![p] = None]
  /\ created' = [created EXCEPT ![p] = FALSE]
  /\ obs' = [obs EXCEPT ![p] = NoObs]
  /\ boot0' = [boot0 EXCEPT ![p] = 0]
  /\ UNCHANGED op

\* An error inside a command: Join runs its deferred clean-up.
Fail(p) ==
  IF op[p] = "join"
    THEN Goto(p, "undo") /\ UNCHANGED <<lock, op, st, created, obs, boot0>>
    ELSE Return(p)

\* m.write: the file is replaced as a whole, or not at all.
Write(s) == inv' = s
WriteFails == "write" \in Faults /\ UNCHANGED inv

\* The VM's disk goes with it: what was installed in the guest is gone.  Its remote
\* Node stays behind, and leaves the model: no other VM ever bears its name.
Discard(o) ==
  /\ vm' = [vm EXCEPT ![o] = "absent"] /\ boot' = [boot EXCEPT ![o] = 0]
  /\ node' = [node EXCEPT ![o] = NoNode] /\ reg' = [reg EXCEPT ![o] = 0]
  /\ files' = [files EXCEPT ![o] = FALSE]
  /\ unit' = [unit EXCEPT ![o] = FALSE]
  /\ agent' = [agent EXCEPT ![o] = FALSE]

\* Enabled units start with the guest.
BootVM(o) ==
  /\ vm' = [vm EXCEPT ![o] = "running"]
  /\ boot' = [boot EXCEPT ![o] = @ + 1]
  /\ agent' = [agent EXCEPT ![o] = unit[o]]

Halted(o) ==
  /\ vm' = [vm EXCEPT ![o] = "stopped"]
  /\ agent' = [agent EXCEPT ![o] = FALSE]

Acquire(p, c, l, s) ==
  /\ lock = {} /\ At(p, "idle")
  /\ lock' = {p}
  /\ op' = [op EXCEPT ![p] = c]
  /\ st' = [st EXCEPT ![p] = s]
  /\ Goto(p, l)
  /\ UNCHANGED <<created, obs, boot0>>

-----------------------------------------------------------------------------
(* Join.                                                                   *)

\* Faulty variant: the inventory is first written when the agent is about to start.
Join_unrecorded(p) ==
  \E o \in Owners \ used :
    /\ inv = None
    /\ Acquire(p, "join", "create", [owner |-> o, phase |-> "creating", uid |-> 0])
    /\ used' = used \cup {o}
    /\ UNCHANGED <<inv, vm, boot, guest, remote, left>>

\* Join up to the first write of the inventory; with an inventory present, or
\* when a preparation fails, it returns an error and has changed nothing.
Join(p) ==
  \E o \in Owners \ used :
    LET s == [owner |-> o, phase |-> "creating", uid |-> 0]
    IN /\ inv = None
       /\ Acquire(p, "join", "create", s)
       /\ Write(s)
       /\ used' = used \cup {o}
       /\ UNCHANGED <<vm, boot, guest, remote, left>>

\* RunDetached boots the VM, or undoes what it did; "clean": its RemoveAll,
\* whose error it ignores, leaves the stopped VM's directory behind.
RunDetached(p) ==
  LET o == st[p].owner
  IN /\ At(p, "create")
     /\ \/ /\ BootVM(o)
           /\ created' = [created EXCEPT ![p] = TRUE]
           /\ boot0' = [boot0 EXCEPT ![p] = 1]
           /\ Goto(p, "provision")
           /\ UNCHANGED <<lock, op, st, obs, files, unit, left>>
        \/ Fail(p) /\ UNCHANGED <<vm, boot, guest, left>>
        \/ /\ "clean" \in Faults
           /\ vm' = [vm EXCEPT ![o] = "stopped"] /\ left' = left \cup {o}
           /\ Fail(p)
           /\ UNCHANGED <<boot, guest>>
     /\ UNCHANGED <<inv, used, remote>>

\* WaitReady, the management address checks, the K3s binary and packages.
Provision(p) ==
  /\ At(p, "provision")
  /\ \/ /\ vm[st[p].owner] = "running"
        /\ Goto(p, "transfer")
        /\ UNCHANGED <<lock, op, st, created, obs, boot0>>
     \/ Fail(p)
  /\ UNCHANGED <<inv, used, vm, boot, guest, remote, left>>

Transfer(p) ==
  LET o == st[p].owner
  IN /\ At(p, "transfer")
     /\ \/ /\ vm[o] = "running"
           /\ files' = [files EXCEPT ![o] = TRUE]
           /\ Goto(p, "joining")
           /\ UNCHANGED <<lock, op, st, created, obs, boot0>>
        \/ Fail(p) /\ UNCHANGED files
     /\ UNCHANGED <<inv, used, vm, boot, unit, agent, remote, left>>

\* Faulty variant: the phase is only set in memory.
RecordJoining_memory(p) ==
  /\ At(p, "joining")
  /\ st' = [st EXCEPT ![p].phase = "joining"]
  /\ Goto(p, "agent")
  /\ UNCHANGED <<lock, op, created, obs, boot0, inv, used, vm, boot, guest, remote, left>>

\* installExternalWorker sets the phase in memory, then writes it.
RecordJoining(p) ==
  LET s == [st[p] EXCEPT !.phase = "joining"]
  IN /\ At(p, "joining")
     /\ st' = [st EXCEPT ![p] = s]
     /\ \/ Write(s) /\ Goto(p, "agent")
        \/ WriteFails /\ Goto(p, "undo")
     /\ UNCHANGED <<lock, op, created, obs, boot0, used, vm, boot, guest, remote, left>>

\* The script installs and enables the units and starts them; a failure or a
\* timeout leaves any prefix of that done.
startExternalWorkerAgent(p) ==
  LET o == st[p].owner
  IN /\ At(p, "agent")
     /\ \/ /\ vm[o] = "running" /\ files[o]
           /\ unit' = [unit EXCEPT ![o] = TRUE]
           /\ agent' = [agent EXCEPT ![o] = TRUE]
           /\ \/ Goto(p, "wait") /\ UNCHANGED <<lock, op, st, created, obs, boot0>>
              \/ Fail(p)
        \/ /\ vm[o] = "running" /\ files[o]
           /\ unit' = [unit EXCEPT ![o] = TRUE]
           /\ Fail(p) /\ UNCHANGED agent
        \/ Fail(p) /\ UNCHANGED <<unit, agent>>
     /\ UNCHANGED <<inv, used, vm, boot, files, remote, left>>

\* Faulty variant: a Ready condition from before a reboot counts.
accepts_anyBoot(s, n, b) ==
  /\ n # NoNode
  /\ s.uid # 0 => s.uid = n.uid
  /\ s.phase = "joining" => n.tainted
  /\ n.ready

\* observe for a worker state s, the Node n it reads and the guest's boot b.
accepts(s, n, b) ==
  /\ n # NoNode
  /\ s.uid # 0 => s.uid = n.uid
  /\ s.phase = "joining" => n.tainted
  /\ n.ready /\ n.boot = b

\* wait: an accepted observation ends it, and so does a rejected one or the deadline.
Wait(p) ==
  LET o == st[p].owner
  IN /\ At(p, "wait")
     /\ \/ /\ vm[o] = "running" /\ agent[o]
           /\ accepts(st[p], node[o], boot[o])
           /\ obs' = [obs EXCEPT ![p] = [uid |-> node[o].uid, boot |-> node[o].boot]]
           /\ st' = [st EXCEPT ![p].uid = node[o].uid, ![p].phase = "ready"]
           /\ Goto(p, "ready")
           /\ UNCHANGED <<lock, op, created, boot0>>
        \/ Fail(p)
     /\ UNCHANGED <<inv, used, vm, boot, guest, remote, left>>

RecordReady(p) ==
  /\ At(p, "ready")
  /\ \/ Write(st[p]) /\ Return(p)
     \/ WriteFails /\ Fail(p)
  /\ UNCHANGED <<used, vm, boot, guest, remote, left>>

\* Faulty variant: a failed join always removes its VM.
Undo_always(p) ==
  LET o == st[p].owner
  IN /\ At(p, "undo")
     /\ Discard(o)
     /\ Goto(p, "forget")
     /\ UNCHANGED <<lock, op, st, created, obs, boot0, inv, used, left>>

\* Join's deferred function: the VM is kept once its agent may have registered,
\* and also when its ownership cannot be read or it cannot be removed.
Undo(p) ==
  LET o == st[p].owner
  IN /\ At(p, "undo")
     /\ \/ /\ st[p].phase \in {"joining", "ready"}
           /\ Return(p)
           /\ UNCHANGED <<vm, boot, guest, remote>>
        \/ /\ st[p].phase = "creating" /\ created[p]
           /\ \/ Discard(o) /\ Goto(p, "forget")
                 /\ UNCHANGED <<lock, op, st, created, obs, boot0>>
              \/ "remove" \in Faults /\ Return(p) /\ UNCHANGED <<vm, boot, guest, remote>>
              \/ "remove" \in Faults /\ Return(p) /\ Halted(o) /\ UNCHANGED <<boot, files, unit, remote>>
        \/ /\ st[p].phase = "creating" /\ ~created[p]
           /\ Goto(p, "forget")
           /\ UNCHANGED <<lock, op, st, created, obs, boot0, vm, boot, guest, remote>>
     /\ UNCHANGED <<inv, used, left>>

\* os.Remove of the inventory; Join ignores its error and Delete returns it.
Forget(p) ==
  /\ At(p, "forget")
  /\ inv' = None \/ WriteFails
  /\ Return(p)
  /\ UNCHANGED <<used, vm, boot, guest, remote, left>>

-----------------------------------------------------------------------------
(* Start, Stop and Delete.                                                 *)

\* owned: krunkit's State of the VM exists and matches the inventory.
Owned(s) == vm[s.owner] # "absent"

\* Faulty variant: only a finished join can be started.
Start_readyOnly(p) ==
  /\ inv # None /\ inv.phase = "ready" /\ Owned(inv)
  /\ Acquire(p, "start", "boot", inv)
  /\ UNCHANGED <<inv, used, vm, boot, guest, remote, left>>

\* Start reads the inventory, checks the phase and the ownership; any failure
\* returns an error and changes nothing.
Start(p) ==
  /\ inv # None /\ inv.phase \in {"ready", "joining"} /\ Owned(inv)
  /\ Acquire(p, "start", "boot", inv)
  /\ UNCHANGED <<inv, used, vm, boot, guest, remote, left>>

\* backend.Start leaves a running VM alone.
StartVM(p) ==
  LET o == st[p].owner
  IN /\ At(p, "boot")
     /\ \/ /\ \/ vm[o] = "running" /\ UNCHANGED <<vm, boot, agent>>
              \/ vm[o] = "stopped" /\ boot[o] < MaxBoots /\ BootVM(o)
           /\ boot0' = [boot0 EXCEPT ![p] = boot'[o]]
           /\ Goto(p, "ssh")
           /\ UNCHANGED <<lock, op, st, created, obs>>
        \/ Fail(p) /\ UNCHANGED <<vm, boot, agent>>
     /\ UNCHANGED <<inv, used, files, unit, remote, left>>

\* WaitReady, and the choice whether the agent has to be started.
StartReady(p) ==
  /\ At(p, "ssh")
  /\ \/ /\ vm[st[p].owner] = "running"
        /\ Goto(p, IF st[p].phase = "joining" THEN "agent" ELSE "wait")
        /\ UNCHANGED <<lock, op, st, created, obs, boot0>>
     \/ Fail(p)
  /\ UNCHANGED <<inv, used, vm, boot, guest, remote, left>>

\* localAction: Stop needs the VM; Delete also accepts that it is gone.
Stop(p) ==
  /\ inv # None /\ Owned(inv)
  /\ Acquire(p, "stop", "halt", inv)
  /\ UNCHANGED <<inv, used, vm, boot, guest, remote, left>>

StopVM(p) ==
  LET o == st[p].owner
  IN /\ At(p, "halt")
     /\ Halted(o) \/ ("remove" \in Faults /\ UNCHANGED <<vm, agent>>)
     /\ Return(p)
     /\ UNCHANGED <<inv, used, boot, files, unit, remote, left>>

Delete(p) ==
  /\ inv # None
  /\ Acquire(p, "delete", IF Owned(inv) THEN "remove" ELSE "forget", inv)
  /\ UNCHANGED <<inv, used, vm, boot, guest, remote, left>>

RemoveVM(p) ==
  LET o == st[p].owner
  IN /\ At(p, "remove")
     /\ \/ Discard(o) /\ Goto(p, "forget")
           /\ UNCHANGED <<lock, op, st, created, obs, boot0>>
        \/ "remove" \in Faults /\ Return(p) /\ UNCHANGED <<vm, boot, guest, remote>>
        \/ "remove" \in Faults /\ Return(p) /\ Halted(o) /\ UNCHANGED <<boot, files, unit, remote>>
     /\ UNCHANGED <<inv, used, left>>

-----------------------------------------------------------------------------
(* What happens around them.                                               *)

\* Killed inside RunDetached, a process may leave the VM recorded but not started.
Kill(p) ==
  /\ pc[p] # "idle"
  /\ Return(p)
  /\ \/ UNCHANGED vm
     \/ At(p, "create") /\ vm' = [vm EXCEPT ![st[p].owner] = "stopped"]
  /\ UNCHANGED <<inv, used, boot, guest, remote, left>>

\* The VM exits, by itself or with the host, or its guest reboots.
VMExit(o) ==
  /\ vm[o] = "running" /\ boot[o] < MaxBoots
  /\ \/ Halted(o) /\ UNCHANGED boot
     \/ BootVM(o)
  /\ UNCHANGED <<cmd, inv, used, files, unit, remote, left>>

\* The agent registers its Node with the taint of its configuration.
Register(o) ==
  /\ agent[o] /\ node[o] = NoNode /\ reg[o] < MaxUIDs
  /\ reg' = [reg EXCEPT ![o] = @ + 1]
  /\ node' = [node EXCEPT ![o] = [uid |-> reg[o] + 1, boot |-> boot[o],
                                  ready |-> FALSE, tainted |-> TRUE]]
  /\ UNCHANGED <<cmd, inv, used, vm, boot, guest, left>>

\* The kubelet reports its boot and readiness.
KubeletReport(o) ==
  /\ agent[o] /\ node[o] # NoNode
  /\ node' = [node EXCEPT ![o].boot = boot[o], ![o].ready = TRUE]
  /\ UNCHANGED <<cmd, inv, used, vm, boot, guest, reg, left>>

\* The node controller notices a silent kubelet.
NodeLost(o) ==
  /\ node[o].ready /\ ~agent[o]
  /\ node' = [node EXCEPT ![o].ready = FALSE]
  /\ UNCHANGED <<cmd, inv, used, vm, boot, guest, reg, left>>

\* The operator deletes the Node, or removes its taint after a successful join.
Operator(o) ==
  /\ node[o] # NoNode
  /\ \/ reg[o] < MaxUIDs /\ node' = [node EXCEPT ![o] = NoNode]
     \/ /\ inv.owner = o /\ inv.phase = "ready"
        /\ node' = [node EXCEPT ![o].tainted = FALSE]
  /\ UNCHANGED <<cmd, inv, used, vm, boot, guest, reg, left>>

Step(p) ==
  \/ RunDetached(p) \/ Provision(p) \/ Transfer(p) \/ RecordJoining(p)
  \/ startExternalWorkerAgent(p) \/ Wait(p) \/ RecordReady(p) \/ Undo(p) \/ Forget(p)
  \/ StartVM(p) \/ StartReady(p) \/ StopVM(p) \/ RemoveVM(p)

Next ==
  \/ \E p \in Procs : Join(p) \/ Start(p) \/ Stop(p) \/ Delete(p) \/ Step(p) \/ Kill(p)
  \/ \E o \in Owners :
       VMExit(o) \/ Register(o) \/ KubeletReport(o) \/ NodeLost(o) \/ Operator(o)

Spec == Init /\ [][Next]_vars

\* The operator retries start worker, and the remote cluster and its network
\* answer often enough: what has to succeed is not always made to fail.  Only the
\* process that holds the lock has a step to take.
FairSpec ==
  /\ Spec
  /\ WF_vars(\E p \in Procs : Step(p))
  /\ SF_vars(\E p \in Procs : Start(p))
  /\ SF_vars(\E p \in Procs : StartVM(p) /\ pc'[p] = "ssh")
  /\ SF_vars(\E p \in Procs : StartReady(p) /\ pc'[p] # "idle")
  /\ SF_vars(\E p \in Procs : startExternalWorkerAgent(p) /\ pc'[p] = "wait")
  /\ SF_vars(\E p \in Procs : Wait(p) /\ pc'[p] = "ready")
  /\ SF_vars(\E p \in Procs : RecordReady(p) /\ inv' = st[p])
  /\ \A o \in Owners : WF_vars(Register(o)) /\ WF_vars(KubeletReport(o))

-----------------------------------------------------------------------------
(* Properties.                                                             *)

\* Every worker VM is in the inventory that kiac delete worker works from, at
\* every moment of every command, killed ones included, except one that RunDetached
\* failed to boot and then failed to clear away.
EveryVMHasInventory == \A o \in Owners \ left : vm[o] # "absent" => inv.owner = o

\* A guest whose agent may run, now or after its next boot, is in phase joining
\* or ready: start worker takes it up again, and no join removes it.
StartedIsKept ==
  \A o \in Owners :
    unit[o] \/ agent[o] => inv.owner = o /\ inv.phase \in {"joining", "ready"}

\* A remote Node disappears locally only by kiac delete worker: while its VM's
\* agent has registered, no other command discards the VM, and none replaces the
\* Node UID a successful join recorded (a Node that was registered again is refused
\* by every later start).
OnlyDeleteDiscards ==
  [][/\ \A o \in Owners :
          node[o] # NoNode /\ vm[o] # "absent" /\ vm'[o] = "absent"
            => \E p \in Procs : op[p] = "delete" /\ pc[p] = "remove" /\ st[p].owner = o
     /\ inv.phase = "ready" /\ inv'.owner = inv.owner
          => inv'.phase = "ready" /\ inv'.uid = inv.uid]_vars

\* A command that accepted readiness saw the kubelet report a boot no older than
\* the one the command found or started, whatever Ready said before.
ReadyOfThisBoot ==
  \A p \in Procs : pc[p] = "ready" => obs[p].boot >= boot0[p]

\* start worker retries that same join: an incomplete join in phase joining is
\* finished, unless it is deleted or its VM uses up the model's boots.
JoinFinishes ==
  \A o \in Owners :
    inv.owner = o /\ inv.phase = "joining"
      ~> inv.phase = "ready" \/ vm[o] = "absent" \/ boot[o] = MaxBoots
=============================================================================
