-------------------------- MODULE ClusterLifecycle --------------------------
(***************************************************************************)
(* Creation, deletion, stop and start of clusters by kiac processes        *)
(* (pkg/cluster: Create, CreateK3s, the GPU variants, Delete, StopNode,    *)
(* StartNode) on the routed runtime (pkg/runtime/routed.go), which merges  *)
(* the inventories of apple/container and krunkit and finds a cluster's    *)
(* nodes by the prefix of their names.  A cluster's name is the sequence   *)
(* of its dash-separated parts; a node's name adds its role.               *)
(***************************************************************************)
EXTENDS Naturals, Sequences

CONSTANTS
  Clusters,            \* cluster names, sequences of parts
  Roles,               \* "control-plane" and the workers
  Kinds,               \* creation paths that each cluster is tried with: "kubeadm", "k3s",
                       \* and for GPUs "gpu-kubeadm", "gpu-k3s"
  Procs,               \* kiac processes
  MaxFaults,           \* bound on failing steps
  MaxReboots,          \* bound on reboots, after which apple/container is not running
  None

AllKinds == {"kubeadm", "k3s", "gpu-kubeadm", "gpu-k3s"}

ASSUME LifecycleAssumption ==
  /\ Clusters \subseteq Seq(STRING) /\ None \notin Clusters
  /\ "control-plane" \in Roles
  /\ Kinds \in [Clusters -> SUBSET AllKinds]
  /\ MaxFaults \in Nat /\ MaxReboots \in Nat

Backends == {"container", "krunkit"}
IsGPU(k) == k \in {"gpu-kubeadm", "gpu-k3s"}
node(c, r) == Append(c, r)
ControlPlane(c) == node(c, "control-plane")
NodesOf(c) == {node(c, r) : r \in Roles}
Nodes == UNION {NodesOf(c) : c \in Clusters}
clusterNameFromNode(n) == SubSeq(n, 1, Len(n) - 1)

VARIABLES
  vm,         \* per node and backend: "absent", "running" or "stopped"
  service,    \* whether the apple/container service runs
  contexts,   \* clusters with entries in the kubeconfig
  pc, op,     \* per process: its step, and its operation
  at,         \* stage of the creation path
  todo,       \* roles the stage has not booted yet
  found,      \* names that the last List returned
  own,        \* ghost: nodes this Create booted
  dirty,      \* ghost: clusters whose last Create failed in a stage that cleans up
  deleted,    \* ghost: clusters whose last operation was a Delete that succeeded
  condemned,  \* ghost: clusters a Delete was begun for and no Create since
  blind,      \* ghost: clusters that exist and that a Create did not see
  unforgotten,\* ghost: clusters whose nodes a Delete removed and whose
              \* kubeconfig entries it then did not get to drop
  faults, reboots

procs == <<pc, op, at, todo, found, own>>
ghosts == <<dirty, deleted, condemned, blind, unforgotten>>
bounds == <<faults, reboots>>
vars == <<vm, service, contexts, procs, ghosts, bounds>>

NoOp == [name |-> "none", cluster |-> None, kind |-> None, node |-> None]

-----------------------------------------------------------------------------
(* The routed runtime.                                                     *)

Exists(n, b) == vm[n][b] # "absent"

\* strings.HasPrefix(n, prefix(c)): the name goes on after the cluster's and a dash.
HasPrefix(n, c) == Len(c) < Len(n) /\ SubSeq(n, 1, Len(c)) = c

Matching == [c \in Clusters |-> {n \in Nodes : HasPrefix(n, c)}]

Rows(c, b) == {n \in Matching[c] : Exists(n, b) /\ (b = "container" => service)}

\* RoutedRuntime.List fails on a name in two backends, and without the primary
\* backend unless krunkit has a node to show.
ListFails(c) ==
  \/ Rows(c, "container") \cap Rows(c, "krunkit") # {}
  \/ ~service /\ Rows(c, "krunkit") = {}

List(c) == Rows(c, "container") \cup Rows(c, "krunkit")

\* backendFor: krunkit where it has state for the node, else apple/container.
backendFor(n) == IF Exists(n, "krunkit") THEN "krunkit" ELSE "container"

Reaches(b) == b = "krunkit" \/ service

Up(n) == vm[n][backendFor(n)] = "running" /\ Reaches(backendFor(n))

\* RunDetached of a new node: refused for a name the backend has.
CanBoot(n, b) == Reaches(b) /\ ~Exists(n, b)

Set(S, state) ==
  vm' = [n \in Nodes |->
          IF n \in S THEN [vm[n] EXCEPT ![backendFor(n)] = state] ELSE vm[n]]

\* Remove takes away the names its backends hold and can be reached for.
Removable(S) == {n \in S : Exists(n, backendFor(n)) /\ Reaches(backendFor(n))}

-----------------------------------------------------------------------------
(* The creation paths: what each stage does, on which nodes, and whether a *)
(* failure of it cleans up.  Steps whose failure is only reported (the     *)
(* label of a kubeadm cluster, observability, the gateway, the probe of    *)
(* the API server) change nothing here and are left out.                   *)

Agents == Roles \ {"control-plane"}
Boot(R) == [do |-> "boot", on |-> R, cleans |-> TRUE]
Use(R) == [do |-> "use", on |-> R, cleans |-> TRUE]
Config(cleans) == [do |-> "config", on |-> {"control-plane"}, cleans |-> cleans]

\* Work that every path shares, or that has a function of its own.
installCNI == Use({"control-plane"})
waitK3sNodes == Use({"control-plane"})
ensureK3sCNIPlugins == Use(Agents)
installEdgeProxy == Use(Roles)
installEdgeProxyK3sSystemd == Use(Roles)
provisionK3sGPUNode == Use(Roles)
provisionKubeadmGPUNode == Use(Roles)

\* Boot every VM; then readiness, node settings, kubeadm init and the joins.
KubeadmNodes == <<Boot(Roles), Use(Roles)>>

\* The CNI, then the taint, storage, metrics, kiac-lb and readiness; the edge proxy.
KubeadmAddons == <<installCNI, installEdgeProxy, Config(FALSE)>>

\* The k3s server with its CNI, and its address.
K3sServer == <<Boot({"control-plane"}), installCNI>>

\* Only then the agents, their CNI plugins and resume hooks.
K3sAgents == IF Agents = {} THEN <<>> ELSE <<Boot(Agents), ensureK3sCNIPlugins>>

\* Readiness, the label, kiac-lb; the edge proxy.
K3sAddons == <<waitK3sNodes, installEdgeProxy, Config(FALSE)>>

\* Provision the Fedora VMs, trust the registries, start the server, join the agents.
GPUK3sNodes == <<Boot(Roles), provisionK3sGPUNode>>

GPUK3sAddons == <<waitK3sNodes, installEdgeProxyK3sSystemd, Config(TRUE)>>

\* Provision, pull the images, kubeadm init and the joins.
GPUKubeadmNodes == <<Boot(Roles), provisionKubeadmGPUNode>>

GPUKubeadmAddons == <<installCNI, installEdgeProxy, Config(TRUE)>>

Stages ==
  [k \in AllKinds |->
    CASE k = "kubeadm" -> KubeadmNodes \o KubeadmAddons
      [] k = "k3s" -> K3sServer \o K3sAgents \o K3sAddons
      [] k = "gpu-k3s" -> GPUK3sNodes \o GPUK3sAddons
      [] k = "gpu-kubeadm" -> GPUKubeadmNodes \o GPUKubeadmAddons]

TypeOK ==
  /\ vm \in [Nodes -> [Backends -> {"absent", "running", "stopped"}]]
  /\ service \in BOOLEAN
  /\ contexts \subseteq Clusters
  /\ pc \in [Procs -> {"idle", "check", "preflight", "stage", "cleanupList", "cleanupRemove",
                       "list", "remove", "forget", "act"}]
  /\ \A p \in Procs : op[p].name \in {"none", "create", "delete", "stop", "start"}
  /\ \A p \in Procs : at[p] \in 0 .. (IF op[p].name = "create" THEN Len(Stages[op[p].kind]) ELSE 0)
  /\ todo \in [Procs -> SUBSET Roles]
  /\ found \in [Procs -> SUBSET Nodes] /\ own \in [Procs -> SUBSET Nodes]
  /\ dirty \subseteq Clusters /\ deleted \subseteq Clusters /\ condemned \subseteq Clusters
  /\ blind \subseteq Clusters /\ unforgotten \subseteq Clusters
  /\ faults \in 0 .. MaxFaults /\ reboots \in 0 .. MaxReboots

-----------------------------------------------------------------------------
(* Processes.                                                              *)

Goto(p, l) == pc' = [pc EXCEPT ![p] = l] /\ UNCHANGED <<op, at, todo, found, own>>

Return(p) ==
  /\ pc' = [pc EXCEPT ![p] = "idle"] /\ op' = [op EXCEPT ![p] = NoOp]
  /\ at' = [at EXCEPT ![p] = 0] /\ todo' = [todo EXCEPT ![p] = {}]
  /\ found' = [found EXCEPT ![p] = {}] /\ own' = [own EXCEPT ![p] = {}]

Enter(p, i) ==
  LET stage == Stages[op[p].kind][i]
  IN  /\ pc' = [pc EXCEPT ![p] = "stage"] /\ at' = [at EXCEPT ![p] = i]
      /\ todo' = [todo EXCEPT ![p] = IF stage.do = "boot" THEN stage.on ELSE {}]

Stage(p) == Stages[op[p].kind][at[p]]

Fault == faults < MaxFaults /\ faults' = faults + 1 /\ UNCHANGED reboots

\* Nothing in kiac keeps two processes apart.  A Create is assumed not to run beside
\* another Create or a Delete of its cluster; everything else may overlap.
Compatible(o, q) ==
  "create" \in {o, q} => {o, q} \cap {"stop", "start"} # {}

Begin(p, o, l) ==
  /\ pc[p] = "idle"
  /\ \A q \in Procs : op[q].cluster = o.cluster => Compatible(o.name, op[q].name)
  /\ pc' = [pc EXCEPT ![p] = l] /\ op' = [op EXCEPT ![p] = o]
  /\ UNCHANGED <<vm, service, contexts, at, todo, found, own, bounds>>

Create(p, c, k) ==
  /\ Begin(p, [name |-> "create", cluster |-> c, kind |-> k, node |-> None], "check")
  /\ UNCHANGED ghosts

\* The configuration is refused: a bad name, address family, mount, port, driver...
RefuseConfig(p) ==
  /\ pc[p] = "check" /\ Return(p)
  /\ UNCHANGED <<vm, service, contexts, ghosts, bounds>>

\* ensureGPUClusterAbsent asks krunkit first and heeds its error and its answer.
ensureGPUClusterAbsent(c) == Rows(c, "krunkit") = {} /\ Rows(c, "container") = {}

NodesGone(c) == \A n \in NodesOf(c), b \in Backends : ~Exists(n, b)
Hidden(c) == ~service /\ \E n \in Matching[c] : Exists(n, "container")

\* Go on with a Create when its cluster is found absent, else return.
ProceedIf(p, absent) ==
  LET c == {op[p].cluster}
  IN  /\ pc[p] = "check"
      /\ \/ /\ absent /\ Goto(p, "preflight")
            /\ dirty' = dirty \ c /\ deleted' = deleted \ c /\ condemned' = condemned \ c
            /\ blind' = (blind \ {d \in c : NodesGone(d) /\ d \notin contexts}) \cup {d \in c : Hidden(d)}
            /\ UNCHANGED unforgotten
         \/ ~absent /\ Return(p) /\ UNCHANGED ghosts
      /\ UNCHANGED <<vm, service, contexts, bounds>>

\* Faulty variant: an existing cluster is not noticed.
CheckAbsent_never(p) == ProceedIf(p, TRUE)

\* Faulty variant: the GPU paths look for krunkit nodes only.
CheckAbsent_krunkit(p) ==
  LET c == op[p].cluster
  IN  ProceedIf(p, IF IsGPU(op[p].kind) THEN Rows(c, "krunkit") = {}
                   ELSE ListFails(c) \/ List(c) = {})

\* The check for an existing cluster; an error of List lets Create go on.
CheckAbsent(p) ==
  LET c == op[p].cluster
  IN  ProceedIf(p, IF IsGPU(op[p].kind) THEN ensureGPUClusterAbsent(c)
                   ELSE ListFails(c) \/ List(c) = {})

\* preflight starts apple/container; krunkit.Preflight does not.  Then the image and
\* the binaries.  Nothing is cleaned up here.
Preflight(p) ==
  /\ pc[p] = "preflight"
  /\ \/ /\ service' = (service \/ ~IsGPU(op[p].kind))
        /\ Enter(p, 1) /\ UNCHANGED <<op, found, own, bounds>>
     \/ Fault /\ Return(p) /\ service' \in {service, service \/ ~IsGPU(op[p].kind)}
  /\ UNCHANGED <<vm, contexts, ghosts>>

\* Faulty variant: a stage that fails is reported without a clean-up.
Fails_keeps(p) ==
  /\ Return(p)
  /\ dirty' = IF Stage(p).cleans THEN dirty \cup {op[p].cluster} ELSE dirty
  /\ UNCHANGED <<deleted, condemned, blind, unforgotten>>

\* A stage fails: the error is returned, after cleanupOnFailure where the stage has it.
Fails(p) ==
  /\ IF Stage(p).cleans THEN Goto(p, "cleanupList") ELSE Return(p)
  /\ dirty' = IF Stage(p).cleans THEN dirty \cup {op[p].cluster} ELSE dirty
  /\ UNCHANGED <<deleted, condemned, blind, unforgotten>>

\* One RunDetached of a boot stage, the control plane first.
BootNode(p, r) ==
  LET n == node(op[p].cluster, r)
      b == IF IsGPU(op[p].kind) THEN "krunkit" ELSE backendFor(n)
  IN  /\ pc[p] = "stage" /\ Stage(p).do = "boot" /\ r \in todo[p]
      /\ "control-plane" \in todo[p] => r = "control-plane"
      /\ \/ /\ CanBoot(n, b)
            /\ vm' = [vm EXCEPT ![n][b] = "running"]
            /\ own' = [own EXCEPT ![p] = @ \cup {n}]
            /\ IF todo[p] = {r} THEN Enter(p, at[p] + 1)
               ELSE todo' = [todo EXCEPT ![p] = @ \ {r}] /\ UNCHANGED <<pc, at>>
            /\ UNCHANGED <<op, found, ghosts, bounds>>
         \/ /\ CanBoot(n, b) /\ Fault
            /\ vm' \in {vm, [vm EXCEPT ![n][b] = "running"]}
            /\ pc' = [pc EXCEPT ![p] = "cleanupList"] /\ own' = [own EXCEPT ![p] = @ \cup {n}]
            /\ dirty' = dirty \cup {op[p].cluster}
            /\ UNCHANGED <<op, at, todo, found, deleted, condemned, blind, unforgotten>>
         \/ ~CanBoot(n, b) /\ Fails(p) /\ UNCHANGED <<vm, bounds>>
      /\ UNCHANGED <<service, contexts>>

Reachable(p) == \A r \in Stage(p).on : Up(node(op[p].cluster, r))

\* A stage that works inside its nodes.
UseNodes(p) ==
  /\ pc[p] = "stage" /\ Stage(p).do = "use"
  /\ \/ Reachable(p) /\ Enter(p, at[p] + 1) /\ UNCHANGED <<op, found, own, ghosts, bounds>>
     \/ ~Reachable(p) /\ Fails(p) /\ UNCHANGED bounds
     \/ Fault /\ Fails(p)
  /\ UNCHANGED <<vm, service, contexts>>

\* The kubeconfig is written last.
WriteKubeconfig(p) ==
  /\ pc[p] = "stage" /\ Stage(p).do = "config"
  /\ \/ /\ Reachable(p)
        /\ contexts' = contexts \cup {op[p].cluster}
        /\ Return(p) /\ UNCHANGED <<ghosts, bounds>>
     \/ ~Reachable(p) /\ Fails(p) /\ UNCHANGED <<contexts, bounds>>
     \/ Fault /\ Fails(p) /\ UNCHANGED contexts
  /\ UNCHANGED <<vm, service>>

\* cleanupOnFailure: every node that List finds; its own errors are ignored.
CleanupList(p) ==
  /\ pc[p] = "cleanupList"
  /\ IF ListFails(op[p].cluster) THEN Return(p)
     ELSE /\ pc' = [pc EXCEPT ![p] = "cleanupRemove"]
          /\ found' = [found EXCEPT ![p] = List(op[p].cluster)]
          /\ UNCHANGED <<op, at, todo, own>>
  /\ UNCHANGED <<vm, service, contexts, ghosts, bounds>>

CleanupRemove(p) ==
  /\ pc[p] = "cleanupRemove"
  /\ Set(Removable(found[p]), "absent")
  /\ Return(p)
  /\ UNCHANGED <<service, contexts, ghosts, bounds>>

-----------------------------------------------------------------------------
(* Delete, StopNode, StartNode.                                            *)

Delete(p, c) ==
  /\ Begin(p, [name |-> "delete", cluster |-> c, kind |-> None, node |-> None], "list")
  /\ condemned' = condemned \cup {c} /\ UNCHANGED <<dirty, deleted, blind, unforgotten>>

DeleteList(p) ==
  LET c == op[p].cluster
  IN  /\ pc[p] = "list"
      /\ IF ListFails(c) \/ List(c) = {} THEN Return(p)
         ELSE /\ pc' = [pc EXCEPT ![p] = "remove"]
              /\ found' = [found EXCEPT ![p] = List(c)]
              /\ UNCHANGED <<op, at, todo, own>>
      /\ UNCHANGED <<vm, service, contexts, ghosts, bounds>>

\* Faulty variant: an error of Remove does not end the deletion.
DeleteRemove_ignoresError(p) ==
  /\ pc[p] = "remove"
  /\ \/ /\ Set(Removable(found[p]), "absent") /\ UNCHANGED bounds
     \/ /\ Fault /\ \E S \in SUBSET Removable(found[p]) : S # Removable(found[p]) /\ Set(S, "absent")
  /\ Goto(p, "forget")
  /\ UNCHANGED <<service, contexts, ghosts>>

\* Remove: both backends are asked; what one of them cannot remove stays.
DeleteRemove(p) ==
  /\ pc[p] = "remove"
  /\ \/ /\ Set(Removable(found[p]), "absent")
        /\ Goto(p, "forget") /\ UNCHANGED bounds
     \/ /\ Fault /\ Return(p)
        /\ \E S \in SUBSET Removable(found[p]) : S # Removable(found[p]) /\ Set(S, "absent")
  /\ UNCHANGED <<service, contexts, ghosts>>

\* Faulty variant: the kubeconfig entries stay.
DeleteForget_keeps(p) ==
  /\ pc[p] = "forget"
  /\ Return(p)
  /\ deleted' = deleted \cup {op[p].cluster} /\ dirty' = dirty \ {op[p].cluster}
  /\ UNCHANGED <<vm, service, contexts, condemned, blind, unforgotten, bounds>>

DeleteForget(p) ==
  /\ pc[p] = "forget"
  /\ \/ /\ contexts' = contexts \ {op[p].cluster}
        /\ deleted' = deleted \cup {op[p].cluster} /\ dirty' = dirty \ {op[p].cluster}
        /\ unforgotten' = unforgotten \ {op[p].cluster}
        /\ UNCHANGED <<condemned, blind, bounds>>
     \/ /\ Fault /\ unforgotten' = unforgotten \cup {op[p].cluster}
        /\ UNCHANGED <<contexts, dirty, deleted, condemned, blind>>
  /\ Return(p)
  /\ UNCHANGED <<vm, service>>

Krunkit(c) == {n \in List(c) : backendFor(n) = "krunkit"}
Stopped(c) == {n \in List(c) : vm[n][backendFor(n)] = "stopped"}

\* krunkitOnlyCluster: an error for a cluster on both backends.
krunkitOnlyCluster(c) == Krunkit(c) = List(c)
Mixed(c) == Krunkit(c) # {} /\ ~krunkitOnlyCluster(c)

\* StartNode acts on a stopped node; on krunkit, and in a k3s cluster, only when it is
\* the one stopped node.  (Which of the other clusters are k3s is left open: the
\* refusal is then a call that does not begin.)
Startable(c, n) ==
  n \in Stopped(c) /\ ~Mixed(c) /\ (krunkitOnlyCluster(c) => Stopped(c) = {n})

\* StopNode and StartNode: findNode lists the cluster and resolves the target, a
\* name that begins with the cluster's; the only node is not stopped.
Change(p, o, c, n) ==
  /\ ~ListFails(c) /\ n \in List(c)
  /\ o = "stop" => ~(n = ControlPlane(c) /\ List(c) = {n})
  /\ o = "start" => Startable(c, n)
  /\ Begin(p, [name |-> o, cluster |-> c, kind |-> None, node |-> n], "act")
  /\ UNCHANGED ghosts

\* Set the nodes of S that their backend holds and reaches, unless the call fails.
Turn(p, S, state) ==
  /\ \/ Set(Removable(S), state) /\ UNCHANGED bounds
     \/ Fault /\ UNCHANGED vm
  /\ Return(p)
  /\ UNCHANGED <<service, contexts, ghosts>>

StopNode(p) ==
  pc[p] = "act" /\ op[p].name = "stop" /\ Turn(p, {op[p].node}, "stopped")

\* A kubeadm cluster's node is started alone; on krunkit, and for k3s, Resume lists
\* the cluster again and starts every node of it that is stopped.
StartNode(p) ==
  LET c == op[p].cluster
      resumed == IF ListFails(c) \/ Mixed(c) THEN {} ELSE Stopped(c)
  IN  /\ pc[p] = "act" /\ op[p].name = "start"
      /\ \E S \in {{op[p].node}, resumed} :
           /\ op[p].node \in Krunkit(c) => S = resumed
           /\ Turn(p, S, "running")

-----------------------------------------------------------------------------
Busy(steps) == {op[p].cluster : p \in {q \in Procs : pc[q] \in steps}}

\* The host reboots: no VM, no service, no process.
Reboot ==
  /\ reboots < MaxReboots /\ reboots' = reboots + 1
  /\ service' = FALSE
  /\ vm' = [n \in Nodes |-> [b \in Backends |-> IF Exists(n, b) THEN "stopped" ELSE "absent"]]
  /\ pc' = [p \in Procs |-> "idle"] /\ op' = [p \in Procs |-> NoOp]
  /\ at' = [p \in Procs |-> 0] /\ todo' = [p \in Procs |-> {}]
  /\ found' = [p \in Procs |-> {}] /\ own' = [p \in Procs |-> {}]
  /\ dirty' = dirty \ Busy({"cleanupList", "cleanupRemove"})
  /\ unforgotten' = unforgotten \cup Busy({"forget"})
  /\ UNCHANGED <<contexts, deleted, condemned, blind, faults>>

Init ==
  /\ vm = [n \in Nodes |-> [b \in Backends |-> "absent"]]
  /\ service = TRUE
  /\ contexts = {}
  /\ pc = [p \in Procs |-> "idle"] /\ op = [p \in Procs |-> NoOp]
  /\ at = [p \in Procs |-> 0] /\ todo = [p \in Procs |-> {}]
  /\ found = [p \in Procs |-> {}] /\ own = [p \in Procs |-> {}]
  /\ dirty = {} /\ deleted = {} /\ condemned = {} /\ blind = {} /\ unforgotten = {}
  /\ faults = 0 /\ reboots = 0

Step(p) ==
  \/ CheckAbsent(p) \/ Preflight(p)
  \/ (\E r \in Roles : BootNode(p, r)) \/ UseNodes(p) \/ WriteKubeconfig(p)
  \/ CleanupList(p) \/ CleanupRemove(p)
  \/ DeleteList(p) \/ DeleteRemove(p) \/ DeleteForget(p)
  \/ StopNode(p) \/ StartNode(p)

Call(p, c) ==
  \/ \E k \in Kinds[c] : Create(p, c, k)
  \/ Delete(p, c)
  \/ \E o \in {"stop", "start"}, n \in Nodes : Change(p, o, c, n)

Next ==
  \/ \E p \in Procs : Step(p) \/ RefuseConfig(p) \/ \E c \in Clusters : Call(p, c)
  \/ Reboot

Spec == Init /\ [][Next]_vars

Redelete(c) == c \in condemned /\ \E p \in Procs : Delete(p, c)

\* Processes run to their end, and whoever began to delete a cluster tries again
\* until it is deleted or created anew.
FairSpec ==
  /\ Spec
  /\ \A p \in Procs : WF_vars(Step(p))
  /\ \A c \in Clusters : SF_vars(Redelete(c) /\ c \notin deleted)

-----------------------------------------------------------------------------
(* Properties.                                                             *)

\* An operation on one cluster never boots, stops, starts or removes a node of
\* another, whatever runs beside it (findNode: "stop/start never touch containers
\* outside the named cluster").
OnlyItsCluster ==
  [][reboots' = reboots =>
       \A n \in Nodes : vm'[n] # vm[n] =>
         \E p \in Procs : /\ <<pc'[p], todo'[p]>> # <<pc[p], todo[p]>>
                          /\ op[p].cluster = clusterNameFromNode(n)]_vars

\* The clean-up of a failed Create removes only nodes that this Create booted, unless
\* the cluster existed and the check did not see it because apple/container was down.
CleansOnlyItsOwn ==
  [][\A p \in Procs :
       pc[p] = "cleanupRemove" /\ pc'[p] = "idle" /\ reboots' = reboots =>
         \A n \in Nodes : vm'[n] # vm[n] => n \in own[p] \/ op[p].cluster \in blind]_vars

\* A Create that failed in a stage that cleans up leaves none of its cluster's nodes
\* behind (cleanupOnFailure: "so a failed create never leaves the host dirty"), unless
\* the host went down during the clean-up or older nodes were hidden from the check.
FailedCreateClean ==
  \A c \in dirty \ blind : (\A p \in Procs : op[p].cluster # c) => NodesGone(c)

\* After a Delete that reported success no node and no kubeconfig entry of the
\* cluster is left, until somebody creates it again.
DeletedMeansGone ==
  \A c \in deleted \ blind : c \notin contexts /\ NodesGone(c)

\* No node name exists in both backends, which would make List and with it every
\* operation fail, unless a Create could not see that the cluster existed.
NoDuplicateNode ==
  \A n \in Nodes : clusterNameFromNode(n) \notin blind =>
    ~(Exists(n, "container") /\ Exists(n, "krunkit"))

\* Deleting a cluster, and trying again after a failure, ends with its nodes gone,
\* and its kubeconfig entries too unless dropping them failed or was cut short once
\* (the next Delete finds no node and stops there), as long as apple/container runs
\* and the cluster is not created anew.
DeleteGetsThere ==
  \A c \in Clusters :
    c \in condemned ~> \/ c \notin condemned \/ c \in blind \/ ~service
                       \/ NodesGone(c) /\ (c \in unforgotten \/ c \notin contexts)

=============================================================================
