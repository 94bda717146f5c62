------------------------------ MODULE K3sResume -----------------------------
(***************************************************************************)
(* `kiac resume` of a k3s cluster on apple/container                       *)
(* (pkg/cluster/k3s_resume.go).  Every boot may give a VM a new address;   *)
(* the agents and the edge proxies keep the server's old one.  Resume      *)
(* restores the server, points each agent at it, waits until every Node    *)
(* has its current address and heals the proxies.  It may fail at any step *)
(* and is then run again.                                                  *)
(***************************************************************************)
EXTENDS Naturals

CONSTANTS
  CP, Workers,
  IPs,           \* addresses the VM network hands out
  FreshAddresses,\* whether a boot never gets an address still recorded somewhere
  MaxFaults,     \* bound: failures of resume (error or killed)
  MaxReboots,    \* bound: reboots of the host or of one VM
  None

Nodes == {CP} \cup Workers

\* The ways the VM network gives every node an address of its own.
Addresses == {f \in [Nodes -> IPs] : \A m, n \in Nodes : f[m] = f[n] => m = n}

K3sAssumption ==
  /\ CP \notin Workers /\ FreshAddresses \in BOOLEAN
  /\ MaxFaults \in Nat /\ MaxReboots \in Nat
  /\ IPs \subseteq Nat /\ None \notin IPs /\ Addresses # {}

VARIABLES
  up, ip,        \* running VMs, and the address of each one's current or last boot
  url,           \* per worker: /etc/kiac/k3s-server-url, None without the launcher
  born,          \* the server address in the agents' original environment
  agent,         \* per worker: the server its k3s process was started with
  nodeLive,      \* the InternalIP of each Node
  pods,          \* the node address in each node's host-network pods
  edgeConf, edgeRun, edgeMark,  \* per node: the address in the edge proxy's
                 \* kubeconfig, in the running proxy (None: none runs), in the marker
  hostConf,      \* the address in the user's kubeconfig
  pc, wpc, epc,  \* the step of the resume, of each worker's part, of each proxy's
  wasUp,         \* the VMs that ran when the resume listed them
  restarted,     \* nodesRestarted
  target,        \* targetURL
  faults, reboots

guest == <<url, born, agent, edgeConf, edgeRun, edgeMark>>
local == <<pc, wpc, epc, wasUp, restarted, target>>
bounds == <<faults, reboots>>
vars == <<up, ip, guest, nodeLive, pods, hostConf, local, bounds>>

Steps == {"idle", "server", "read", "workers", "addresses", "refresh", "edge",
          "mark", "kubeconfig", "done"}

TypeOK ==
  /\ up \subseteq Nodes /\ ip \in [Nodes -> IPs]
  /\ url \in [Workers -> IPs \cup {None}] /\ born \in IPs /\ agent \in [Workers -> IPs]
  /\ nodeLive \in [Nodes -> IPs] /\ pods \in [Nodes -> IPs] /\ hostConf \in IPs
  /\ edgeConf \in [Nodes -> IPs]
  /\ edgeRun \in [Nodes -> IPs \cup {None}] /\ edgeMark \in [Nodes -> IPs \cup {None}]
  /\ pc \in Steps
  /\ wpc \in [Workers -> {"start", "hook", "stop", "again", "verify", "ok"}]
  /\ epc \in [Nodes -> {"check", "kill", "supervise", "on", "marked"}]
  /\ wasUp \subseteq Nodes /\ restarted \in BOOLEAN /\ target \in IPs
  /\ faults \in 0 .. MaxFaults /\ reboots \in 0 .. MaxReboots

Goto(l) == pc' = l

-----------------------------------------------------------------------------
(* Booting VMs.                                                            *)

Recorded ==
  {born, hostConf, target} \cup {ip[n] : n \in Nodes} \cup {nodeLive[n] : n \in Nodes}
    \cup {pods[n] : n \in Nodes} \cup {edgeConf[n] : n \in Nodes}
    \cup {edgeMark[n] : n \in Nodes} \cup {edgeRun[n] : n \in Nodes}
    \cup {url[w] : w \in Workers} \cup {agent[w] : w \in Workers}

\* Which of the fresh addresses a boot gets makes no difference: the smallest.
Offered == IF FreshAddresses
             THEN {a \in IPs \ Recorded : \A b \in IPs \ Recorded : a <= b}
             ELSE IPs \ {ip[m] : m \in up}

\* The launcher: an agent starts with the recorded server, else with its own.
k3sResumeLauncher(w) == IF url[w] = None THEN born ELSE url[w]

\* k3sBoot also starts the edge proxy with the kubeconfig it finds.
Boot(n) ==
  /\ n \notin up
  /\ up' = up \cup {n}
  /\ \E a \in Offered : ip' = [ip EXCEPT ![n] = a]
  /\ agent' = IF n = CP THEN agent ELSE [agent EXCEPT ![n] = k3sResumeLauncher(n)]
  /\ edgeRun' = [edgeRun EXCEPT ![n] = edgeConf[n]]

-----------------------------------------------------------------------------
(* The resume.                                                             *)

Resume ==
  /\ pc \in {"idle", "done"}
  /\ wasUp' = up
  /\ restarted' = (up # Nodes)
  /\ wpc' = [w \in Workers |-> "start"]
  /\ epc' = [n \in Nodes |-> "check"]
  /\ Goto("server")
  /\ UNCHANGED <<up, ip, guest, nodeLive, pods, hostConf, target, bounds>>

BootServer ==
  /\ pc = "server"
  /\ \/ CP \notin wasUp /\ Boot(CP)
     \/ CP \in wasUp /\ UNCHANGED <<up, ip, agent, edgeRun>>
  /\ Goto("read")
  /\ UNCHANGED <<url, born, edgeConf, edgeMark, nodeLive, pods, hostConf,
                 wpc, epc, wasUp, restarted, target, bounds>>

ReadServer ==
  /\ pc = "read" /\ CP \in up
  /\ target' = ip[CP]
  /\ Goto("workers")
  /\ UNCHANGED <<up, ip, guest, nodeLive, pods, hostConf, wpc, epc, wasUp, restarted, bounds>>

Worker(w, from, to) ==
  /\ pc = "workers" /\ wpc[w] = from
  /\ wpc' = [wpc EXCEPT ![w] = to]
  /\ UNCHANGED <<nodeLive, pods, hostConf, pc, epc, wasUp, target, bounds>>

StartWorker(w) ==
  /\ Worker(w, "start", "hook")
  /\ \/ w \notin wasUp /\ Boot(w)
     \/ w \in wasUp /\ UNCHANGED <<up, ip, agent, edgeRun>>
  /\ UNCHANGED <<url, born, edgeConf, edgeMark, restarted>>

\* Faulty variant: every agent is restarted.
InstallHook_always(w) ==
  /\ w \in up
  /\ Worker(w, "hook", "stop")
  /\ url' = [url EXCEPT ![w] = target]
  /\ restarted' = TRUE
  /\ UNCHANGED <<up, ip, born, agent, edgeConf, edgeRun, edgeMark>>

\* The live URL is read, the launcher installed; only a stale agent is restarted.
InstallHook(w) ==
  /\ w \in up
  /\ Worker(w, "hook", IF agent[w] = target THEN "ok" ELSE "stop")
  /\ url' = [url EXCEPT ![w] = target]
  /\ restarted' = (restarted \/ agent[w] # target)
  /\ UNCHANGED <<up, ip, born, agent, edgeConf, edgeRun, edgeMark>>

StopWorker(w) ==
  /\ Worker(w, "stop", "again")
  /\ up' = up \ {w}
  /\ edgeRun' = [edgeRun EXCEPT ![w] = None]
  /\ UNCHANGED <<ip, url, born, agent, edgeConf, edgeMark, restarted>>

StartAgain(w) ==
  /\ Worker(w, "again", "verify")
  /\ Boot(w)
  /\ UNCHANGED <<url, born, edgeConf, edgeMark, restarted>>

VerifyAgent(w) ==
  /\ w \in up /\ agent[w] = target
  /\ Worker(w, "verify", "ok")
  /\ UNCHANGED <<up, ip, guest, restarted>>

WorkersDone ==
  /\ pc = "workers" /\ \A w \in Workers : wpc[w] = "ok"
  /\ Goto("addresses")
  /\ UNCHANGED <<up, ip, guest, nodeLive, pods, hostConf, wpc, epc, wasUp, restarted,
                 target, bounds>>

\* Faulty variant: every Node has some address.
waitK3sNodeAddresses_ready ==
  /\ pc = "addresses"
  /\ Goto(IF restarted THEN "refresh" ELSE "edge")
  /\ UNCHANGED <<up, ip, guest, nodeLive, pods, hostConf, wpc, epc, wasUp, restarted,
                 target, bounds>>

\* The Nodes must also be Ready, which a Node that lost its kubelet is for a while:
\* the model takes it as given.
waitK3sNodeAddresses ==
  /\ pc = "addresses" /\ nodeLive = ip
  /\ Goto(IF restarted THEN "refresh" ELSE "edge")
  /\ UNCHANGED <<up, ip, guest, nodeLive, pods, hostConf, wpc, epc, wasUp, restarted,
                 target, bounds>>

\* rollout restart and rollout status of kindnet and of node-exporter.
refreshK3sNodePods ==
  /\ pc = "refresh"
  /\ pods' = nodeLive
  /\ Goto("edge")
  /\ UNCHANGED <<up, ip, guest, nodeLive, hostConf, wpc, epc, wasUp, restarted, target, bounds>>

-----------------------------------------------------------------------------
(* healK3sEdgeProxy.                                                       *)

Edge(n, from, to) ==
  /\ pc = "edge" /\ n \in up /\ epc[n] = from
  /\ epc' = [epc EXCEPT ![n] = to]
  /\ UNCHANGED <<up, ip, url, born, agent, edgeMark, nodeLive, pods, hostConf,
                 pc, wpc, wasUp, restarted, target, bounds>>

\* The script leaves a proxy alone whose marker names the server, that runs and
\* has its hooks in place; a proxy that cannot reach its server may have them.
EdgeUntouched(n) ==
  /\ edgeMark[n] = target /\ edgeRun[n] # None
  /\ Edge(n, "check", "supervise")
  /\ UNCHANGED <<edgeConf, edgeRun>>

\* Faulty variant: the kubeconfig is left without a server.
EdgeRewrite_emptied(n) ==
  /\ edgeMark[n] # target \/ edgeRun[n] # ip[CP]
  /\ Edge(n, "check", "kill")
  /\ edgeConf' = [edgeConf EXCEPT ![n] = None]
  /\ UNCHANGED edgeRun

EdgeRewrite(n) ==
  /\ edgeMark[n] # target \/ edgeRun[n] # ip[CP]
  /\ Edge(n, "check", "kill")
  /\ edgeConf' = [edgeConf EXCEPT ![n] = target]
  /\ UNCHANGED edgeRun

EdgeKill(n) ==
  /\ Edge(n, "kill", "supervise")
  /\ edgeRun' = [edgeRun EXCEPT ![n] = None]
  /\ UNCHANGED edgeConf

\* The supervisor script: nothing when one is alive.
EdgeSupervise(n) ==
  /\ Edge(n, "supervise", "on")
  /\ edgeRun' = [edgeRun EXCEPT ![n] = IF @ = None THEN edgeConf[n] ELSE @]
  /\ UNCHANGED edgeConf

EdgeRules ==
  /\ pc = "edge" /\ \A n \in Nodes : epc[n] = "on"
  /\ Goto("mark")
  /\ UNCHANGED <<up, ip, guest, nodeLive, pods, hostConf, wpc, epc, wasUp, restarted,
                 target, bounds>>

EdgeMark(n) ==
  /\ pc = "mark" /\ epc[n] = "on"
  /\ epc' = [epc EXCEPT ![n] = "marked"]
  /\ edgeMark' = [edgeMark EXCEPT ![n] = target]
  /\ UNCHANGED <<up, ip, url, born, agent, edgeConf, edgeRun, nodeLive, pods, hostConf,
                 pc, wpc, wasUp, restarted, target, bounds>>

EdgesMarked ==
  /\ pc = "mark" /\ \A n \in Nodes : epc[n] = "marked"
  /\ Goto("kubeconfig")
  /\ UNCHANGED <<up, ip, guest, nodeLive, pods, hostConf, wpc, epc, wasUp, restarted,
                 target, bounds>>

WriteKubeconfig ==
  /\ pc = "kubeconfig"
  /\ hostConf' = target
  /\ Goto("done")
  /\ UNCHANGED <<up, ip, guest, nodeLive, pods, wpc, epc, wasUp, restarted, target, bounds>>

-----------------------------------------------------------------------------
(* Around the resume.                                                      *)

\* A kubelet that reaches the server reports its address.
KubeletReport(n) ==
  /\ n \in up /\ CP \in up
  /\ n # CP => agent[n] = ip[CP]
  /\ nodeLive[n] # ip[n]
  /\ nodeLive' = [nodeLive EXCEPT ![n] = ip[n]]
  /\ UNCHANGED <<up, ip, guest, pods, hostConf, local, bounds>>

\* k3s exits when its Node's address changes; its supervisor starts it again in
\* the same VM, through the launcher.
k3sSupervisor(w) ==
  /\ w \in up /\ agent[w] # k3sResumeLauncher(w)
  /\ agent' = [agent EXCEPT ![w] = k3sResumeLauncher(w)]
  /\ UNCHANGED <<up, ip, url, born, edgeConf, edgeRun, edgeMark, nodeLive, pods, hostConf,
                 local, bounds>>

\* A proxy exits and its supervisor starts it with the kubeconfig as it is now.
edgeProxySupervisor(n) ==
  /\ edgeRun[n] \notin {None, edgeConf[n]}
  /\ edgeRun' = [edgeRun EXCEPT ![n] = edgeConf[n]]
  /\ UNCHANGED <<up, ip, url, born, agent, edgeConf, edgeMark, nodeLive, pods, hostConf,
                 local, bounds>>

Fail ==
  /\ pc \notin {"idle", "done"} /\ faults < MaxFaults
  /\ faults' = faults + 1
  /\ Goto("idle")
  /\ UNCHANGED <<up, ip, guest, nodeLive, pods, hostConf, wpc, epc, wasUp, restarted,
                 target, reboots>>

\* The host reboots, resume or not; or, between resumes, one VM goes down.
Reboot(S) ==
  /\ reboots < MaxReboots
  /\ S = Nodes \/ pc \in {"idle", "done"}
  /\ reboots' = reboots + 1
  /\ up' = up \ S
  /\ edgeRun' = [n \in Nodes |-> IF n \in S THEN None ELSE edgeRun[n]]
  /\ Goto("idle")
  /\ UNCHANGED <<ip, url, born, agent, edgeConf, edgeMark, nodeLive, pods, hostConf,
                 wpc, epc, wasUp, restarted, target, faults>>

\* A cluster as Create leaves it: with the launcher, or from before it existed.
Init ==
  /\ up = Nodes
  /\ LET a == CHOOSE f \in Addresses : TRUE IN
       /\ ip = a /\ nodeLive = a /\ pods = a
       /\ born = a[CP] /\ hostConf = a[CP] /\ target = a[CP]
       /\ \E u \in {a[CP], None} : url = [w \in Workers |-> u]
       /\ agent = [w \in Workers |-> a[CP]]
       /\ edgeConf = [n \in Nodes |-> a[CP]] /\ edgeRun = edgeConf
       /\ edgeMark = [n \in Nodes |-> None]
  /\ pc = "idle" /\ wpc = [w \in Workers |-> "ok"] /\ epc = [n \in Nodes |-> "marked"]
  /\ wasUp = Nodes /\ restarted = FALSE /\ faults = 0 /\ reboots = 0

WorkerStep(w) ==
  StartWorker(w) \/ InstallHook(w) \/ StopWorker(w) \/ StartAgain(w) \/ VerifyAgent(w)

EdgeStep(n) ==
  EdgeUntouched(n) \/ EdgeRewrite(n) \/ EdgeKill(n) \/ EdgeSupervise(n) \/ EdgeMark(n)

ResumeStep ==
  \/ BootServer \/ ReadServer \/ WorkersDone \/ waitK3sNodeAddresses \/ refreshK3sNodePods
  \/ EdgeRules \/ EdgesMarked \/ WriteKubeconfig
  \/ \E w \in Workers : WorkerStep(w)
  \/ \E n \in Nodes : EdgeStep(n)

Next ==
  \/ Resume \/ ResumeStep \/ Fail
  \/ \E n \in Nodes : KubeletReport(n) \/ edgeProxySupervisor(n) \/ Reboot({n})
  \/ \E w \in Workers : k3sSupervisor(w)
  \/ Reboot(Nodes)

-----------------------------------------------------------------------------
(* Properties.                                                             *)

Healed ==
  /\ up = Nodes /\ nodeLive = ip /\ hostConf = ip[CP]
  /\ \A w \in Workers : agent[w] = ip[CP]
  /\ \A n \in Nodes : edgeConf[n] = ip[CP] /\ edgeRun[n] = ip[CP]

\* A resume that reports success leaves no agent process, Node address, edge proxy
\* (what it runs with, not only its file) or host kubeconfig with an old address.
SuccessMeansHealed == pc = "done" => Healed

\* Resume is idempotent: on a healed cluster whose markers are written, no step
\* restarts a VM, an agent or a proxy.
HealedResumeIsNoOp ==
  Healed /\ (\A n \in Nodes : edgeMark[n] = ip[CP]) /\ reboots' = reboots
    => UNCHANGED <<up, ip, agent, edgeConf, edgeRun>>

\* Once failures and reboots stop, a user who keeps running resume gets a healed
\* cluster that stays so.
Recovered == pc \in {"idle", "done"} => Healed

\* As long as no resume failed, a successful one leaves every host-network pod with
\* its node's address, also when a reboot ended the resumes before it.
PodsRefreshed == pc = "done" /\ faults = 0 => pods = ip
=============================================================================
