--------------------------- MODULE K3sSystemdResume -------------------------
(***************************************************************************)
(* `kiac resume` of a k3s cluster of krunkit VMs (resumeK3sSystemd).  k3s  *)
(* is a systemd service configured by a file that names the node's and the *)
(* server's address.  Resume rewrites the file where an address moved,     *)
(* queues a restart only of what it changed, waits for the Nodes and heals *)
(* the edge proxies, whose rewrite leaves a marker until they are          *)
(* restarted.  It may fail between any two of these steps.                 *)
(***************************************************************************)
EXTENDS Naturals

CONSTANTS
  CP, Workers,
  IPs,           \* addresses the VM network hands out
  MaxFaults,     \* bound: failures of resume (error or killed)
  MaxReboots     \* bound: reboots of the host or of one VM

Nodes == {CP} \cup Workers

\* The ways the VM network gives every node an address of its own.
Addresses == {f \in [Nodes -> IPs] : \A m, n \in Nodes : f[m] = f[n] => m = n}

K3sSystemdAssumption ==
  CP \notin Workers /\ Addresses # {} /\ MaxFaults \in Nat /\ MaxReboots \in Nat

\* /etc/rancher/k3s/config.yaml: node-ip, and the agent's server or the server's
\* own advertise-address and tls-san.
Configs == [ip : IPs, server : IPs]

VARIABLES
  up, ip,        \* running VMs, and the address of each one's current or last boot
  config, run,   \* per node: the file, and the one its k3s process has read
  unit,          \* nodes whose k3s.service is the current one
  jobs,          \* nodes with a queued restart of k3s.service
  nodeLive,      \* the InternalIP of each Node
  ready,         \* the Nodes with condition Ready
  pods,          \* the node address in each node's node-exporter pod
  edgeConf, edgeRun, \* per node: the address in the edge proxy's kubeconfig and
                 \* the one the running proxy has read
  marker,        \* nodes with a restart-required file
  hostConf,      \* the address in the user's kubeconfig
  pc, npc, epc,  \* the step of the resume, of each node's part, of each proxy's
  wasUp,         \* the VMs that ran when the resume listed them
  dirty,         \* nodes whose file or unit this resume has changed
  serverIP,
  healthy,       \* history: the resume found a healed cluster
  faults, reboots

disk == <<config, unit, edgeConf, marker, hostConf>>
procs == <<run, jobs, edgeRun>>
seen == <<nodeLive, ready, pods>>
bounds == <<healthy, faults, reboots>>
vars == <<up, ip, disk, procs, seen, pc, npc, epc, wasUp, dirty, serverIP, bounds>>

Steps == {"idle", "start", "server", "api", "agents", "addresses", "refresh",
          "edge", "kubeconfig", "done"}

TypeOK ==
  /\ up \subseteq Nodes /\ ip \in [Nodes -> IPs]
  /\ config \in [Nodes -> Configs] /\ run \in [Nodes -> Configs]
  /\ ready \subseteq Nodes /\ unit \subseteq Nodes /\ jobs \subseteq Nodes /\ marker \subseteq Nodes
  /\ nodeLive \in [Nodes -> IPs] /\ pods \in [Nodes -> IPs]
  /\ edgeConf \in [Nodes -> IPs] /\ edgeRun \in [Nodes -> IPs]
  /\ hostConf \in IPs /\ serverIP \in IPs
  /\ pc \in Steps
  /\ npc \in [Nodes -> {"boot", "config", "unit", "service", "ok"}]
  /\ epc \in [Nodes -> {"check", "restart", "ok"}]
  /\ wasUp \subseteq Nodes /\ dirty \subseteq Nodes /\ healthy \in BOOLEAN
  /\ faults \in 0 .. MaxFaults /\ reboots \in 0 .. MaxReboots

-----------------------------------------------------------------------------
(* The resume.                                                             *)

\* A boot starts k3s.service and the proxy's service with what is on disk.
Boot(n) ==
  /\ n \notin up
  /\ up' = up \cup {n}
  /\ \E a \in IPs \ {ip[m] : m \in up} : ip' = [ip EXCEPT ![n] = a]
  /\ run' = [run EXCEPT ![n] = config[n]]
  /\ edgeRun' = [edgeRun EXCEPT ![n] = edgeConf[n]]

FilesHealed ==
  /\ up = Nodes /\ nodeLive = ip
  /\ \A n \in Nodes : config[n] = [ip |-> ip[n], server |-> ip[CP]]

\* Nodes whose k3s has read an older file and that nothing is queued for.
LeftBehind == {n \in Nodes : run[n] # config[n] /\ n \notin jobs}

NodesHealed == FilesHealed /\ LeftBehind = {}

ProxiesHealed ==
  \A n \in Nodes : edgeConf[n] = ip[CP] /\ edgeRun[n] = ip[CP]

Resume ==
  /\ pc \in {"idle", "done"}
  /\ pc' = "start"
  /\ wasUp' = up /\ dirty' = {}
  /\ npc' = [n \in Nodes |-> "boot"] /\ epc' = [n \in Nodes |-> "check"]
  /\ healthy' = (NodesHealed /\ ProxiesHealed /\ jobs = {} /\ unit = Nodes /\ marker = {})
  /\ UNCHANGED <<up, ip, disk, procs, seen, serverIP, faults, reboots>>

\* The part of a node in the resume: the server's first, then the agents'.
Active(n) == pc = IF n = CP THEN "server" ELSE "agents"

Node(n, from, to) ==
  /\ npc[n] = from
  /\ npc' = [npc EXCEPT ![n] = to]
  /\ UNCHANGED <<seen, edgeConf, marker, hostConf, epc, wasUp, bounds>>

\* Start(cp), WaitReady and IP(cp).
BootServer ==
  /\ pc = "start"
  /\ Node(CP, "boot", "config")
  /\ \/ CP \notin wasUp /\ Boot(CP)
     \/ CP \in wasUp /\ CP \in up /\ UNCHANGED <<up, ip, run, edgeRun>>
  /\ serverIP' = ip'[CP]
  /\ pc' = "server"
  /\ UNCHANGED <<config, unit, jobs, dirty>>

BootAgent(n) ==
  /\ n # CP /\ Active(n)
  /\ Node(n, "boot", "config")
  /\ \/ n \notin wasUp /\ Boot(n)
     \/ n \in wasUp /\ n \in up /\ UNCHANGED <<up, ip, run, edgeRun>>
  /\ UNCHANGED <<config, unit, jobs, dirty, serverIP, pc>>

Want(n) == [ip |-> ip[n], server |-> serverIP]

updateK3sSystemdConfig(n) ==
  /\ Active(n)
  /\ Node(n, "config", "unit")
  /\ config' = [config EXCEPT ![n] = Want(n)]
  /\ dirty' = IF config[n] = Want(n) THEN dirty ELSE dirty \cup {n}
  /\ UNCHANGED <<up, ip, unit, procs, serverIP, pc>>

ensureK3sGPUUnit(n) ==
  /\ Active(n)
  /\ Node(n, "unit", "service")
  /\ unit' = unit \cup {n}
  /\ dirty' = IF n \in unit THEN dirty ELSE dirty \cup {n}
  /\ UNCHANGED <<up, ip, config, procs, serverIP, pc>>

\* Faulty variant: only a VM that was just booted has k3s restarted.
ensureK3sSystemdService_bootedOnly(n) ==
  /\ Active(n) /\ n \in up
  /\ Node(n, "service", "ok")
  /\ jobs' = IF n \notin wasUp THEN jobs \cup {n} ELSE jobs
  /\ UNCHANGED <<up, ip, config, unit, run, edgeRun, dirty, serverIP, pc>>

\* A restart is queued (--no-block) when a file changed or the VM was just booted;
\* otherwise the service is only made sure to be active, which it is.
ensureK3sSystemdService(n) ==
  /\ Active(n) /\ n \in up
  /\ Node(n, "service", "ok")
  /\ jobs' = IF n \in dirty \/ n \notin wasUp THEN jobs \cup {n} ELSE jobs
  /\ UNCHANGED <<up, ip, config, unit, run, edgeRun, dirty, serverIP, pc>>

Local(from, to) ==
  /\ pc = from
  /\ pc' = to
  /\ UNCHANGED <<up, ip, procs, config, unit, npc, wasUp, dirty, serverIP, bounds>>

ServerDone ==
  /\ npc[CP] = "ok" /\ Local("server", "api")
  /\ UNCHANGED <<edgeConf, marker, hostConf, seen, epc>>

waitK3sAPI ==
  /\ CP \in up /\ Local("api", "agents")
  /\ UNCHANGED <<edgeConf, marker, hostConf, seen, epc>>

AgentsDone ==
  /\ \A w \in Workers : npc[w] = "ok"
  /\ Local("agents", "addresses")
  /\ UNCHANGED <<edgeConf, marker, hostConf, seen, epc>>

\* nodesChanged
nodesChanged == wasUp # Nodes \/ dirty # {}

\* Faulty variant: an ordinary Ready wait.
waitK3sNodeAddresses_ready ==
  /\ ready = Nodes
  /\ Local("addresses", IF nodesChanged THEN "refresh" ELSE "edge")
  /\ UNCHANGED <<edgeConf, marker, hostConf, seen, epc>>

waitK3sNodeAddresses ==
  /\ nodeLive = ip /\ ready = Nodes
  /\ Local("addresses", IF nodesChanged THEN "refresh" ELSE "edge")
  /\ UNCHANGED <<edgeConf, marker, hostConf, seen, epc>>

refreshOptionalNodeExporter ==
  /\ Local("refresh", "edge")
  /\ pods' = nodeLive
  /\ UNCHANGED <<edgeConf, marker, hostConf, nodeLive, ready, epc>>

-----------------------------------------------------------------------------
(* healEdgeProxySystemd.                                                   *)

Edge(n, from, to) ==
  /\ pc = "edge" /\ n \in up /\ epc[n] = from
  /\ epc' = [epc EXCEPT ![n] = to]
  /\ UNCHANGED <<up, ip, config, unit, hostConf, run, jobs, seen, pc, npc, wasUp, dirty,
                 serverIP, bounds>>

\* The file has the wanted digest, no marker is left and the proxy has its hooks.
EdgeHealthy(n) ==
  /\ edgeConf[n] = ip[CP] /\ n \notin marker
  /\ Edge(n, "check", "ok")
  /\ UNCHANGED <<edgeConf, marker, edgeRun>>

\* The digest matches but a marker is left, or the proxy is down without its server.
EdgeUnhealthy(n) ==
  /\ edgeConf[n] = ip[CP]
  /\ n \in marker \/ edgeRun[n] # ip[CP]
  /\ Edge(n, "check", "restart")
  /\ UNCHANGED <<edgeConf, marker, edgeRun>>

\* The script touches the marker before it moves the new file into place; it may
\* be cut off between the two (EdgeMarked).
EdgeRewrite(n) ==
  /\ edgeConf[n] # ip[CP]
  /\ Edge(n, "check", "restart")
  /\ marker' = marker \cup {n}
  /\ edgeConf' = [edgeConf EXCEPT ![n] = ip[CP]]
  /\ UNCHANGED edgeRun

EdgeRestart(n) ==
  /\ Edge(n, "restart", "ok")
  /\ edgeRun' = [edgeRun EXCEPT ![n] = edgeConf[n]]
  /\ marker' = marker \ {n}
  /\ UNCHANGED edgeConf

EdgeDone ==
  /\ \A n \in Nodes : epc[n] = "ok"
  /\ Local("edge", "kubeconfig")
  /\ UNCHANGED <<edgeConf, marker, hostConf, seen, epc>>

WriteKubeconfig ==
  /\ Local("kubeconfig", "done")
  /\ hostConf' = serverIP
  /\ UNCHANGED <<edgeConf, marker, seen, epc>>

-----------------------------------------------------------------------------
(* Around the resume.                                                      *)

\* systemd runs a queued job.
SystemdRestart(n) ==
  /\ n \in jobs
  /\ jobs' = jobs \ {n}
  /\ run' = [run EXCEPT ![n] = config[n]]
  /\ UNCHANGED <<up, ip, disk, edgeRun, seen, pc, npc, epc, wasUp, dirty, serverIP, bounds>>

\* k3s exits when its node-ip is not an address of the VM, and Restart=always
\* starts it with the file as it is now.  An agent with its server's old address
\* does not exit: it keeps retrying.
K3sExits(n) ==
  /\ n \in up /\ run[n].ip # ip[n] /\ run[n] # config[n]
  /\ run' = [run EXCEPT ![n] = config[n]]
  /\ UNCHANGED <<up, ip, disk, jobs, edgeRun, seen, pc, npc, epc, wasUp, dirty, serverIP, bounds>>

\* A proxy that exits is started with the file as it is now.
EdgeExits(n) ==
  /\ n \in up /\ edgeRun[n] # edgeConf[n]
  /\ edgeRun' = [edgeRun EXCEPT ![n] = edgeConf[n]]
  /\ UNCHANGED <<up, ip, disk, run, jobs, seen, pc, npc, epc, wasUp, dirty, serverIP, bounds>>

Reaches(n) ==
  n \in up /\ CP \in up /\ run[n] = [ip |-> ip[n], server |-> ip[CP]]

KubeletReport(n) ==
  /\ Reaches(n)
  /\ nodeLive[n] # ip[n] \/ n \notin ready
  /\ nodeLive' = [nodeLive EXCEPT ![n] = ip[n]]
  /\ ready' = ready \cup {n}
  /\ UNCHANGED <<up, ip, disk, procs, pods, pc, npc, epc, wasUp, dirty, serverIP, bounds>>

\* A Node whose kubelet is silent stays Ready until the node controller notices.
NodeLost(n) ==
  /\ CP \in up /\ ~Reaches(n) /\ n \in ready
  /\ ready' = ready \ {n}
  /\ UNCHANGED <<up, ip, disk, procs, nodeLive, pods, pc, npc, epc, wasUp, dirty, serverIP, bounds>>

Fail ==
  /\ pc \notin {"idle", "done"} /\ faults < MaxFaults
  /\ faults' = faults + 1
  /\ pc' = "idle"
  /\ UNCHANGED <<up, ip, disk, procs, seen, npc, epc, wasUp, dirty, serverIP, healthy, reboots>>

\* The rewrite script is cut off after the marker and before the new file.
EdgeMarked(n) ==
  /\ pc = "edge" /\ epc[n] = "check" /\ edgeConf[n] # ip[CP] /\ faults < MaxFaults
  /\ faults' = faults + 1
  /\ marker' = marker \cup {n}
  /\ pc' = "idle"
  /\ UNCHANGED <<up, ip, config, unit, edgeConf, hostConf, procs, seen, npc, epc, wasUp,
                 dirty, serverIP, healthy, reboots>>

\* The host reboots, resume or not; or, between resumes, one VM goes down.
Reboot(S) ==
  /\ reboots < MaxReboots
  /\ S = Nodes \/ pc \in {"idle", "done"}
  /\ reboots' = reboots + 1
  /\ up' = up \ S
  /\ jobs' = jobs \ S
  /\ pc' = "idle"
  /\ UNCHANGED <<ip, disk, run, edgeRun, seen, npc, epc, wasUp, dirty, serverIP, healthy, faults>>

\* A cluster as Create leaves it, by this version or by one with another unit file.
Init ==
  /\ up = Nodes
  /\ LET a == CHOOSE f \in Addresses : TRUE IN
       /\ ip = a /\ nodeLive = a /\ pods = a
       /\ config = [n \in Nodes |-> [ip |-> a[n], server |-> a[CP]]] /\ run = config
       /\ edgeConf = [n \in Nodes |-> a[CP]] /\ edgeRun = edgeConf
       /\ hostConf = a[CP] /\ serverIP = a[CP]
  /\ unit \in {Nodes, {}} /\ jobs = {} /\ marker = {} /\ ready = Nodes
  /\ pc = "idle" /\ npc = [n \in Nodes |-> "ok"] /\ epc = [n \in Nodes |-> "ok"]
  /\ wasUp = Nodes /\ dirty = {} /\ healthy = FALSE /\ faults = 0 /\ reboots = 0

NodeStep(n) ==
  \/ BootAgent(n) \/ updateK3sSystemdConfig(n) \/ ensureK3sGPUUnit(n)
  \/ ensureK3sSystemdService(n)
  \/ EdgeHealthy(n) \/ EdgeUnhealthy(n) \/ EdgeRewrite(n) \/ EdgeRestart(n)

ResumeStep ==
  \/ BootServer \/ ServerDone \/ waitK3sAPI \/ AgentsDone \/ waitK3sNodeAddresses
  \/ refreshOptionalNodeExporter \/ EdgeDone \/ WriteKubeconfig
  \/ \E n \in Nodes : NodeStep(n)

Environment(n) == SystemdRestart(n) \/ K3sExits(n) \/ KubeletReport(n) \/ NodeLost(n)

\* waitK3sNodeAddresses (or waitK3sAPI) gives up; the user runs resume again.
TimeOut ==
  /\ pc \in {"api", "addresses"}
  /\ pc' = "idle"
  /\ UNCHANGED <<up, ip, disk, procs, seen, npc, epc, wasUp, dirty, serverIP, bounds>>

Next ==
  \/ Resume \/ ResumeStep \/ TimeOut \/ Fail
  \/ \E n \in Nodes : Environment(n) \/ EdgeExits(n) \/ EdgeMarked(n) \/ Reboot({n})
  \/ Reboot(Nodes)

-----------------------------------------------------------------------------
(* Properties.                                                             *)

\* A resume that reports success leaves the files, Nodes and user's kubeconfig with
\* the current addresses, and unless some resume failed before it every k3s running
\* with, or queued to restart with, its file.  One that fails between writing the
\* file and restarting k3s is not made up for: the next sees nothing changed.
SuccessMeansHealed ==
  pc = "done" => /\ FilesHealed /\ hostConf = ip[CP]
                 /\ faults = 0 => LeftBehind = {}

\* Whatever was interrupted before, a successful resume leaves every edge proxy
\* running with the current server, and no restart-required file.
InterruptedProxiesHealed == pc = "done" => ProxiesHealed /\ marker = {}

\* A resume that finds a healed cluster restarts no VM, no k3s and no proxy.
HealedResumeIsNoOp ==
  healthy /\ pc \notin {"idle", "done"} /\ reboots' = reboots
    => UNCHANGED <<up, ip, config, procs, edgeConf>>

\* A successful resume that booted or changed a node leaves every node-exporter pod
\* with its node's address: the rollout comes after the Nodes have theirs.
PodsFollowNodes == pc = "done" /\ nodesChanged => pods = ip

\* A user who keeps running resume gets a healed cluster that stays so, unless a
\* resume failed and left a k3s behind.
Recovered ==
  pc \in {"idle", "done"} => (NodesHealed /\ ProxiesHealed) \/ (faults > 0 /\ LeftBehind # {})
=============================================================================
