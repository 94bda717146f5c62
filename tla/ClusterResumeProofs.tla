-------------------------- MODULE ClusterResumeProofs --------------------------
(***************************************************************************)
(* The safety properties of ClusterResume, for every number of workers, of *)
(* failures and of reboots and for every pair of networks.  Each procedure *)
(* has an inductive invariant of its own: kInv for kubeadm on both         *)
(* backends, cInv for k3s on apple/container, sInv for k3s on krunkit.     *)
(***************************************************************************)
EXTENDS ClusterResume, TLAPS

(***************************************************************************)
(* kubeadm.                                                                *)
(***************************************************************************)

\* The steps of a kubeadm resume after the healing script.
kAfterScript == {"workers", "api", "configmaps", "addresses", "refresh", "kubeconfig", "done"}

\* What the resume has read, written or waited for by the step it is at.
kProgress ==
  /\ pc \notin {"idle", "boot"} => up = Kubeadm!Nodes
  /\ pc = "nodes" => pinned
  /\ pc \in {"heal"} \cup Kubeadm!ScriptSteps \cup kAfterScript => newIP = ip[CP]
  /\ pc \in {"heal"} \cup Kubeadm!ScriptSteps => oldIP # newIP
  /\ pc = "heal" => admin = oldIP
  /\ pc \in Kubeadm!ScriptSteps \cup kAfterScript => admin = ip[CP]
  /\ pc \in {"configmaps", "addresses", "refresh", "kubeconfig", "done"} =>
       Kubeadm!Serving /\ \A w \in Workers : workerConf[w] = ip[CP]
  /\ pc = "workers" /\ backend = "krunkit" => Kubeadm!Serving
  /\ pc = "api" /\ backend = "container" => \A w \in Workers : workerConf[w] = ip[CP]
  /\ pc \in {"addresses", "refresh", "kubeconfig", "done"} => configMaps = ip[CP]
  /\ pc = "done" => hostConf = ip[CP]

\* What a running kubelet has loaded, against its files.
kKubelets ==
  /\ CP \in up => kubelet[CP] = confs \/ confs = ip[CP]
  /\ \A w \in Workers : w \in up => kubelet[w] = workerConf[w] \/ "worker" \in cut
  /\ \A n \in Kubeadm!Nodes : n \in up =>
       IF pinned THEN nodeLive[n] = nodeIP[n] \/ (nodeIP[n] = ip[n] /\ "node address" \in cut)
       ELSE nodeLive[n] = ip[n]
  /\ pinned /\ pc \notin {"idle", "boot", "nodes"} => \A n \in Kubeadm!Nodes : nodeIP[n] = ip[n]

\* apple/container: the entrypoint keeps the control plane's files on the VM's
\* address, so that only the certificate and admin.conf are ever behind.
kContainer ==
  backend = "container" =>
    /\ pc \notin {"addresses", "refresh"}
    /\ confs = ip[CP] /\ manifests = ip[CP] /\ cert \in {None, ip[CP]}
    /\ CP \in up => kubelet[CP] = ip[CP]
    /\ pc \in {"confs", "manifests"} => needCert \/ cert = ip[CP]
    /\ pc = "kubelet" => cert = ip[CP]
    /\ CP \in up /\ admin = ip[CP] /\ "control plane" \notin cut
         /\ pc \notin {"heal"} \cup Kubeadm!ScriptSteps => cert = ip[CP]

\* krunkit: unless a script was cut off, the control plane's files move together.
kKrunkit ==
  backend = "krunkit" =>
    /\ pinned
    /\ pc \in {"refresh", "kubeconfig", "done"} =>
         \A n \in Kubeadm!Nodes : nodeLive[n] = ip[n] /\ kubelet[n] = ip[CP]
    /\ faults = 0 => cut \subseteq {"control plane"}
    /\ "control plane" \notin cut =>
         /\ pc \notin Kubeadm!ScriptSteps => confs = admin /\ manifests = admin /\ cert = admin
         /\ pc \in {"confs", "manifests"} => needCert /\ manifests = oldIP
         /\ pc = "confs" => confs = oldIP
         /\ pc \in {"manifests", "rmcert", "gencert", "kubelet"} => confs = newIP
         /\ pc \in {"rmcert", "gencert", "kubelet"} => manifests = newIP
         /\ pc = "kubelet" => cert = newIP

\* A resume that timed out leaves a cluster that no later one of this boot gets
\* through: nothing is left to heal, and the API server or its kubelet is behind.
kStuck ==
  /\ up = Kubeadm!Nodes /\ admin = ip[CP] /\ \A n \in Kubeadm!Nodes : nodeIP[n] = ip[n]
  /\ ~Kubeadm!Serving \/ kubelet[CP] # ip[CP]

\* Pods with an old address are refreshed by the resume that sees a change; one that
\* saw it and timed out leaves the cluster stuck.
kPods ==
  backend = "krunkit" /\ faults = 0 =>
    /\ pc = "idle" => pods = ip \/ up # Kubeadm!Nodes \/ kStuck
    /\ pc = "boot" => changed \/ (up = Kubeadm!Nodes /\ (pods = ip \/ kStuck))
    /\ pc \in {"nodes", "read", "workers", "api", "configmaps", "addresses", "refresh"} =>
         changed \/ pods = ip \/ kStuck
    /\ pc \in {"heal"} \cup Kubeadm!ScriptSteps => changed \/ pods = ip
    /\ pc \in {"kubeconfig", "done"} => pods = ip

kInv == Kubeadm!TypeOK /\ kProgress /\ kKubelets /\ kContainer /\ kKrunkit /\ kPods

(***************************************************************************)
(* k3s on apple/container.                                                 *)
(***************************************************************************)

\* The steps after every agent is healed.
cAfterWorkers == {"addresses", "refresh", "edge", "mark", "kubeconfig", "done"}

cProgress ==
  /\ pc \in {"server", "read"} => \A w \in Workers : wpc[w] = "start"
  /\ pc \in {"server", "read", "workers", "addresses", "refresh"} =>
       \A n \in K3s!Nodes : epc[n] = "check"
  /\ pc \notin {"idle", "done"} /\ wasUp # K3s!Nodes => restarted
  /\ pc \in {"workers"} \cup cAfterWorkers => CP \in up /\ target = ip[CP]
  /\ pc = "workers" => \A w \in Workers :
       /\ wpc[w] \in {"stop", "again", "verify"} => restarted
       /\ wpc[w] \in {"stop", "again", "verify", "ok"} => url[w] = target
       /\ wpc[w] = "ok" => w \in up /\ agent[w] = target
  /\ pc \in cAfterWorkers =>
       up = K3s!Nodes /\ \A w \in Workers : url[w] = target /\ agent[w] = target
  /\ pc \in {"refresh", "edge", "mark", "kubeconfig", "done"} => nodeLive = ip
  /\ pc = "done" => hostConf = target

\* The proxies' part of the resume.
cEdges ==
  /\ pc \in {"edge", "mark"} => \A n \in K3s!Nodes :
       /\ epc[n] = "kill" => edgeConf[n] = target /\ (edgeMark[n] = target => edgeRun[n] = None)
       /\ epc[n] = "supervise" => edgeConf[n] = target /\ edgeRun[n] \in {None, target}
       /\ epc[n] \in {"on", "marked"} => edgeConf[n] = target /\ edgeRun[n] = target
  /\ pc \in {"kubeconfig", "done"} =>
       \A n \in K3s!Nodes : edgeConf[n] = target /\ edgeRun[n] = target

\* Addresses do not come back, so that a marker with the running server's address
\* was written in this boot of the server, after every agent was healed.
cMarks ==
  CP \in up => \A n \in K3s!Nodes : edgeMark[n] = ip[CP] =>
    /\ edgeConf[n] = ip[CP] /\ edgeRun[n] \in {None, ip[CP]}
    /\ \A w \in Workers :
         /\ url[w] = ip[CP] /\ (w \in up => agent[w] = ip[CP])
         /\ pc = "workers" => wpc[w] \notin {"stop", "again", "verify"}

cPods ==
  faults = 0 =>
    /\ pc = "idle" => pods = ip \/ up # K3s!Nodes
    /\ pc \in {"server", "read", "workers", "addresses", "refresh"} => pods = ip \/ restarted
    /\ pc \in {"edge", "mark", "kubeconfig", "done"} => pods = ip

cInv == K3s!TypeOK /\ cProgress /\ cEdges /\ cMarks /\ cPods

(***************************************************************************)
(* k3s on krunkit.                                                         *)
(***************************************************************************)

sAfterAgents == {"addresses", "refresh", "edge", "kubeconfig", "done"}

sProgress ==
  /\ pc = "start" => \A n \in Systemd!Nodes : npc[n] = "boot"
  /\ pc \in {"server", "api"} => \A w \in Workers : npc[w] = "boot"
  /\ pc \in {"api", "agents"} => npc[CP] = "ok"
  /\ pc \in sAfterAgents => \A n \in Systemd!Nodes : npc[n] = "ok"
  /\ pc \in {"server", "api", "agents"} \cup sAfterAgents => CP \in up /\ serverIP = ip[CP]
  /\ pc # "idle" => \A n \in Systemd!Nodes :
       /\ npc[n] # "boot" => n \in up
       /\ npc[n] \in {"unit", "service", "ok"} => config[n] = Systemd!Want(n)
  /\ pc \in {"refresh", "edge", "kubeconfig", "done"} => nodeLive = ip
  /\ pc \in {"edge", "kubeconfig", "done"} /\ Systemd!nodesChanged => pods = ip
  /\ pc = "done" => hostConf = ip[CP]

\* A k3s runs with its file unless a restart is queued, or will be by this resume.
sRuns ==
  /\ jobs \subseteq up
  /\ faults = 0 => \A n \in up :
       \/ run[n] = config[n] \/ n \in jobs
       \/ n \in dirty /\ npc[n] \in {"unit", "service"} /\ pc \in {"server", "agents"}

\* A proxy runs with its file unless the marker is there.
sEdges ==
  /\ \A n \in up : edgeRun[n] = edgeConf[n] \/ n \in marker
  /\ pc \in {"start", "server", "api", "agents", "addresses", "refresh"} =>
       \A n \in Systemd!Nodes : epc[n] = "check"
  /\ pc \in {"edge", "kubeconfig", "done"} => \A n \in Systemd!Nodes :
       /\ epc[n] \in {"restart", "ok"} => edgeConf[n] = ip[CP]
       /\ epc[n] = "ok" => edgeRun[n] = ip[CP] /\ n \notin marker
  /\ pc \in {"kubeconfig", "done"} => \A n \in Systemd!Nodes : epc[n] = "ok"

sHealthy ==
  healthy /\ pc \notin {"idle", "done"} =>
    /\ Systemd!NodesHealed /\ Systemd!ProxiesHealed
    /\ jobs = {} /\ unit = Systemd!Nodes /\ marker = {} /\ wasUp = Systemd!Nodes /\ dirty = {}
    /\ \A n \in Systemd!Nodes : epc[n] # "restart"

sInv == Systemd!TypeOK /\ sProgress /\ sRuns /\ sEdges /\ sHealthy

(***************************************************************************)
(* The cluster.                                                            *)
(***************************************************************************)

Inv ==
  /\ isKubeadm \/ isK3s \/ isSystemd
  /\ isKubeadm => kInv
  /\ isK3s => cInv
  /\ isSystemd => sInv

-----------------------------------------------------------------------------
(* kubeadm: the addresses a boot may get.                                  *)

\* An address offered to a booting VM is one of its network's; apple/container's
\* is none that a file of the cluster still has.
LEMMA kOffered ==
  ASSUME Kubeadm!TypeOK, NEW a \in Kubeadm!Offered
  PROVE  a \in Kubeadm!IPs /\ (backend = "container" => a # admin)
  <1> DEFINE lease == [container |-> ContainerIPs, krunkit |-> KrunkitIPs]
  <1>1. backend \in {"container", "krunkit"} BY Zenon DEF Kubeadm!TypeOK
  <1>2. a \in lease[backend]
    <2>1. CASE backend \in {"container"} BY <2>1 DEF Kubeadm!Offered
    <2>2. CASE backend \notin {"container"} BY <2>2 DEF Kubeadm!Offered
    <2> QED BY <2>1, <2>2
  <1>3. a \in Kubeadm!IPs BY <1>1, <1>2, Zenon DEF Kubeadm!IPs
  <1>4. ASSUME backend = "container" PROVE a # admin
    BY <1>4 DEF Kubeadm!Offered, Kubeadm!Recorded
  <1> QED BY <1>3, <1>4, Zenon

\* A kubeadm cluster starts with its types: every node has an address of its network.
LEMMA kTypeInit == Kubeadm!ResumeAssumption /\ Kubeadm!Init => Kubeadm!TypeOK
  <1> SUFFICES ASSUME Kubeadm!ResumeAssumption, Kubeadm!Init PROVE Kubeadm!TypeOK OBVIOUS
  <1> DEFINE lease == [container |-> ContainerIPs, krunkit |-> KrunkitIPs]
  <1>1. backend \in {"container", "krunkit"} BY Zenon DEF Kubeadm!Init
  <1>2. PICK a : a = CHOOSE f \in Kubeadm!Addresses(lease[backend]) : TRUE OBVIOUS
  <1>3. a \in Kubeadm!Addresses(lease[backend])
    BY <1>1, <1>2, Zenon DEF Kubeadm!ResumeAssumption
  <1>4. a \in [Kubeadm!Nodes -> lease[backend]] BY <1>3, Zenon DEF Kubeadm!Addresses
  <1>5. \A x \in lease[backend] : x \in Kubeadm!IPs BY <1>1, Zenon DEF Kubeadm!IPs
  <1>6. a \in [Kubeadm!Nodes -> Kubeadm!IPs] BY <1>4, <1>5, Zenon
  <1>7. CP \in Kubeadm!Nodes /\ \A w \in Workers : w \in Kubeadm!Nodes BY Zenon
       DEF Kubeadm!Nodes
  <1>8. a[CP] \in Kubeadm!IPs BY <1>6, <1>7, Zenon
  <1>9. /\ ip = a /\ nodeIP = a /\ nodeLive = a /\ pods = a
        /\ admin = a[CP] /\ confs = a[CP] /\ manifests = a[CP] /\ cert = a[CP]
        /\ configMaps = a[CP] /\ hostConf = a[CP] /\ oldIP = a[CP] /\ newIP = a[CP]
        /\ workerConf = [w \in Workers |-> a[CP]]
        /\ kubelet = [n \in Kubeadm!Nodes |-> a[CP]]
    BY <1>2, SMT DEF Kubeadm!Init
  <1>10. faults \in 0 .. MaxFaults /\ reboots \in 0 .. MaxReboots
    BY DEF Kubeadm!Init, Kubeadm!ResumeAssumption
  <1>11. pc \in Kubeadm!Steps BY DEF Kubeadm!Init, Kubeadm!Steps
  <1> QED BY <1>1, <1>6, <1>8, <1>9, <1>10, <1>11, Zenon DEF Kubeadm!Init, Kubeadm!TypeOK

-----------------------------------------------------------------------------
(* kubeadm: the type invariant.                                            *)

\* A counter below its bound may be raised by one.
LEMMA Counts == \A k, m : m \in Nat /\ k \in 0 .. m /\ k < m => k + 1 \in 0 .. m
  OBVIOUS

\* Every step of a kubeadm cluster keeps the types.
LEMMA kTypeStep ==
  ASSUME Kubeadm!ResumeAssumption, Kubeadm!TypeOK, Kubeadm!Next
  PROVE  Kubeadm!TypeOK'
  <1> USE DEF Kubeadm!files, Kubeadm!live, Kubeadm!local, Kubeadm!env, Kubeadm!Goto,
       Kubeadm!TypeOK, Kubeadm!Steps
  <1>0. CP \in Kubeadm!Nodes /\ \A w \in Workers : w \in Kubeadm!Nodes BY Zenon
       DEF Kubeadm!Nodes
  <1>1. CASE Kubeadm!Resume
    BY <1>0, <1>1, Zenon DEF Kubeadm!Resume
  <1>2. CASE Kubeadm!AllBooted
    BY <1>0, <1>2, Zenon DEF Kubeadm!AllBooted
  <1>3. CASE Kubeadm!NodesPrepared
    BY <1>0, <1>3, Zenon DEF Kubeadm!NodesPrepared
  <1>4. CASE Kubeadm!ReadAddresses
    BY <1>0, <1>4, Zenon DEF Kubeadm!ReadAddresses, Kubeadm!AfterControlPlane
  <1>5. CASE Kubeadm!HealAdmin
    BY <1>0, <1>5, Zenon DEF Kubeadm!HealAdmin, Kubeadm!sed
  <1>6. CASE Kubeadm!HealConfs
    BY <1>0, <1>6, Zenon DEF Kubeadm!HealConfs, Kubeadm!sed
  <1>7. CASE Kubeadm!HealManifests
    BY <1>0, <1>7, Zenon DEF Kubeadm!HealManifests, Kubeadm!sed
  <1>8. CASE Kubeadm!RemoveCert
    BY <1>0, <1>8, Zenon DEF Kubeadm!RemoveCert
  <1>9. CASE Kubeadm!GenerateCert
    BY <1>0, <1>9, Zenon DEF Kubeadm!GenerateCert
  <1>10. CASE Kubeadm!RestartKubelet
    BY <1>0, <1>10, Zenon DEF Kubeadm!RestartKubelet, Kubeadm!AfterControlPlane
  <1>11. CASE Kubeadm!WorkersHealed
    BY <1>0, <1>11, Zenon DEF Kubeadm!WorkersHealed
  <1>12. CASE Kubeadm!WaitAPIServer
    BY <1>0, <1>12, Zenon DEF Kubeadm!WaitAPIServer
  <1>13. CASE Kubeadm!HealConfigMaps
    BY <1>0, <1>13, Zenon DEF Kubeadm!HealConfigMaps
  <1>14. CASE Kubeadm!WaitNodeAddresses
    BY <1>0, <1>14, Zenon DEF Kubeadm!WaitNodeAddresses
  <1>15. CASE Kubeadm!RefreshPods
    BY <1>0, <1>15, Zenon DEF Kubeadm!RefreshPods
  <1>16. CASE Kubeadm!WriteKubeconfig
    BY <1>0, <1>16, Zenon DEF Kubeadm!WriteKubeconfig
  <1>17. CASE Kubeadm!TimeOut
    BY <1>0, <1>17, Zenon DEF Kubeadm!TimeOut
  <1>18. CASE Kubeadm!Fail
    <2>1. faults' \in 0 .. MaxFaults BY <1>18, Counts, Zenon DEF Kubeadm!Fail,
         Kubeadm!ResumeAssumption
    <2> QED BY <2>1, <1>18, Zenon DEF Kubeadm!Fail, Kubeadm!Cut
  <1>19. CASE Kubeadm!Reboot
    <2>1. reboots' \in 0 .. MaxReboots BY <1>19, Counts, Zenon DEF Kubeadm!Reboot,
         Kubeadm!ResumeAssumption
    <2> QED BY <2>1, <1>19, Zenon DEF Kubeadm!Reboot, Kubeadm!Cut
  <1>20. ASSUME NEW n \in Kubeadm!Nodes, Kubeadm!BootNode(n) PROVE Kubeadm!TypeOK'
    <2>1. PICK a \in Kubeadm!Offered :
            /\ ip' = [ip EXCEPT ![n] = a]
            /\ IF n = CP
                 THEN /\ confs' = Kubeadm!entrypointFix(confs, a)
                      /\ manifests' = Kubeadm!entrypointFix(manifests, a)
                      /\ cert' = IF Kubeadm!entrypointDies(a) THEN None ELSE cert
                      /\ up' = IF Kubeadm!entrypointDies(a) THEN up ELSE up \cup {n}
                      /\ kubelet' = [kubelet EXCEPT ![n] = confs']
                 ELSE /\ up' = up \cup {n}
                      /\ kubelet' = [kubelet EXCEPT ![n] = workerConf[n]]
                      /\ UNCHANGED <<confs, manifests, cert>>
            /\ nodeLive' = [nodeLive EXCEPT ![n] = IF pinned THEN nodeIP[n] ELSE a]
      BY <1>20, Zenon DEF Kubeadm!BootNode
    <2> HIDE DEF Kubeadm!TypeOK, Kubeadm!Steps
    <2>2. a \in Kubeadm!IPs BY kOffered, Zenon
    <2>3. n # CP => n \in Workers BY Zenon DEF Kubeadm!Nodes
    <2>t. /\ confs \in Kubeadm!IPs /\ manifests \in Kubeadm!IPs /\ cert \in Kubeadm!IPs \cup {None}
          /\ up \subseteq Kubeadm!Nodes /\ workerConf \in [Workers -> Kubeadm!IPs]
          /\ ip \in [Kubeadm!Nodes -> Kubeadm!IPs] /\ kubelet \in [Kubeadm!Nodes -> Kubeadm!IPs]
          /\ nodeIP \in [Kubeadm!Nodes -> Kubeadm!IPs] /\ nodeLive \in [Kubeadm!Nodes -> Kubeadm!IPs]
      BY Zenon DEF Kubeadm!TypeOK
    <2>4. confs' \in Kubeadm!IPs /\ manifests' \in Kubeadm!IPs /\ cert' \in Kubeadm!IPs \cup {None}
          /\ up' \subseteq Kubeadm!Nodes /\ kubelet' \in [Kubeadm!Nodes -> Kubeadm!IPs]
      <3>1. CASE n = CP
        <4>1. confs' \in Kubeadm!IPs /\ manifests' \in Kubeadm!IPs
          BY <2>t, <2>1, <2>2, <3>1, Zenon DEF Kubeadm!entrypointFix
        <4>2. kubelet' \in [Kubeadm!Nodes -> Kubeadm!IPs] BY <2>t, <2>1, <3>1, <4>1, Zenon
        <4>3. cert' \in Kubeadm!IPs \cup {None} /\ up' \subseteq Kubeadm!Nodes
          BY <2>t, <2>1, <3>1, Zenon
        <4> QED BY <4>1, <4>2, <4>3, Zenon
      <3>2. CASE n # CP BY <2>t, <2>1, <2>2, <2>3, <3>2, <1>0, Zenon
      <3> QED BY <3>1, <3>2, Zenon
    <2>5. ip' \in [Kubeadm!Nodes -> Kubeadm!IPs] /\ nodeLive' \in [Kubeadm!Nodes -> Kubeadm!IPs]
      BY <2>t, <2>1, <2>2, <1>0, Zenon
    <2> QED BY <2>4, <2>5, <1>20, Zenon DEF Kubeadm!BootNode, Kubeadm!TypeOK
  <1>21. ASSUME NEW n \in Kubeadm!Nodes, Kubeadm!SetNodeIP(n) PROVE Kubeadm!TypeOK'
    <2>1. nodeIP' \in [Kubeadm!Nodes -> Kubeadm!IPs] /\ nodeLive' \in [Kubeadm!Nodes -> Kubeadm!IPs]
      BY <1>21, Zenon DEF Kubeadm!SetNodeIP
    <2>2. n # CP => n \in Workers BY Zenon DEF Kubeadm!Nodes
    <2>3. kubelet' \in [Kubeadm!Nodes -> Kubeadm!IPs]
      <3>1. PICK c \in Kubeadm!IPs : c = IF n = CP THEN confs ELSE workerConf[n]
        BY <2>2, Zenon
      <3> QED BY <3>1, <1>21, Zenon DEF Kubeadm!SetNodeIP
    <2> QED BY <2>1, <2>3, <1>21, Zenon DEF Kubeadm!SetNodeIP
  <1>22. ASSUME NEW w \in Workers, Kubeadm!HealWorker(w) PROVE Kubeadm!TypeOK'
    BY <1>0, <1>22, Zenon DEF Kubeadm!HealWorker
  <1>23. ASSUME NEW w \in Workers, Kubeadm!HealWorkerFails(w) PROVE Kubeadm!TypeOK'
    <2>1. faults' \in 0 .. MaxFaults BY <1>23, Counts, Zenon DEF Kubeadm!HealWorkerFails,
         Kubeadm!ResumeAssumption
    <2> QED BY <2>1, <1>23, Zenon DEF Kubeadm!HealWorkerFails, Kubeadm!Cut
  <1>24. ASSUME NEW n \in Kubeadm!Nodes, Kubeadm!SetNodeIPFails(n) PROVE Kubeadm!TypeOK'
    <2>1. faults' \in 0 .. MaxFaults BY <1>24, Counts, Zenon DEF Kubeadm!SetNodeIPFails,
         Kubeadm!ResumeAssumption
    <2> QED BY <2>1, <1>24, Zenon DEF Kubeadm!SetNodeIPFails, Kubeadm!Cut
  <1> QED BY <1>1, <1>2, <1>3, <1>4, <1>5, <1>6, <1>7, <1>8, <1>9, <1>10, <1>11, <1>12,
    <1>13, <1>14, <1>15, <1>16, <1>17, <1>18, <1>19, <1>20, <1>21, <1>22, <1>23, <1>24,
    Zenon DEF Kubeadm!Next, Kubeadm!ResumeStep

-----------------------------------------------------------------------------
(* kubeadm: what the resume knows at each step.                            *)

\* Every step of a kubeadm cluster keeps kProgress.
LEMMA kProgressStep ==
  ASSUME Kubeadm!TypeOK, kProgress, Kubeadm!Next
  PROVE  kProgress'
  <1> USE DEF Kubeadm!files, Kubeadm!live, Kubeadm!local, Kubeadm!env, Kubeadm!Goto,
       kProgress, Kubeadm!ScriptSteps, kAfterScript, Kubeadm!Serving
  <1>0. CP \in Kubeadm!Nodes /\ \A w \in Workers : w \in Kubeadm!Nodes BY Zenon
       DEF Kubeadm!Nodes
  <1>1. CASE Kubeadm!Resume
    BY <1>0, <1>1, Zenon DEF Kubeadm!Resume
  <1>2. CASE Kubeadm!AllBooted
    BY <1>0, <1>2, Zenon DEF Kubeadm!AllBooted
  <1>3. CASE Kubeadm!NodesPrepared
    BY <1>0, <1>3, Zenon DEF Kubeadm!NodesPrepared
  <1>4. CASE Kubeadm!ReadAddresses
    BY <1>0, <1>4, Zenon DEF Kubeadm!ReadAddresses, Kubeadm!AfterControlPlane
  <1>5. CASE Kubeadm!HealAdmin
    BY <1>0, <1>5, Zenon DEF Kubeadm!HealAdmin, Kubeadm!sed
  <1>6. CASE Kubeadm!HealConfs
    BY <1>0, <1>6, Zenon DEF Kubeadm!HealConfs, Kubeadm!sed
  <1>7. CASE Kubeadm!HealManifests
    BY <1>0, <1>7, Zenon DEF Kubeadm!HealManifests, Kubeadm!sed
  <1>8. CASE Kubeadm!RemoveCert
    BY <1>0, <1>8, Zenon DEF Kubeadm!RemoveCert
  <1>9. CASE Kubeadm!GenerateCert
    BY <1>0, <1>9, Zenon DEF Kubeadm!GenerateCert
  <1>10. CASE Kubeadm!RestartKubelet
    BY <1>0, <1>10, Zenon DEF Kubeadm!RestartKubelet, Kubeadm!AfterControlPlane
  <1>11. CASE Kubeadm!WorkersHealed
    BY <1>0, <1>11, Zenon DEF Kubeadm!WorkersHealed
  <1>12. CASE Kubeadm!WaitAPIServer
    <2>1. backend \in {"container", "krunkit"} BY Zenon DEF Kubeadm!TypeOK
    <2> QED BY <1>0, <2>1, <1>12, Zenon DEF Kubeadm!WaitAPIServer
  <1>13. CASE Kubeadm!HealConfigMaps
    BY <1>0, <1>13, Zenon DEF Kubeadm!HealConfigMaps
  <1>14. CASE Kubeadm!WaitNodeAddresses
    BY <1>0, <1>14, Zenon DEF Kubeadm!WaitNodeAddresses
  <1>15. CASE Kubeadm!RefreshPods
    BY <1>0, <1>15, Zenon DEF Kubeadm!RefreshPods
  <1>16. CASE Kubeadm!WriteKubeconfig
    BY <1>0, <1>16, Zenon DEF Kubeadm!WriteKubeconfig
  <1>17. CASE Kubeadm!TimeOut
    BY <1>0, <1>17, Zenon DEF Kubeadm!TimeOut
  <1>18. CASE Kubeadm!Fail
    BY <1>0, <1>18, Zenon DEF Kubeadm!Fail, Kubeadm!Cut
  <1>19. CASE Kubeadm!Reboot
    BY <1>0, <1>19, Zenon DEF Kubeadm!Reboot, Kubeadm!Cut
  <1>20. ASSUME NEW n \in Kubeadm!Nodes, Kubeadm!BootNode(n) PROVE kProgress'
    BY <1>0, <1>20, Zenon DEF Kubeadm!BootNode
  <1>21. ASSUME NEW n \in Kubeadm!Nodes, Kubeadm!SetNodeIP(n) PROVE kProgress'
    BY <1>0, <1>21, Zenon DEF Kubeadm!SetNodeIP
  <1>22. ASSUME NEW w \in Workers, Kubeadm!HealWorker(w) PROVE kProgress'
    BY <1>0, <1>22, Zenon DEF Kubeadm!HealWorker
  <1>23. ASSUME NEW w \in Workers, Kubeadm!HealWorkerFails(w) PROVE kProgress'
    BY <1>0, <1>23, Zenon DEF Kubeadm!HealWorkerFails, Kubeadm!Cut
  <1>24. ASSUME NEW n \in Kubeadm!Nodes, Kubeadm!SetNodeIPFails(n) PROVE kProgress'
    BY <1>0, <1>24, Zenon DEF Kubeadm!SetNodeIPFails, Kubeadm!Cut
  <1> QED BY <1>1, <1>2, <1>3, <1>4, <1>5, <1>6, <1>7, <1>8, <1>9, <1>10, <1>11, <1>12,
    <1>13, <1>14, <1>15, <1>16, <1>17, <1>18, <1>19, <1>20, <1>21, <1>22, <1>23, <1>24,
    Zenon DEF Kubeadm!Next, Kubeadm!ResumeStep

\* Every step of a kubeadm cluster keeps kKubelets.
LEMMA kKubeletsStep ==
  ASSUME Kubeadm!ResumeAssumption, Kubeadm!TypeOK, kProgress, kKubelets, Kubeadm!Next
  PROVE  kKubelets'
  <1> USE DEF Kubeadm!files, Kubeadm!live, Kubeadm!local, Kubeadm!env, Kubeadm!Goto, kKubelets
  <1>0. CP \in Kubeadm!Nodes /\ \A w \in Workers : w \in Kubeadm!Nodes /\ w # CP
    BY Zenon DEF Kubeadm!Nodes, Kubeadm!ResumeAssumption
  <1>t. /\ kubelet \in [Kubeadm!Nodes -> Kubeadm!IPs] /\ ip \in [Kubeadm!Nodes -> Kubeadm!IPs]
        /\ nodeIP \in [Kubeadm!Nodes -> Kubeadm!IPs] /\ nodeLive \in [Kubeadm!Nodes -> Kubeadm!IPs]
        /\ workerConf \in [Workers -> Kubeadm!IPs]
    BY Zenon DEF Kubeadm!TypeOK
  <1>1. CASE Kubeadm!Resume
    BY <1>0, <1>1, Zenon DEF Kubeadm!Resume
  <1>2. CASE Kubeadm!AllBooted
    BY <1>0, <1>2, Zenon DEF Kubeadm!AllBooted
  <1>3. CASE Kubeadm!NodesPrepared
    BY <1>0, <1>3, Zenon DEF Kubeadm!NodesPrepared
  <1>4. CASE Kubeadm!ReadAddresses
    BY <1>0, <1>4, Zenon DEF Kubeadm!ReadAddresses, Kubeadm!AfterControlPlane
  <1>5. CASE Kubeadm!HealAdmin
    BY <1>0, <1>5, Zenon DEF Kubeadm!HealAdmin, Kubeadm!sed
  <1>6. CASE Kubeadm!HealConfs
    <2>1. newIP = ip[CP] BY <1>6, Zenon DEF Kubeadm!HealConfs, kProgress, Kubeadm!ScriptSteps
    <2>2. kubelet[CP] = confs' \/ confs' = ip[CP] \/ CP \notin up
      BY <2>1, <1>6, Zenon DEF Kubeadm!HealConfs, Kubeadm!sed
    <2> QED BY <2>2, <1>6, Zenon DEF Kubeadm!HealConfs
  <1>7. CASE Kubeadm!HealManifests
    BY <1>0, <1>7, Zenon DEF Kubeadm!HealManifests, Kubeadm!sed
  <1>8. CASE Kubeadm!RemoveCert
    BY <1>0, <1>8, Zenon DEF Kubeadm!RemoveCert
  <1>9. CASE Kubeadm!GenerateCert
    BY <1>0, <1>9, Zenon DEF Kubeadm!GenerateCert
  <1>10. CASE Kubeadm!RestartKubelet
    <2>1. kubelet'[CP] = confs BY <1>0, <1>t, <1>10, Zenon DEF Kubeadm!RestartKubelet
    <2>2. \A w \in Workers : kubelet'[w] = kubelet[w]
      BY <1>0, <1>t, <1>10, Zenon DEF Kubeadm!RestartKubelet
    <2>3. pc' \notin {"idle", "boot", "nodes"} /\ pc \notin {"idle", "boot", "nodes"}
      BY <1>10, Zenon DEF Kubeadm!RestartKubelet, Kubeadm!AfterControlPlane
    <2> QED BY <2>1, <2>2, <2>3, <1>10, Zenon DEF Kubeadm!RestartKubelet
  <1>11. CASE Kubeadm!WorkersHealed
    BY <1>0, <1>11, Zenon DEF Kubeadm!WorkersHealed
  <1>12. CASE Kubeadm!WaitAPIServer
    BY <1>0, <1>12, Zenon DEF Kubeadm!WaitAPIServer
  <1>13. CASE Kubeadm!HealConfigMaps
    BY <1>0, <1>13, Zenon DEF Kubeadm!HealConfigMaps
  <1>14. CASE Kubeadm!WaitNodeAddresses
    BY <1>0, <1>14, Zenon DEF Kubeadm!WaitNodeAddresses
  <1>15. CASE Kubeadm!RefreshPods
    BY <1>0, <1>15, Zenon DEF Kubeadm!RefreshPods
  <1>16. CASE Kubeadm!WriteKubeconfig
    BY <1>0, <1>16, Zenon DEF Kubeadm!WriteKubeconfig
  <1>17. CASE Kubeadm!TimeOut
    BY <1>0, <1>17, Zenon DEF Kubeadm!TimeOut
  <1>18. CASE Kubeadm!Fail
    BY <1>0, <1>18, Zenon DEF Kubeadm!Fail, Kubeadm!Cut
  <1>19. CASE Kubeadm!Reboot
    BY <1>0, <1>19, Zenon DEF Kubeadm!Reboot, Kubeadm!Cut
  <1>20. ASSUME NEW n \in Kubeadm!Nodes, Kubeadm!BootNode(n) PROVE kKubelets'
    <2>1. PICK a \in Kubeadm!Offered :
            /\ ip' = [ip EXCEPT ![n] = a]
            /\ IF n = CP
                 THEN /\ confs' = Kubeadm!entrypointFix(confs, a)
                      /\ manifests' = Kubeadm!entrypointFix(manifests, a)
                      /\ cert' = IF Kubeadm!entrypointDies(a) THEN None ELSE cert
                      /\ up' = IF Kubeadm!entrypointDies(a) THEN up ELSE up \cup {n}
                      /\ kubelet' = [kubelet EXCEPT ![n] = confs']
                 ELSE /\ up' = up \cup {n}
                      /\ kubelet' = [kubelet EXCEPT ![n] = workerConf[n]]
                      /\ UNCHANGED <<confs, manifests, cert>>
            /\ nodeLive' = [nodeLive EXCEPT ![n] = IF pinned THEN nodeIP[n] ELSE a]
      BY <1>20, Zenon DEF Kubeadm!BootNode
    <2>2. pc = "boot" /\ UNCHANGED <<pc, workerConf, nodeIP, pinned, cut>>
      BY <1>20, Zenon DEF Kubeadm!BootNode
    <2>3. \A m \in Kubeadm!Nodes : m = n \/ (/\ kubelet'[m] = kubelet[m] /\ ip'[m] = ip[m]
                                             /\ nodeLive'[m] = nodeLive[m] /\ (m \in up' => m \in up))
      <3>1. CASE n = CP BY <1>t, <2>1, <3>1, Zenon
      <3>2. CASE n # CP BY <1>t, <2>1, <3>2, Zenon
      <3> QED BY <3>1, <3>2, Zenon
    <2>4. nodeLive'[n] = IF pinned THEN nodeIP[n] ELSE ip'[n] BY <1>t, <2>1, Zenon
    <2>5. n # CP => n \in Workers /\ kubelet'[n] = workerConf[n] /\ confs' = confs
      BY <1>t, <2>1, Zenon DEF Kubeadm!Nodes
    <2>6. n = CP => kubelet'[n] = confs' BY <1>t, <2>1, Zenon
    <2>7. CP \in up' => kubelet'[CP] = confs' \/ confs' = ip'[CP]
      BY <1>0, <2>3, <2>5, <2>6, Zenon
    <2>8. \A w \in Workers : w \in up' => kubelet'[w] = workerConf[w] \/ "worker" \in cut
      BY <1>0, <2>3, <2>5, Zenon
    <2>9. \A m \in Kubeadm!Nodes : m \in up' =>
            IF pinned THEN nodeLive'[m] = nodeIP[m] \/ (nodeIP[m] = ip'[m] /\ "node address" \in cut)
            ELSE nodeLive'[m] = ip'[m]
      BY <2>3, <2>4, Zenon
    <2> QED BY <2>2, <2>7, <2>8, <2>9, Zenon
  <1>21. ASSUME NEW n \in Kubeadm!Nodes, Kubeadm!SetNodeIP(n) PROVE kKubelets'
    <2>1. \A m \in Kubeadm!Nodes : m = n \/ (/\ kubelet'[m] = kubelet[m] /\ nodeIP'[m] = nodeIP[m]
                                             /\ nodeLive'[m] = nodeLive[m])
      BY <1>t, <1>21, Zenon DEF Kubeadm!SetNodeIP
    <2>2. nodeIP'[n] = ip[n] /\ nodeLive'[n] = ip[n] BY <1>t, <1>21, Zenon DEF Kubeadm!SetNodeIP
    <2>3. /\ n = CP => kubelet'[n] = confs
          /\ n # CP => kubelet'[n] = workerConf[n]
      BY <1>t, <1>21, Zenon DEF Kubeadm!SetNodeIP
    <2>4. /\ pc = "nodes" /\ pc' = pc
          /\ UNCHANGED <<confs, workerConf, up, ip, cut, pinned>>
      BY <1>21, Zenon DEF Kubeadm!SetNodeIP
    <2>5. CP \in up => kubelet'[CP] = confs \/ confs = ip[CP] BY <1>0, <2>1, <2>3, Zenon
    <2>6. \A w \in Workers : w \in up => kubelet'[w] = workerConf[w] \/ "worker" \in cut
      BY <1>0, <2>1, <2>3, Zenon
    <2> QED BY <2>1, <2>2, <2>4, <2>5, <2>6, Zenon
  <1>22. ASSUME NEW w \in Workers, Kubeadm!HealWorker(w) PROVE kKubelets'
    <2>1. \A v \in Workers : v = w \/ (kubelet'[v] = kubelet[v] /\ workerConf'[v] = workerConf[v])
      BY <1>0, <1>t, <1>22, Zenon DEF Kubeadm!HealWorker
    <2>2. kubelet'[w] = newIP /\ workerConf'[w] = newIP
      BY <1>0, <1>t, <1>22, Zenon DEF Kubeadm!HealWorker
    <2>3. kubelet'[CP] = kubelet[CP] BY <1>0, <1>t, <1>22, Zenon DEF Kubeadm!HealWorker
    <2> QED BY <2>1, <2>2, <2>3, <1>22, Zenon DEF Kubeadm!HealWorker
  <1>23. ASSUME NEW w \in Workers, Kubeadm!HealWorkerFails(w) PROVE kKubelets'
    BY <1>0, <1>23, Zenon DEF Kubeadm!HealWorkerFails, Kubeadm!Cut
  <1>24. ASSUME NEW n \in Kubeadm!Nodes, Kubeadm!SetNodeIPFails(n) PROVE kKubelets'
    <2>1. \A m \in Kubeadm!Nodes : m = n \/ nodeIP'[m] = nodeIP[m]
      BY <1>t, <1>24, Zenon DEF Kubeadm!SetNodeIPFails
    <2>2. nodeIP'[n] = ip[n] BY <1>t, <1>24, Zenon DEF Kubeadm!SetNodeIPFails
    <2>3. /\ pc' = "idle" /\ "node address" \in cut' /\ cut \subseteq cut'
          /\ UNCHANGED <<confs, workerConf, kubelet, nodeLive, up, ip, pinned>>
      BY <1>24, Zenon DEF Kubeadm!SetNodeIPFails, Kubeadm!Cut
    <2> QED BY <2>1, <2>2, <2>3, Zenon
  <1> QED BY <1>1, <1>2, <1>3, <1>4, <1>5, <1>6, <1>7, <1>8, <1>9, <1>10, <1>11, <1>12,
    <1>13, <1>14, <1>15, <1>16, <1>17, <1>18, <1>19, <1>20, <1>21, <1>22, <1>23, <1>24,
    Zenon DEF Kubeadm!Next, Kubeadm!ResumeStep

\* Every step of a kubeadm cluster keeps kContainer.
LEMMA kContainerStep ==
  ASSUME Kubeadm!ResumeAssumption, Kubeadm!TypeOK, kProgress, kContainer, Kubeadm!Next
  PROVE  kContainer'
  <1> USE DEF Kubeadm!files, Kubeadm!live, Kubeadm!local, Kubeadm!env, Kubeadm!Goto,
       kContainer, Kubeadm!ScriptSteps
  <1>0. CP \in Kubeadm!Nodes /\ \A w \in Workers : w \in Kubeadm!Nodes /\ w # CP
    BY Zenon DEF Kubeadm!Nodes, Kubeadm!ResumeAssumption
  <1>t. kubelet \in [Kubeadm!Nodes -> Kubeadm!IPs] /\ ip \in [Kubeadm!Nodes -> Kubeadm!IPs]
    BY Zenon DEF Kubeadm!TypeOK
  <1>p. /\ pc \in {"heal", "confs", "manifests", "rmcert", "gencert", "kubelet"} => newIP = ip[CP] /\ oldIP # newIP
        /\ pc = "heal" => admin # ip[CP]
    BY Zenon DEF kProgress
  <1>1. CASE Kubeadm!Resume
    BY <1>0, <1>1, Zenon DEF Kubeadm!Resume
  <1>2. CASE Kubeadm!AllBooted
    BY <1>0, <1>2, Zenon DEF Kubeadm!AllBooted
  <1>3. CASE Kubeadm!NodesPrepared
    BY <1>0, <1>3, Zenon DEF Kubeadm!NodesPrepared
  <1>4. CASE Kubeadm!ReadAddresses
    BY <1>0, <1>4, Zenon DEF Kubeadm!ReadAddresses, Kubeadm!AfterControlPlane
  <1>5. CASE Kubeadm!HealAdmin
    BY <1>0, <1>5, Zenon DEF Kubeadm!HealAdmin, Kubeadm!sed
  <1>6. CASE Kubeadm!HealConfs
    <2>1. backend = "container" => confs' = confs
      BY <1>p, <1>6, Zenon DEF Kubeadm!HealConfs, Kubeadm!sed
    <2> QED BY <2>1, <1>6, Zenon DEF Kubeadm!HealConfs
  <1>7. CASE Kubeadm!HealManifests
    <2>1. backend = "container" => manifests' = manifests
      BY <1>p, <1>7, Zenon DEF Kubeadm!HealManifests, Kubeadm!sed
    <2> QED BY <2>1, <1>7, Zenon DEF Kubeadm!HealManifests
  <1>8. CASE Kubeadm!RemoveCert
    BY <1>0, <1>8, Zenon DEF Kubeadm!RemoveCert
  <1>9. CASE Kubeadm!GenerateCert
    BY <1>p, <1>9, Zenon DEF Kubeadm!GenerateCert
  <1>10. CASE Kubeadm!RestartKubelet
    <2>1. kubelet'[CP] = confs BY <1>0, <1>t, <1>10, Zenon DEF Kubeadm!RestartKubelet
    <2> QED BY <2>1, <1>10, Zenon DEF Kubeadm!RestartKubelet, Kubeadm!AfterControlPlane
  <1>11. CASE Kubeadm!WorkersHealed
    BY <1>0, <1>11, Zenon DEF Kubeadm!WorkersHealed
  <1>12. CASE Kubeadm!WaitAPIServer
    BY <1>0, <1>12, Zenon DEF Kubeadm!WaitAPIServer
  <1>13. CASE Kubeadm!HealConfigMaps
    BY <1>0, <1>13, Zenon DEF Kubeadm!HealConfigMaps
  <1>14. CASE Kubeadm!WaitNodeAddresses
    BY <1>0, <1>14, Zenon DEF Kubeadm!WaitNodeAddresses
  <1>15. CASE Kubeadm!RefreshPods
    BY <1>0, <1>15, Zenon DEF Kubeadm!RefreshPods
  <1>16. CASE Kubeadm!WriteKubeconfig
    BY <1>0, <1>16, Zenon DEF Kubeadm!WriteKubeconfig
  <1>17. CASE Kubeadm!TimeOut
    BY <1>17, Zenon DEF Kubeadm!TimeOut
  <1>18. CASE Kubeadm!Fail
    BY <1>p, <1>18, Zenon DEF Kubeadm!Fail, Kubeadm!Cut
  <1>19. CASE Kubeadm!Reboot
    BY <1>0, <1>19, Zenon DEF Kubeadm!Reboot, Kubeadm!Cut
  <1>20. ASSUME NEW n \in Kubeadm!Nodes, Kubeadm!BootNode(n) PROVE kContainer'
    <2>1. PICK a \in Kubeadm!Offered :
            /\ ip' = [ip EXCEPT ![n] = a]
            /\ IF n = CP
                 THEN /\ confs' = Kubeadm!entrypointFix(confs, a)
                      /\ manifests' = Kubeadm!entrypointFix(manifests, a)
                      /\ cert' = IF Kubeadm!entrypointDies(a) THEN None ELSE cert
                      /\ up' = IF Kubeadm!entrypointDies(a) THEN up ELSE up \cup {n}
                      /\ kubelet' = [kubelet EXCEPT ![n] = confs']
                 ELSE /\ up' = up \cup {n}
                      /\ kubelet' = [kubelet EXCEPT ![n] = workerConf[n]]
                      /\ UNCHANGED <<confs, manifests, cert>>
            /\ nodeLive' = [nodeLive EXCEPT ![n] = IF pinned THEN nodeIP[n] ELSE a]
      BY <1>20, Zenon DEF Kubeadm!BootNode
    <2>2. pc = "boot" /\ UNCHANGED <<pc, admin, backend, needCert, cut>>
      BY <1>20, Zenon DEF Kubeadm!BootNode
    <2>3. CASE n # CP
      <3>1. ip'[CP] = ip[CP] /\ kubelet'[CP] = kubelet[CP] /\ (CP \in up' => CP \in up)
        BY <1>0, <1>t, <2>1, <2>3, Zenon
      <3>2. UNCHANGED <<confs, manifests, cert>> BY <2>1, <2>3, Zenon
      <3> QED BY <2>2, <3>1, <3>2, Zenon
    <2>4. CASE n = CP /\ backend = "container"
      <3>1. ip'[CP] = a /\ confs' = a /\ manifests' = a
        BY <1>0, <1>t, <2>1, <2>4, Zenon DEF Kubeadm!entrypointFix
      <3>2. kubelet'[CP] = a BY <1>0, <1>t, <2>1, <2>4, <3>1, Zenon
      <3>3. cert' \in {None, a}
        BY <2>1, <2>4, Zenon DEF Kubeadm!entrypointDies
      <3>4. a # admin BY <2>4, kOffered, Zenon
      <3> QED BY <2>2, <3>1, <3>2, <3>3, <3>4, Zenon
    <2>5. CASE backend # "container" BY <2>2, <2>5, Zenon
    <2> QED BY <2>3, <2>4, <2>5, Zenon
  <1>21. ASSUME NEW n \in Kubeadm!Nodes, Kubeadm!SetNodeIP(n) PROVE kContainer'
    <2>1. kubelet'[CP] = kubelet[CP] \/ kubelet'[CP] = confs
      BY <1>0, <1>t, <1>21, Zenon DEF Kubeadm!SetNodeIP
    <2> QED BY <2>1, <1>21, Zenon DEF Kubeadm!SetNodeIP
  <1>22. ASSUME NEW w \in Workers, Kubeadm!HealWorker(w) PROVE kContainer'
    <2>1. kubelet'[CP] = kubelet[CP] BY <1>0, <1>t, <1>22, Zenon DEF Kubeadm!HealWorker
    <2> QED BY <2>1, <1>22, Zenon DEF Kubeadm!HealWorker
  <1>23. ASSUME NEW w \in Workers, Kubeadm!HealWorkerFails(w) PROVE kContainer'
    BY <1>0, <1>23, Zenon DEF Kubeadm!HealWorkerFails, Kubeadm!Cut
  <1>24. ASSUME NEW n \in Kubeadm!Nodes, Kubeadm!SetNodeIPFails(n) PROVE kContainer'
    BY <1>0, <1>24, Zenon DEF Kubeadm!SetNodeIPFails, Kubeadm!Cut
  <1> QED BY <1>1, <1>2, <1>3, <1>4, <1>5, <1>6, <1>7, <1>8, <1>9, <1>10, <1>11, <1>12,
    <1>13, <1>14, <1>15, <1>16, <1>17, <1>18, <1>19, <1>20, <1>21, <1>22, <1>23, <1>24,
    Zenon DEF Kubeadm!Next, Kubeadm!ResumeStep

\* A counter that was raised is not zero.
LEMMA Raised == \A k, m : m \in Nat /\ k \in 0 .. m => k + 1 # 0
  OBVIOUS

\* Every step of a kubeadm cluster keeps kKrunkit.
LEMMA kKrunkitStep ==
  ASSUME Kubeadm!ResumeAssumption, Kubeadm!TypeOK, kProgress, kKrunkit, Kubeadm!Next
  PROVE  kKrunkit'
  <1> USE DEF Kubeadm!files, Kubeadm!live, Kubeadm!local, Kubeadm!env, Kubeadm!Goto,
       kKrunkit, Kubeadm!ScriptSteps
  <1>p. /\ pc \in {"heal", "confs", "manifests", "rmcert", "gencert", "kubelet"} => newIP = ip[CP] /\ oldIP # newIP
        /\ pc \in {"addresses", "refresh", "kubeconfig", "done"} => newIP = ip[CP]
        /\ pc = "heal" => admin = oldIP
        /\ pc \in {"confs", "manifests", "rmcert", "gencert", "kubelet"} => admin = newIP
    BY Zenon DEF kProgress, Kubeadm!ScriptSteps, kAfterScript
  <1>0. pc = "nodes" => pinned BY Zenon DEF kProgress
  <1>1. CASE Kubeadm!Resume
    BY <1>0, <1>1, Zenon DEF Kubeadm!Resume
  <1>2. CASE Kubeadm!AllBooted
    BY <1>0, <1>2, Zenon DEF Kubeadm!AllBooted
  <1>3. CASE Kubeadm!NodesPrepared
    BY <1>0, <1>3, Zenon DEF Kubeadm!NodesPrepared
  <1>4. CASE Kubeadm!ReadAddresses
    BY <1>0, <1>4, Zenon DEF Kubeadm!ReadAddresses, Kubeadm!AfterControlPlane
  <1>5. CASE Kubeadm!HealAdmin
    BY <1>p, <1>5, Zenon DEF Kubeadm!HealAdmin, Kubeadm!sed
  <1>6. CASE Kubeadm!HealConfs
    BY <1>p, <1>6, Zenon DEF Kubeadm!HealConfs, Kubeadm!sed
  <1>7. CASE Kubeadm!HealManifests
    BY <1>p, <1>7, Zenon DEF Kubeadm!HealManifests, Kubeadm!sed
  <1>8. CASE Kubeadm!RemoveCert
    BY <1>0, <1>8, Zenon DEF Kubeadm!RemoveCert
  <1>9. CASE Kubeadm!GenerateCert
    BY <1>p, <1>9, Zenon DEF Kubeadm!GenerateCert
  <1>10. CASE Kubeadm!RestartKubelet
    BY <1>p, <1>10, Zenon DEF Kubeadm!RestartKubelet, Kubeadm!AfterControlPlane
  <1>11. CASE Kubeadm!WorkersHealed
    BY <1>0, <1>11, Zenon DEF Kubeadm!WorkersHealed
  <1>12. CASE Kubeadm!WaitAPIServer
    BY <1>0, <1>12, Zenon DEF Kubeadm!WaitAPIServer
  <1>13. CASE Kubeadm!HealConfigMaps
    BY <1>0, <1>13, Zenon DEF Kubeadm!HealConfigMaps
  <1>14. CASE Kubeadm!WaitNodeAddresses
    BY <1>p, <1>14, Zenon DEF Kubeadm!WaitNodeAddresses
  <1>15. CASE Kubeadm!RefreshPods
    BY <1>0, <1>15, Zenon DEF Kubeadm!RefreshPods
  <1>16. CASE Kubeadm!WriteKubeconfig
    BY <1>0, <1>16, Zenon DEF Kubeadm!WriteKubeconfig
  <1>17. CASE Kubeadm!TimeOut
    BY <1>0, <1>17, Zenon DEF Kubeadm!TimeOut
  <1>18. CASE Kubeadm!Fail
    <2>1. faults' # 0 BY <1>18, Raised, Zenon DEF Kubeadm!Fail, Kubeadm!TypeOK,
         Kubeadm!ResumeAssumption
    <2> QED BY <2>1, <1>p, <1>18, Zenon DEF Kubeadm!Fail, Kubeadm!Cut
  <1>19. CASE Kubeadm!Reboot
    BY <1>0, <1>19, Zenon DEF Kubeadm!Reboot, Kubeadm!Cut
  <1>20. ASSUME NEW n \in Kubeadm!Nodes, Kubeadm!BootNode(n) PROVE kKrunkit'
    <2>1. PICK a \in Kubeadm!Offered :
            /\ ip' = [ip EXCEPT ![n] = a]
            /\ IF n = CP
                 THEN /\ confs' = Kubeadm!entrypointFix(confs, a)
                      /\ manifests' = Kubeadm!entrypointFix(manifests, a)
                      /\ cert' = IF Kubeadm!entrypointDies(a) THEN None ELSE cert
                      /\ up' = IF Kubeadm!entrypointDies(a) THEN up ELSE up \cup {n}
                      /\ kubelet' = [kubelet EXCEPT ![n] = confs']
                 ELSE /\ up' = up \cup {n}
                      /\ kubelet' = [kubelet EXCEPT ![n] = workerConf[n]]
                      /\ UNCHANGED <<confs, manifests, cert>>
            /\ nodeLive' = [nodeLive EXCEPT ![n] = IF pinned THEN nodeIP[n] ELSE a]
      BY <1>20, Zenon DEF Kubeadm!BootNode
    <2>2. pc = "boot" /\ UNCHANGED <<pc, admin, backend, pinned, needCert, cut, oldIP, newIP, faults>>
      BY <1>20, Zenon DEF Kubeadm!BootNode
    <2>3. backend = "krunkit" => UNCHANGED <<confs, manifests, cert>>
      BY <2>1, Zenon DEF Kubeadm!entrypointFix, Kubeadm!entrypointDies
    <2> QED BY <2>2, <2>3, Zenon
  <1>21. ASSUME NEW n \in Kubeadm!Nodes, Kubeadm!SetNodeIP(n) PROVE kKrunkit'
    BY <1>0, <1>21, Zenon DEF Kubeadm!SetNodeIP
  <1>22. ASSUME NEW w \in Workers, Kubeadm!HealWorker(w) PROVE kKrunkit'
    BY <1>0, <1>22, Zenon DEF Kubeadm!HealWorker
  <1>23. ASSUME NEW w \in Workers, Kubeadm!HealWorkerFails(w) PROVE kKrunkit'
    <2>1. faults' # 0 BY <1>23, Raised, Zenon DEF Kubeadm!HealWorkerFails, Kubeadm!TypeOK,
         Kubeadm!ResumeAssumption
    <2> QED BY <2>1, <1>p, <1>23, Zenon DEF Kubeadm!HealWorkerFails, Kubeadm!Cut
  <1>24. ASSUME NEW n \in Kubeadm!Nodes, Kubeadm!SetNodeIPFails(n) PROVE kKrunkit'
    <2>1. faults' # 0 BY <1>24, Raised, Zenon DEF Kubeadm!SetNodeIPFails, Kubeadm!TypeOK,
         Kubeadm!ResumeAssumption
    <2> QED BY <2>1, <1>p, <1>24, Zenon DEF Kubeadm!SetNodeIPFails, Kubeadm!Cut
  <1> QED BY <1>1, <1>2, <1>3, <1>4, <1>5, <1>6, <1>7, <1>8, <1>9, <1>10, <1>11, <1>12,
    <1>13, <1>14, <1>15, <1>16, <1>17, <1>18, <1>19, <1>20, <1>21, <1>22, <1>23, <1>24,
    Zenon DEF Kubeadm!Next, Kubeadm!ResumeStep

\* Every step of a kubeadm cluster keeps kPods.
LEMMA kPodsStep ==
  ASSUME Kubeadm!ResumeAssumption, Kubeadm!TypeOK, kProgress, kKubelets, kKrunkit, kPods, Kubeadm!Next
  PROVE  kPods'
  <1> USE DEF Kubeadm!files, Kubeadm!live, Kubeadm!local, Kubeadm!env, Kubeadm!Goto, kPods,
       Kubeadm!ScriptSteps, kStuck, Kubeadm!Serving
  <1>0. CP \in Kubeadm!Nodes /\ \A w \in Workers : w \in Kubeadm!Nodes /\ w # CP
    BY Zenon DEF Kubeadm!Nodes, Kubeadm!ResumeAssumption
  <1>t. kubelet \in [Kubeadm!Nodes -> Kubeadm!IPs] /\ changed \in BOOLEAN
    BY Zenon DEF Kubeadm!TypeOK
  <1>p. /\ pc \notin {"idle", "boot"} => up = Kubeadm!Nodes
        /\ pc \in {"api", "configmaps", "addresses", "refresh"} => newIP = ip[CP] /\ admin = ip[CP]
        /\ pc \in {"refresh", "addresses"} =>
             Kubeadm!Serving /\ \A w \in Workers : workerConf[w] = ip[CP]
        /\ backend = "krunkit" => pinned
        /\ backend = "krunkit" /\ pc = "refresh" => kubelet[CP] = ip[CP]
        /\ backend = "krunkit" /\ pc \in {"api", "configmaps", "addresses"} =>
             \A n \in Kubeadm!Nodes : nodeIP[n] = ip[n]
    BY <1>0, Zenon DEF kProgress, kKrunkit, kKubelets, kAfterScript
  <1>1. CASE Kubeadm!Resume
    BY <1>0, <1>p, <1>1, Zenon DEF Kubeadm!Resume
  <1>2. CASE Kubeadm!AllBooted
    BY <1>t, <1>p, <1>2, Zenon DEF Kubeadm!AllBooted
  <1>3. CASE Kubeadm!NodesPrepared
    BY <1>0, <1>3, Zenon DEF Kubeadm!NodesPrepared
  <1>4. CASE Kubeadm!ReadAddresses
    BY <1>t, <1>p, <1>4, Zenon DEF Kubeadm!ReadAddresses, Kubeadm!AfterControlPlane
  <1>5. CASE Kubeadm!HealAdmin
    BY <1>0, <1>5, Zenon DEF Kubeadm!HealAdmin, Kubeadm!sed
  <1>6. CASE Kubeadm!HealConfs
    BY <1>0, <1>6, Zenon DEF Kubeadm!HealConfs, Kubeadm!sed
  <1>7. CASE Kubeadm!HealManifests
    BY <1>0, <1>7, Zenon DEF Kubeadm!HealManifests, Kubeadm!sed
  <1>8. CASE Kubeadm!RemoveCert
    BY <1>0, <1>8, Zenon DEF Kubeadm!RemoveCert
  <1>9. CASE Kubeadm!GenerateCert
    BY <1>0, <1>9, Zenon DEF Kubeadm!GenerateCert
  <1>10. CASE Kubeadm!RestartKubelet
    BY <1>0, <1>10, Zenon DEF Kubeadm!RestartKubelet, Kubeadm!AfterControlPlane
  <1>11. CASE Kubeadm!WorkersHealed
    BY <1>0, <1>11, Zenon DEF Kubeadm!WorkersHealed
  <1>12. CASE Kubeadm!WaitAPIServer
    BY <1>0, <1>12, Zenon DEF Kubeadm!WaitAPIServer
  <1>13. CASE Kubeadm!HealConfigMaps
    BY <1>0, <1>13, Zenon DEF Kubeadm!HealConfigMaps
  <1>14. CASE Kubeadm!WaitNodeAddresses
    BY <1>0, <1>14, Zenon DEF Kubeadm!WaitNodeAddresses
  <1>15. CASE Kubeadm!RefreshPods
    BY <1>t, <1>p, <1>15, Zenon DEF Kubeadm!RefreshPods
  <1>16. CASE Kubeadm!WriteKubeconfig
    BY <1>0, <1>16, Zenon DEF Kubeadm!WriteKubeconfig
  <1>17. CASE Kubeadm!TimeOut
    <2> SUFFICES ASSUME backend = "krunkit", faults = 0 PROVE kStuck
      BY <1>17, Zenon DEF Kubeadm!TimeOut
    <2>1. CASE pc \in {"api", "configmaps"} /\ ~Kubeadm!Serving BY <2>1, <1>p, Zenon
    <2>2. ASSUME pc = "addresses",
                 NEW n \in Kubeadm!Nodes, nodeLive[n] # ip[n] \/ kubelet[n] # newIP
          PROVE  kStuck
      <3>1. n \in up /\ nodeIP[n] = ip[n] /\ pinned BY <2>2, <1>p, Zenon
      <3>2. cut \subseteq {"control plane"} BY Zenon DEF kKrunkit
      <3>3. nodeLive[n] = ip[n] BY <3>1, <3>2, Zenon DEF kKubelets
      <3>4. ASSUME n \in Workers PROVE FALSE
        <4>1. kubelet[n] = workerConf[n] BY <3>1, <3>2, <3>4, Zenon DEF kKubelets
        <4> QED BY <4>1, <3>3, <3>4, <2>2, <1>p, Zenon
      <3>5. n = CP BY <3>4, Zenon DEF Kubeadm!Nodes
      <3> QED BY <3>3, <3>5, <2>2, <1>p, Zenon
    <2> QED BY <2>1, <2>2, <1>17, Zenon DEF Kubeadm!TimeOut
  <1>18. CASE Kubeadm!Fail
    <2>1. faults' # 0 BY <1>18, Raised, Zenon DEF Kubeadm!Fail, Kubeadm!TypeOK,
         Kubeadm!ResumeAssumption
    <2> QED BY <2>1, Zenon
  <1>19. CASE Kubeadm!Reboot
    <2>1. up' # Kubeadm!Nodes /\ pc' = "idle" BY <1>0, <1>19, Zenon DEF Kubeadm!Reboot
    <2> QED BY <2>1, Zenon
  <1>20. ASSUME NEW n \in Kubeadm!Nodes, Kubeadm!BootNode(n) PROVE kPods'
    <2>1. pc = "boot" /\ up # Kubeadm!Nodes /\ UNCHANGED <<pc, changed, backend, faults>>
      BY <1>20, Zenon DEF Kubeadm!BootNode
    <2> QED BY <2>1, Zenon
  <1>21. ASSUME NEW n \in Kubeadm!Nodes, Kubeadm!SetNodeIP(n) PROVE kPods'
    BY <1>0, <1>21, Zenon DEF Kubeadm!SetNodeIP
  <1>22. ASSUME NEW w \in Workers, Kubeadm!HealWorker(w) PROVE kPods'
    <2>1. kubelet'[CP] = kubelet[CP] BY <1>0, <1>t, <1>22, Zenon DEF Kubeadm!HealWorker
    <2> QED BY <2>1, <1>22, Zenon DEF Kubeadm!HealWorker
  <1>23. ASSUME NEW w \in Workers, Kubeadm!HealWorkerFails(w) PROVE kPods'
    <2>1. faults' # 0 BY <1>23, Raised, Zenon DEF Kubeadm!HealWorkerFails, Kubeadm!TypeOK,
         Kubeadm!ResumeAssumption
    <2> QED BY <2>1, Zenon
  <1>24. ASSUME NEW n \in Kubeadm!Nodes, Kubeadm!SetNodeIPFails(n) PROVE kPods'
    <2>1. faults' # 0 BY <1>24, Raised, Zenon DEF Kubeadm!SetNodeIPFails, Kubeadm!TypeOK,
         Kubeadm!ResumeAssumption
    <2> QED BY <2>1, Zenon
  <1> QED BY <1>1, <1>2, <1>3, <1>4, <1>5, <1>6, <1>7, <1>8, <1>9, <1>10, <1>11, <1>12,
    <1>13, <1>14, <1>15, <1>16, <1>17, <1>18, <1>19, <1>20, <1>21, <1>22, <1>23, <1>24,
    Zenon DEF Kubeadm!Next, Kubeadm!ResumeStep

-----------------------------------------------------------------------------
(* kubeadm: the invariant, and what it says.                               *)

\* A kubeadm cluster as Create leaves it satisfies the invariant.
LEMMA kInit == Kubeadm!ResumeAssumption /\ Kubeadm!Init => kInv
  <1> SUFFICES ASSUME Kubeadm!ResumeAssumption, Kubeadm!Init PROVE kInv OBVIOUS
  <1>1. Kubeadm!TypeOK BY kTypeInit, Zenon
  <1> DEFINE lease == [container |-> ContainerIPs, krunkit |-> KrunkitIPs]
  <1>a. PICK a : a = CHOOSE f \in Kubeadm!Addresses(lease[backend]) : TRUE OBVIOUS
  <1>2. /\ ip = a /\ nodeIP = a /\ nodeLive = a /\ pods = a
        /\ admin = a[CP] /\ confs = a[CP] /\ manifests = a[CP] /\ cert = a[CP]
        /\ workerConf = [w \in Workers |-> a[CP]]
        /\ kubelet = [n \in Kubeadm!Nodes |-> a[CP]]
    BY <1>a, SMT DEF Kubeadm!Init
  <1>3. pc = "idle" /\ cut = {} /\ (backend = "krunkit" => pinned) BY Zenon DEF Kubeadm!Init
  <1>4. CP \in Kubeadm!Nodes /\ \A w \in Workers : w \in Kubeadm!Nodes BY Zenon
       DEF Kubeadm!Nodes
  <1>5. kubelet[CP] = a[CP] /\ \A w \in Workers : kubelet[w] = a[CP] /\ workerConf[w] = a[CP]
    BY <1>2, <1>4, Zenon
  <1>6. kProgress BY <1>3, Zenon DEF kProgress, Kubeadm!ScriptSteps, kAfterScript
  <1>7. kKubelets BY <1>2, <1>3, <1>5, Zenon DEF kKubelets
  <1>8. kContainer BY <1>2, <1>3, <1>5, Zenon DEF kContainer
  <1>9. kKrunkit BY <1>2, <1>3, Zenon DEF kKrunkit, Kubeadm!ScriptSteps
  <1>10. kPods BY <1>2, <1>3, Zenon DEF kPods, Kubeadm!ScriptSteps, kAfterScript
  <1> QED BY <1>1, <1>6, <1>7, <1>8, <1>9, <1>10, Zenon DEF kInv

\* Every step of a kubeadm resume, of its failures and of the host keeps the invariant.
LEMMA kNext == Kubeadm!ResumeAssumption /\ kInv /\ Kubeadm!Next => kInv'
  <1> SUFFICES ASSUME Kubeadm!ResumeAssumption, kInv, Kubeadm!Next PROVE kInv' OBVIOUS
  <1> USE DEF kInv
  <1>1. Kubeadm!TypeOK' BY kTypeStep, Zenon
  <1>2. kProgress' BY kProgressStep, Zenon
  <1>3. kKubelets' BY kKubeletsStep, Zenon
  <1>4. kContainer' BY kContainerStep, Zenon
  <1>5. kKrunkit' BY kKrunkitStep, Zenon
  <1>6. kPods' BY kPodsStep, Zenon
  <1> QED BY <1>1, <1>2, <1>3, <1>4, <1>5, <1>6, Zenon

\* What a kubeadm resume reports, as the invariant has it.
LEMMA kSafe ==
  Kubeadm!ResumeAssumption /\ kInv =>
    Kubeadm!SuccessMeansHealed /\ Kubeadm!AdminTellsDamage /\ Kubeadm!PodsRefreshed
  <1> SUFFICES ASSUME Kubeadm!ResumeAssumption, kInv
               PROVE  Kubeadm!SuccessMeansHealed /\ Kubeadm!AdminTellsDamage /\ Kubeadm!PodsRefreshed
    OBVIOUS
  <1>0. /\ CP \in Kubeadm!Nodes /\ \A w \in Workers : w \in Kubeadm!Nodes
        /\ \A n \in Kubeadm!Nodes : n = CP \/ n \in Workers
    BY Zenon DEF Kubeadm!Nodes
  <1>b. backend \in {"container", "krunkit"} BY Zenon DEF kInv, Kubeadm!TypeOK
  <1>1. ASSUME pc = "done" PROVE Kubeadm!Healed \/ (backend = "container" /\ cut # {})
    <2>1. /\ up = Kubeadm!Nodes /\ admin = ip[CP] /\ cert = ip[CP] /\ manifests = ip[CP]
          /\ configMaps = ip[CP] /\ hostConf = ip[CP] /\ \A w \in Workers : workerConf[w] = ip[CP]
      BY <1>1, Zenon DEF kInv, kProgress, kAfterScript, Kubeadm!Serving
    <2>2. CASE backend = "krunkit"
      <3>1. \A n \in Kubeadm!Nodes : nodeLive[n] = ip[n] /\ kubelet[n] = ip[CP]
        BY <1>1, <2>2, Zenon DEF kInv, kKrunkit
      <3>2. confs = ip[CP] BY <1>0, <2>1, <3>1, Zenon DEF kInv, kKubelets
      <3> QED BY <1>0, <2>1, <3>1, <3>2, Zenon DEF Kubeadm!Healed, Kubeadm!ControlPlaneHealed
    <2>3. CASE backend = "container" /\ cut = {}
      <3>1. confs = ip[CP] /\ kubelet[CP] = ip[CP]
        BY <1>0, <2>1, <2>3, Zenon DEF kInv, kContainer
      <3>2. \A w \in Workers : kubelet[w] = ip[CP]
        <4>1. "worker" \notin cut BY <2>3, Zenon
        <4>2. \A w \in Workers : kubelet[w] = workerConf[w]
          BY <1>0, <2>1, <4>1, Zenon DEF kInv, kKubelets
        <4> QED BY <2>1, <4>2, Zenon
      <3>3. \A n \in Kubeadm!Nodes : nodeLive[n] = ip[n]
        BY <1>1, <2>1, <2>3, Zenon DEF kInv, kKubelets
      <3>4. \A n \in Kubeadm!Nodes : kubelet[n] = ip[CP] BY <1>0, <3>1, <3>2, Zenon
      <3> QED BY <1>0, <2>1, <3>1, <3>3, <3>4, Zenon DEF Kubeadm!Healed,
           Kubeadm!ControlPlaneHealed
    <2> QED BY <1>b, <2>2, <2>3, Zenon
  <1>2. Kubeadm!AdminTellsDamage
    <2>1. CASE backend = "container"
      BY <2>1, Zenon DEF kInv, kContainer, Kubeadm!AdminTellsDamage, Kubeadm!ControlPlaneHealed
    <2>2. CASE backend = "krunkit"
      BY <2>2, Zenon DEF kInv, kKrunkit, Kubeadm!AdminTellsDamage, Kubeadm!ControlPlaneHealed
    <2> QED BY <1>b, <2>1, <2>2, Zenon
  <1>3. Kubeadm!PodsRefreshed BY Zenon DEF kInv, kPods, Kubeadm!PodsRefreshed
  <1> QED BY <1>1, <1>2, <1>3, Zenon DEF Kubeadm!SuccessMeansHealed

\* No step other than a reboot, or one of a script that was running, touches a healed
\* kubeadm cluster.
LEMMA kNoOp ==
  ASSUME Kubeadm!ResumeAssumption, kInv, Kubeadm!Next
  PROVE  Kubeadm!HealedResumeIsNoOp
  <1> USE DEF Kubeadm!files, Kubeadm!live, Kubeadm!local, Kubeadm!env, Kubeadm!Goto,
       Kubeadm!HealedResumeIsNoOp
  <1>c. CP \in Kubeadm!Nodes BY Zenon DEF Kubeadm!Nodes
  <1>h. Kubeadm!Healed =>
          /\ up = Kubeadm!Nodes /\ admin = ip[CP] /\ configMaps = ip[CP] /\ hostConf = ip[CP]
          /\ confs = ip[CP] /\ manifests = ip[CP] /\ cert = ip[CP] /\ kubelet[CP] = ip[CP]
          /\ \A w \in Workers : workerConf[w] = ip[CP]
          /\ \A n \in Kubeadm!Nodes : nodeLive[n] = ip[n]
    BY <1>c, Zenon DEF Kubeadm!Healed, Kubeadm!ControlPlaneHealed
  <1>p. /\ pc \in {"heal", "workers", "configmaps", "kubeconfig"} => newIP = ip[CP]
        /\ pc = "heal" => admin # ip[CP]
        /\ pc = "nodes" => pinned
    BY Zenon DEF kInv, kProgress, kAfterScript
  <1>s. pc \in {"confs", "manifests", "gencert"} => newIP = ip[CP] /\ oldIP # newIP
    BY Zenon DEF kInv, kProgress, Kubeadm!ScriptSteps
  <1>n. ASSUME NEW n \in Kubeadm!Nodes, Kubeadm!Healed, pc = "nodes" PROVE nodeIP[n] = ip[n]
    BY <1>n, <1>h, <1>p, Zenon DEF kInv, kKubelets
  <1>1. CASE Kubeadm!Resume
    BY <1>1, Zenon DEF Kubeadm!Resume
  <1>2. CASE Kubeadm!AllBooted
    BY <1>2, Zenon DEF Kubeadm!AllBooted
  <1>3. CASE Kubeadm!NodesPrepared
    BY <1>3, Zenon DEF Kubeadm!NodesPrepared
  <1>4. CASE Kubeadm!ReadAddresses
    BY <1>4, Zenon DEF Kubeadm!ReadAddresses, Kubeadm!AfterControlPlane
  <1>5. CASE Kubeadm!HealAdmin
    BY <1>h, <1>p, <1>5, Zenon DEF Kubeadm!HealAdmin
  <1>6. CASE Kubeadm!HealConfs
    BY <1>h, <1>s, <1>6, Zenon DEF Kubeadm!HealConfs, Kubeadm!sed
  <1>7. CASE Kubeadm!HealManifests
    BY <1>h, <1>s, <1>7, Zenon DEF Kubeadm!HealManifests, Kubeadm!sed
  <1>8. CASE Kubeadm!RemoveCert
    BY <1>8, Zenon DEF Kubeadm!RemoveCert
  <1>9. CASE Kubeadm!GenerateCert
    <2>1. Kubeadm!Healed => cert' = cert BY <1>h, <1>s, <1>9, Zenon DEF Kubeadm!GenerateCert
    <2> QED BY <2>1, <1>9, Zenon DEF Kubeadm!GenerateCert
  <1>10. CASE Kubeadm!RestartKubelet
    <2>1. Kubeadm!Healed => kubelet' = [kubelet EXCEPT ![CP] = kubelet[CP]]
      BY <1>c, <1>h, <1>10, Zenon DEF Kubeadm!RestartKubelet
    <2>2. kubelet \in [Kubeadm!Nodes -> Kubeadm!IPs] BY Zenon DEF kInv, Kubeadm!TypeOK
    <2>3. Kubeadm!Healed => kubelet' = kubelet BY <2>1, <2>2, Zenon
    <2> QED BY <2>3, <1>10, Zenon DEF Kubeadm!RestartKubelet
  <1>11. CASE Kubeadm!WorkersHealed
    BY <1>11, Zenon DEF Kubeadm!WorkersHealed
  <1>12. CASE Kubeadm!WaitAPIServer
    BY <1>12, Zenon DEF Kubeadm!WaitAPIServer
  <1>13. CASE Kubeadm!HealConfigMaps
    BY <1>h, <1>p, <1>13, Zenon DEF Kubeadm!HealConfigMaps
  <1>14. CASE Kubeadm!WaitNodeAddresses
    BY <1>14, Zenon DEF Kubeadm!WaitNodeAddresses
  <1>15. CASE Kubeadm!RefreshPods
    BY <1>15, Zenon DEF Kubeadm!RefreshPods
  <1>16. CASE Kubeadm!WriteKubeconfig
    BY <1>h, <1>p, <1>16, Zenon DEF Kubeadm!WriteKubeconfig
  <1>17. CASE Kubeadm!TimeOut
    BY <1>17, Zenon DEF Kubeadm!TimeOut
  <1>18. CASE Kubeadm!Fail
    BY <1>18, Zenon DEF Kubeadm!Fail, Kubeadm!Cut
  <1>19. CASE Kubeadm!Reboot
    BY <1>19, Zenon DEF Kubeadm!Reboot, Kubeadm!Cut
  <1>20. ASSUME NEW n \in Kubeadm!Nodes, Kubeadm!BootNode(n) PROVE Kubeadm!HealedResumeIsNoOp
    BY <1>h, <1>p, <1>20, Zenon DEF Kubeadm!BootNode
  <1>21. ASSUME NEW n \in Kubeadm!Nodes, Kubeadm!SetNodeIP(n) PROVE Kubeadm!HealedResumeIsNoOp
    BY <1>n, <1>21, Zenon DEF Kubeadm!SetNodeIP
  <1>22. ASSUME NEW w \in Workers, Kubeadm!HealWorker(w) PROVE Kubeadm!HealedResumeIsNoOp
    BY <1>h, <1>p, <1>22, Zenon DEF Kubeadm!HealWorker
  <1>23. ASSUME NEW w \in Workers, Kubeadm!HealWorkerFails(w) PROVE Kubeadm!HealedResumeIsNoOp
    BY <1>h, <1>p, <1>23, Zenon DEF Kubeadm!HealWorkerFails
  <1>24. ASSUME NEW n \in Kubeadm!Nodes, Kubeadm!SetNodeIPFails(n) PROVE Kubeadm!HealedResumeIsNoOp
    BY <1>n, <1>24, Zenon DEF Kubeadm!SetNodeIPFails
  <1> QED BY <1>1, <1>2, <1>3, <1>4, <1>5, <1>6, <1>7, <1>8, <1>9, <1>10, <1>11, <1>12,
    <1>13, <1>14, <1>15, <1>16, <1>17, <1>18, <1>19, <1>20, <1>21, <1>22, <1>23, <1>24,
    Zenon DEF Kubeadm!Next, Kubeadm!ResumeStep

-----------------------------------------------------------------------------
(* k3s on apple/container: a boot, and the type invariant.                 *)

\* A boot gives the VM an address that nothing of the cluster has, starts its agent
\* through the launcher and its proxy with its file.
LEMMA cBoots ==
  ASSUME K3s!TypeOK, NEW n \in K3s!Nodes, K3s!Boot(n)
  PROVE  /\ n \notin up /\ up' = up \cup {n}
         /\ ip'[n] \in ContainerIPs /\ ip'[n] \notin K3s!Recorded
         /\ ip' \in [K3s!Nodes -> ContainerIPs]
         /\ edgeRun' \in [K3s!Nodes -> ContainerIPs \cup {None}] /\ edgeRun'[n] = edgeConf[n]
         /\ \A m \in K3s!Nodes : m = n \/ (ip'[m] = ip[m] /\ edgeRun'[m] = edgeRun[m])
  <1>t. /\ ip \in [K3s!Nodes -> ContainerIPs] /\ edgeConf \in [K3s!Nodes -> ContainerIPs]
        /\ edgeRun \in [K3s!Nodes -> ContainerIPs \cup {None}]
    BY Zenon DEF K3s!TypeOK
  <1>1. PICK a \in K3s!Offered : ip' = [ip EXCEPT ![n] = a] BY Zenon DEF K3s!Boot
  <1>2. a \in ContainerIPs /\ a \notin K3s!Recorded BY Zenon DEF K3s!Offered
  <1>3. ip'[n] = a /\ \A m \in K3s!Nodes : m = n \/ ip'[m] = ip[m] BY <1>t, <1>1, Zenon
  <1>4. ip' \in [K3s!Nodes -> ContainerIPs] BY <1>t, <1>1, <1>2, Zenon
  <1>5. n \notin up /\ up' = up \cup {n} /\ edgeRun' = [edgeRun EXCEPT ![n] = edgeConf[n]]
    BY Zenon DEF K3s!Boot
  <1>6. edgeConf[n] \in ContainerIPs BY <1>t, Zenon
  <1>7. edgeRun' \in [K3s!Nodes -> ContainerIPs \cup {None}] BY <1>t, <1>5, <1>6, Zenon
  <1>8. edgeRun'[n] = edgeConf[n] /\ \A m \in K3s!Nodes : m = n \/ edgeRun'[m] = edgeRun[m]
    BY <1>t, <1>5, Zenon
  <1> QED BY <1>2, <1>3, <1>4, <1>5, <1>7, <1>8, Zenon

\* The agent a boot starts: the server's boot none, a worker's its own.
LEMMA cBootsAgent ==
  ASSUME K3s!TypeOK, K3s!K3sAssumption, NEW n \in K3s!Nodes, K3s!Boot(n)
  PROVE  /\ n = CP => agent' = agent
         /\ n # CP => /\ agent' \in [Workers -> ContainerIPs]
                      /\ agent'[n] = K3s!k3sResumeLauncher(n)
                      /\ \A w \in Workers : w = n \/ agent'[w] = agent[w]
  <1>t. /\ url \in [Workers -> ContainerIPs \cup {None}] /\ born \in ContainerIPs
        /\ agent \in [Workers -> ContainerIPs]
    BY Zenon DEF K3s!TypeOK
  <1>1. n = CP => agent' = agent BY Zenon DEF K3s!Boot
  <1>2. ASSUME n # CP
        PROVE  /\ agent' \in [Workers -> ContainerIPs] /\ agent'[n] = K3s!k3sResumeLauncher(n)
               /\ \A w \in Workers : w = n \/ agent'[w] = agent[w]
    <2>1. n \in Workers BY <1>2, Zenon DEF K3s!Nodes
    <2>2. PICK l : l = K3s!k3sResumeLauncher(n) OBVIOUS
    <2>3. l \in ContainerIPs BY <1>t, <2>1, <2>2, Zenon DEF K3s!k3sResumeLauncher
    <2>4. agent' = [agent EXCEPT ![n] = l] BY <1>2, <2>2, Zenon DEF K3s!Boot
    <2> QED BY <1>t, <2>1, <2>2, <2>3, <2>4, Zenon
  <1> QED BY <1>1, <1>2, Zenon

\* A k3s cluster on apple/container starts with its types.
LEMMA cTypeInit == K3s!K3sAssumption /\ K3s!Init => K3s!TypeOK
  <1> SUFFICES ASSUME K3s!K3sAssumption, K3s!Init PROVE K3s!TypeOK OBVIOUS
  <1>1. PICK a : a = CHOOSE f \in K3s!Addresses : TRUE OBVIOUS
  <1>2. a \in K3s!Addresses BY <1>1, Zenon DEF K3s!K3sAssumption
  <1>3. a \in [K3s!Nodes -> ContainerIPs] BY <1>2, Zenon DEF K3s!Addresses
  <1>4. CP \in K3s!Nodes BY Zenon DEF K3s!Nodes
  <1>5. a[CP] \in ContainerIPs BY <1>3, <1>4, Zenon
  <1>6. /\ ip = a /\ nodeLive = a /\ pods = a
        /\ born = a[CP] /\ hostConf = a[CP] /\ target = a[CP]
        /\ agent = [w \in Workers |-> a[CP]]
        /\ edgeConf = [n \in K3s!Nodes |-> a[CP]] /\ edgeRun = edgeConf
        /\ edgeMark = [n \in K3s!Nodes |-> None]
    BY <1>1, SMT DEF K3s!Init
  <1>7. \E u \in {a[CP], None} : url = [w \in Workers |-> u] BY <1>1, SMT DEF K3s!Init
  <1>8. url \in [Workers -> ContainerIPs \cup {None}] BY <1>5, <1>7, Zenon
  <1>9. faults \in 0 .. MaxFaults /\ reboots \in 0 .. MaxReboots
    BY DEF K3s!Init, K3s!K3sAssumption
  <1>10. pc \in K3s!Steps BY DEF K3s!Init, K3s!Steps
  <1>11. edgeRun \in [K3s!Nodes -> ContainerIPs \cup {None}] BY <1>5, <1>6, Zenon
  <1> QED BY <1>3, <1>5, <1>6, <1>8, <1>9, <1>10, <1>11, Zenon DEF K3s!Init, K3s!TypeOK

\* Every step of a k3s cluster on apple/container keeps the types.
LEMMA cTypeStep ==
  ASSUME K3s!K3sAssumption, K3s!TypeOK, K3s!Next
  PROVE  K3s!TypeOK'
  <1> USE DEF K3s!guest, K3s!local, K3s!bounds, K3s!Goto, K3s!TypeOK, K3s!Steps
  <1>0. CP \in K3s!Nodes /\ \A w \in Workers : w \in K3s!Nodes BY Zenon DEF K3s!Nodes
  <1>1. CASE K3s!Resume
    BY <1>0, <1>1, Zenon DEF K3s!Resume
  <1>2. CASE K3s!BootServer
    <2>1. CASE ~K3s!Boot(CP) BY <2>1, <1>2, Zenon DEF K3s!BootServer
    <2>2. CASE K3s!Boot(CP)
      <3> HIDE DEF K3s!TypeOK, K3s!Steps
      <3>0. up \subseteq K3s!Nodes BY Zenon DEF K3s!TypeOK
      <3>1. ip' \in [K3s!Nodes -> ContainerIPs] /\ edgeRun' \in [K3s!Nodes -> ContainerIPs \cup {None}]
            /\ up' \subseteq K3s!Nodes
        BY <1>0, <2>2, <3>0, cBoots, ZenonT(40)
      <3>2. agent \in [Workers -> ContainerIPs] BY Zenon DEF K3s!TypeOK
      <3>3. agent' \in [Workers -> ContainerIPs] BY <1>0, <2>2, <3>2, cBootsAgent, Zenon
      <3> QED BY <3>1, <3>3, <1>2, Zenon DEF K3s!BootServer, K3s!TypeOK, K3s!Steps
    <2> QED BY <2>1, <2>2, Zenon
  <1>3. CASE K3s!ReadServer
    BY <1>0, <1>3, Zenon DEF K3s!ReadServer
  <1>4. CASE K3s!WorkersDone
    BY <1>0, <1>4, Zenon DEF K3s!WorkersDone
  <1>5. CASE K3s!waitK3sNodeAddresses
    BY <1>0, <1>5, Zenon DEF K3s!waitK3sNodeAddresses
  <1>6. CASE K3s!refreshK3sNodePods
    BY <1>0, <1>6, Zenon DEF K3s!refreshK3sNodePods
  <1>7. CASE K3s!EdgeRules
    BY <1>0, <1>7, Zenon DEF K3s!EdgeRules
  <1>8. CASE K3s!EdgesMarked
    BY <1>0, <1>8, Zenon DEF K3s!EdgesMarked
  <1>9. CASE K3s!WriteKubeconfig
    BY <1>0, <1>9, Zenon DEF K3s!WriteKubeconfig
  <1>10. CASE K3s!Fail
    <2>1. faults' \in 0 .. MaxFaults BY <1>10, Counts, Zenon DEF K3s!Fail, K3s!K3sAssumption
    <2> QED BY <2>1, <1>10, Zenon DEF K3s!Fail
  <1>11. ASSUME NEW w \in Workers, K3s!StartWorker(w) PROVE K3s!TypeOK'
    <2>1. CASE ~K3s!Boot(w) BY <2>1, <1>11, Zenon DEF K3s!StartWorker, K3s!Worker
    <2>2. CASE K3s!Boot(w)
      <3> HIDE DEF K3s!TypeOK, K3s!Steps
      <3>0. up \subseteq K3s!Nodes BY Zenon DEF K3s!TypeOK
      <3>1. ip' \in [K3s!Nodes -> ContainerIPs] /\ edgeRun' \in [K3s!Nodes -> ContainerIPs \cup {None}]
            /\ up' \subseteq K3s!Nodes
        BY <1>0, <2>2, <3>0, cBoots, ZenonT(40)
      <3>2. agent \in [Workers -> ContainerIPs] BY Zenon DEF K3s!TypeOK
      <3>3. agent' \in [Workers -> ContainerIPs] BY <1>0, <2>2, <3>2, cBootsAgent, Zenon
      <3> QED BY <3>1, <3>3, <1>11, Zenon DEF K3s!StartWorker, K3s!Worker, K3s!TypeOK, K3s!Steps
    <2> QED BY <2>1, <2>2, Zenon
  <1>12. ASSUME NEW w \in Workers, K3s!InstallHook(w) PROVE K3s!TypeOK'
    BY <1>0, <1>12, Zenon DEF K3s!InstallHook, K3s!Worker
  <1>13. ASSUME NEW w \in Workers, K3s!StopWorker(w) PROVE K3s!TypeOK'
    BY <1>0, <1>13, Zenon DEF K3s!StopWorker, K3s!Worker
  <1>14. ASSUME NEW w \in Workers, K3s!StartAgain(w) PROVE K3s!TypeOK'
    <2>1. CASE ~K3s!Boot(w) BY <2>1, <1>14, Zenon DEF K3s!StartAgain, K3s!Worker
    <2>2. CASE K3s!Boot(w)
      <3> HIDE DEF K3s!TypeOK, K3s!Steps
      <3>0. up \subseteq K3s!Nodes BY Zenon DEF K3s!TypeOK
      <3>1. ip' \in [K3s!Nodes -> ContainerIPs] /\ edgeRun' \in [K3s!Nodes -> ContainerIPs \cup {None}]
            /\ up' \subseteq K3s!Nodes
        BY <1>0, <2>2, <3>0, cBoots, ZenonT(40)
      <3>2. agent \in [Workers -> ContainerIPs] BY Zenon DEF K3s!TypeOK
      <3>3. agent' \in [Workers -> ContainerIPs] BY <1>0, <2>2, <3>2, cBootsAgent, Zenon
      <3> QED BY <3>1, <3>3, <1>14, Zenon DEF K3s!StartAgain, K3s!Worker, K3s!TypeOK, K3s!Steps
    <2> QED BY <2>1, <2>2, Zenon
  <1>15. ASSUME NEW w \in Workers, K3s!VerifyAgent(w) PROVE K3s!TypeOK'
    BY <1>0, <1>15, Zenon DEF K3s!VerifyAgent, K3s!Worker
  <1>16. ASSUME NEW w \in Workers, K3s!k3sSupervisor(w) PROVE K3s!TypeOK'
    <2>1. PICK l : l = K3s!k3sResumeLauncher(w) OBVIOUS
    <2>2. l \in ContainerIPs BY <2>1, Zenon DEF K3s!k3sResumeLauncher
    <2>3. agent' = [agent EXCEPT ![w] = l] BY <2>1, <1>16, Zenon DEF K3s!k3sSupervisor
    <2>4. agent' \in [Workers -> ContainerIPs] BY <2>2, <2>3, Zenon
    <2> QED BY <2>4, <1>16, Zenon DEF K3s!k3sSupervisor
  <1>17. ASSUME NEW n \in K3s!Nodes, K3s!EdgeUntouched(n) PROVE K3s!TypeOK'
    BY <1>0, <1>17, Zenon DEF K3s!EdgeUntouched, K3s!Edge
  <1>18. ASSUME NEW n \in K3s!Nodes, K3s!EdgeRewrite(n) PROVE K3s!TypeOK'
    BY <1>0, <1>18, Zenon DEF K3s!EdgeRewrite, K3s!Edge
  <1>19. ASSUME NEW n \in K3s!Nodes, K3s!EdgeKill(n) PROVE K3s!TypeOK'
    BY <1>0, <1>19, Zenon DEF K3s!EdgeKill, K3s!Edge
  <1>20. ASSUME NEW n \in K3s!Nodes, K3s!EdgeSupervise(n) PROVE K3s!TypeOK'
    BY <1>0, <1>20, Zenon DEF K3s!EdgeSupervise, K3s!Edge
  <1>21. ASSUME NEW n \in K3s!Nodes, K3s!EdgeMark(n) PROVE K3s!TypeOK'
    BY <1>0, <1>21, Zenon DEF K3s!EdgeMark
  <1>22. ASSUME NEW n \in K3s!Nodes, K3s!KubeletReport(n) PROVE K3s!TypeOK'
    BY <1>0, <1>22, Zenon DEF K3s!KubeletReport
  <1>23. ASSUME NEW n \in K3s!Nodes, K3s!edgeProxySupervisor(n) PROVE K3s!TypeOK'
    BY <1>0, <1>23, Zenon DEF K3s!edgeProxySupervisor
  <1>24. ASSUME NEW S \in SUBSET K3s!Nodes, S # {}, K3s!Reboot(S) PROVE K3s!TypeOK'
    <2>1. reboots' \in 0 .. MaxReboots BY <1>24, Counts, Zenon DEF K3s!Reboot, K3s!K3sAssumption
    <2> QED BY <2>1, <1>24, Zenon DEF K3s!Reboot
  <1> QED
    <2>1. /\ K3s!Nodes \in SUBSET K3s!Nodes /\ K3s!Nodes # {}
          /\ \A n \in K3s!Nodes : {n} \in SUBSET K3s!Nodes /\ {n} # {}
      BY Zenon DEF K3s!Nodes
    <2> QED
      BY <2>1, <1>1, <1>2, <1>3, <1>4, <1>5, <1>6, <1>7, <1>8, <1>9, <1>10, <1>11, <1>12, <1>13,
      <1>14, <1>15, <1>16, <1>17, <1>18, <1>19, <1>20, <1>21, <1>22, <1>23, <1>24, Zenon
      DEF K3s!Next, K3s!ResumeStep, K3s!WorkerStep, K3s!EdgeStep

\* Every step of a k3s cluster on apple/container keeps cProgress.
LEMMA cProgressStep ==
  ASSUME K3s!K3sAssumption, K3s!TypeOK, cProgress, K3s!Next
  PROVE  cProgress'
  <1> USE DEF K3s!guest, K3s!local, K3s!bounds, K3s!Goto, cProgress, cAfterWorkers
  <1>0. CP \in K3s!Nodes /\ \A w \in Workers : w \in K3s!Nodes /\ w # CP
    BY Zenon DEF K3s!Nodes, K3s!K3sAssumption
  <1>t. /\ wpc \in [Workers -> {"start", "hook", "stop", "again", "verify", "ok"}]
        /\ agent \in [Workers -> ContainerIPs] /\ url \in [Workers -> ContainerIPs \cup {None}]
        /\ target \in ContainerIPs /\ None \notin ContainerIPs
    BY Zenon DEF K3s!TypeOK, K3s!K3sAssumption
  <1>1. CASE K3s!Resume
    BY <1>0, <1>1, Zenon DEF K3s!Resume
  <1>2. CASE K3s!BootServer
    <2>1. pc = "server" /\ pc' = "read" /\ UNCHANGED <<wpc, epc, wasUp, restarted>>
      BY <1>2, Zenon DEF K3s!BootServer
    <2> QED BY <2>1, Zenon
  <1>3. CASE K3s!ReadServer
    BY <1>0, <1>3, Zenon DEF K3s!ReadServer
  <1>4. CASE K3s!WorkersDone
    <2>1. \A n \in K3s!Nodes : n = CP \/ n \in Workers BY Zenon DEF K3s!Nodes
    <2>2. up \subseteq K3s!Nodes BY Zenon DEF K3s!TypeOK
    <2>3. up = K3s!Nodes BY <2>1, <2>2, <1>4, Zenon DEF K3s!WorkersDone
    <2> QED BY <2>3, <1>4, Zenon DEF K3s!WorkersDone
  <1>5. CASE K3s!waitK3sNodeAddresses
    BY <1>0, <1>5, Zenon DEF K3s!waitK3sNodeAddresses
  <1>6. CASE K3s!refreshK3sNodePods
    BY <1>0, <1>6, Zenon DEF K3s!refreshK3sNodePods
  <1>7. CASE K3s!EdgeRules
    BY <1>0, <1>7, Zenon DEF K3s!EdgeRules
  <1>8. CASE K3s!EdgesMarked
    BY <1>0, <1>8, Zenon DEF K3s!EdgesMarked
  <1>9. CASE K3s!WriteKubeconfig
    BY <1>0, <1>9, Zenon DEF K3s!WriteKubeconfig
  <1>10. CASE K3s!Fail
    BY <1>0, <1>10, Zenon DEF K3s!Fail
  <1>11. ASSUME NEW w \in Workers, K3s!StartWorker(w) PROVE cProgress'
    <2>w. pc = "workers" /\ pc' = pc /\ UNCHANGED <<epc, wasUp, target, nodeLive, hostConf>>
      BY <1>11, Zenon DEF K3s!StartWorker, K3s!Worker
    <2>v. \A v \in Workers : v = w \/ wpc'[v] = wpc[v] BY <1>t, <1>11, Zenon
         DEF K3s!StartWorker, K3s!Worker
    <2>1. wpc[w] = "start" /\ wpc'[w] = "hook" BY <1>t, <1>11, Zenon DEF K3s!StartWorker,
         K3s!Worker
    <2>2. /\ ip'[CP] = ip[CP] /\ \A n \in K3s!Nodes : n \in up => n \in up'
          /\ \A v \in Workers : v = w \/ agent'[v] = agent[v]
      <3>1. CASE K3s!Boot(w) BY <1>0, <3>1, cBoots, cBootsAgent, Zenon
      <3>2. CASE ~K3s!Boot(w) BY <3>2, <1>11, Zenon DEF K3s!StartWorker, K3s!Worker
      <3> QED BY <3>1, <3>2, Zenon
    <2>3. UNCHANGED <<url, restarted>> BY <1>11, Zenon DEF K3s!StartWorker, K3s!Worker
    <2> QED BY <1>0, <2>w, <2>v, <2>1, <2>2, <2>3, Zenon
  <1>12. ASSUME NEW w \in Workers, K3s!InstallHook(w) PROVE cProgress'
    <2>w. pc = "workers" /\ pc' = pc /\ UNCHANGED <<epc, wasUp, target, nodeLive, hostConf>>
      BY <1>12, Zenon DEF K3s!InstallHook, K3s!Worker
    <2>v. \A v \in Workers : v = w \/ wpc'[v] = wpc[v] BY <1>t, <1>12, Zenon
         DEF K3s!InstallHook, K3s!Worker
    <2>1. w \in up /\ wpc'[w] = IF agent[w] = target THEN "ok" ELSE "stop"
      BY <1>t, <1>12, Zenon DEF K3s!InstallHook, K3s!Worker
    <2>2. /\ url'[w] = target /\ \A v \in Workers : v = w \/ url'[v] = url[v]
          /\ UNCHANGED <<up, ip, agent>> /\ restarted' = (restarted \/ agent[w] # target)
      BY <1>t, <1>12, Zenon DEF K3s!InstallHook, K3s!Worker
    <2> QED BY <2>w, <2>v, <2>1, <2>2, Zenon
  <1>13. ASSUME NEW w \in Workers, K3s!StopWorker(w) PROVE cProgress'
    <2>w. pc = "workers" /\ pc' = pc /\ UNCHANGED <<epc, wasUp, target, nodeLive, hostConf>>
      BY <1>13, Zenon DEF K3s!StopWorker, K3s!Worker
    <2>v. \A v \in Workers : v = w \/ wpc'[v] = wpc[v] BY <1>t, <1>13, Zenon
         DEF K3s!StopWorker, K3s!Worker
    <2>1. /\ wpc[w] = "stop" /\ wpc'[w] = "again" /\ up' = up \ {w}
          /\ UNCHANGED <<ip, url, agent, restarted>>
      BY <1>t, <1>13, Zenon DEF K3s!StopWorker, K3s!Worker
    <2> QED BY <1>0, <2>w, <2>v, <2>1, Zenon
  <1>14. ASSUME NEW w \in Workers, K3s!StartAgain(w) PROVE cProgress'
    <2>w. pc = "workers" /\ pc' = pc /\ UNCHANGED <<epc, wasUp, target, nodeLive, hostConf>>
      BY <1>14, Zenon DEF K3s!StartAgain, K3s!Worker
    <2>v. \A v \in Workers : v = w \/ wpc'[v] = wpc[v] BY <1>t, <1>14, Zenon
         DEF K3s!StartAgain, K3s!Worker
    <2>1. wpc[w] = "again" /\ wpc'[w] = "verify" BY <1>t, <1>14, Zenon DEF K3s!StartAgain,
         K3s!Worker
    <2>2. /\ ip'[CP] = ip[CP] /\ \A n \in K3s!Nodes : n \in up => n \in up'
          /\ \A v \in Workers : v = w \/ agent'[v] = agent[v]
      <3>1. CASE K3s!Boot(w) BY <1>0, <3>1, cBoots, cBootsAgent, Zenon
      <3>2. CASE ~K3s!Boot(w) BY <3>2, <1>14, Zenon DEF K3s!StartAgain, K3s!Worker
      <3> QED BY <3>1, <3>2, Zenon
    <2>3. UNCHANGED <<url, restarted>> BY <1>14, Zenon DEF K3s!StartAgain, K3s!Worker
    <2> QED BY <1>0, <2>w, <2>v, <2>1, <2>2, <2>3, Zenon
  <1>15. ASSUME NEW w \in Workers, K3s!VerifyAgent(w) PROVE cProgress'
    <2>w. pc = "workers" /\ pc' = pc /\ UNCHANGED <<epc, wasUp, target, nodeLive, hostConf>>
      BY <1>15, Zenon DEF K3s!VerifyAgent, K3s!Worker
    <2>v. \A v \in Workers : v = w \/ wpc'[v] = wpc[v] BY <1>t, <1>15, Zenon
         DEF K3s!VerifyAgent, K3s!Worker
    <2>1. /\ wpc[w] = "verify" /\ wpc'[w] = "ok" /\ w \in up /\ agent[w] = target
          /\ UNCHANGED <<up, ip, url, agent, restarted>>
      BY <1>t, <1>15, Zenon DEF K3s!VerifyAgent, K3s!Worker
    <2> QED BY <2>w, <2>v, <2>1, Zenon
  <1>16. ASSUME NEW w \in Workers, K3s!k3sSupervisor(w) PROVE cProgress'
    <2>1. /\ \A v \in Workers : v = w \/ agent'[v] = agent[v]
          /\ url[w] = target => agent'[w] = target
      BY <1>t, <1>16, Zenon DEF K3s!k3sSupervisor, K3s!k3sResumeLauncher
    <2> QED BY <2>1, <1>16, Zenon DEF K3s!k3sSupervisor
  <1>17. ASSUME NEW n \in K3s!Nodes, K3s!EdgeUntouched(n) PROVE cProgress'
    BY <1>0, <1>17, Zenon DEF K3s!EdgeUntouched, K3s!Edge
  <1>18. ASSUME NEW n \in K3s!Nodes, K3s!EdgeRewrite(n) PROVE cProgress'
    BY <1>0, <1>18, Zenon DEF K3s!EdgeRewrite, K3s!Edge
  <1>19. ASSUME NEW n \in K3s!Nodes, K3s!EdgeKill(n) PROVE cProgress'
    BY <1>0, <1>19, Zenon DEF K3s!EdgeKill, K3s!Edge
  <1>20. ASSUME NEW n \in K3s!Nodes, K3s!EdgeSupervise(n) PROVE cProgress'
    BY <1>0, <1>20, Zenon DEF K3s!EdgeSupervise, K3s!Edge
  <1>21. ASSUME NEW n \in K3s!Nodes, K3s!EdgeMark(n) PROVE cProgress'
    <2>1. pc' \notin {"server", "read", "workers", "addresses", "refresh"} BY <1>21, Zenon
         DEF K3s!EdgeMark
    <2> QED BY <2>1, <1>21, Zenon DEF K3s!EdgeMark
  <1>22. ASSUME NEW n \in K3s!Nodes, K3s!KubeletReport(n) PROVE cProgress'
    <2>1. nodeLive # ip BY <1>22, Zenon DEF K3s!KubeletReport
    <2> QED BY <2>1, <1>22, Zenon DEF K3s!KubeletReport
  <1>23. ASSUME NEW n \in K3s!Nodes, K3s!edgeProxySupervisor(n) PROVE cProgress'
    BY <1>0, <1>23, Zenon DEF K3s!edgeProxySupervisor
  <1>24. ASSUME NEW S \in SUBSET K3s!Nodes, S # {}, K3s!Reboot(S) PROVE cProgress'
    BY <1>0, <1>24, Zenon DEF K3s!Reboot
  <1> QED
    <2>1. /\ K3s!Nodes \in SUBSET K3s!Nodes /\ K3s!Nodes # {}
          /\ \A n \in K3s!Nodes : {n} \in SUBSET K3s!Nodes /\ {n} # {}
      BY Zenon DEF K3s!Nodes
    <2> QED
      BY <2>1, <1>1, <1>2, <1>3, <1>4, <1>5, <1>6, <1>7, <1>8, <1>9, <1>10, <1>11, <1>12, <1>13,
      <1>14, <1>15, <1>16, <1>17, <1>18, <1>19, <1>20, <1>21, <1>22, <1>23, <1>24, Zenon
      DEF K3s!Next, K3s!ResumeStep, K3s!WorkerStep, K3s!EdgeStep

\* Every step of a k3s cluster on apple/container keeps cEdges.
LEMMA cEdgesStep ==
  ASSUME K3s!K3sAssumption, K3s!TypeOK, cProgress, cMarks, cEdges, K3s!Next
  PROVE  cEdges'
  <1> USE DEF K3s!guest, K3s!local, K3s!bounds, K3s!Goto, cEdges
  <1>0. CP \in K3s!Nodes /\ \A w \in Workers : w \in K3s!Nodes /\ w # CP
    BY Zenon DEF K3s!Nodes, K3s!K3sAssumption
  <1>e. /\ epc \in [K3s!Nodes -> {"check", "kill", "supervise", "on", "marked"}]
        /\ edgeConf \in [K3s!Nodes -> ContainerIPs]
        /\ edgeRun \in [K3s!Nodes -> ContainerIPs \cup {None}]
        /\ edgeMark \in [K3s!Nodes -> ContainerIPs \cup {None}]
    BY Zenon DEF K3s!TypeOK
  <1>p. pc \in {"edge", "mark", "kubeconfig", "done"} => CP \in up /\ target = ip[CP]
    BY Zenon DEF cProgress, cAfterWorkers
  <1>1. CASE K3s!Resume
    <2>1. pc' \notin {"edge", "mark", "kubeconfig", "done"} BY <1>1, Zenon DEF K3s!Resume
    <2> QED BY <2>1, Zenon
  <1>2. CASE K3s!BootServer
    <2>1. pc' \notin {"edge", "mark", "kubeconfig", "done"} BY <1>2, Zenon DEF K3s!BootServer
    <2> QED BY <2>1, Zenon
  <1>3. CASE K3s!ReadServer
    <2>1. pc' \notin {"edge", "mark", "kubeconfig", "done"} BY <1>3, Zenon DEF K3s!ReadServer
    <2> QED BY <2>1, Zenon
  <1>4. CASE K3s!WorkersDone
    <2>1. pc' \notin {"edge", "mark", "kubeconfig", "done"} BY <1>4, Zenon DEF K3s!WorkersDone
    <2> QED BY <2>1, Zenon
  <1>5. CASE K3s!waitK3sNodeAddresses
    <2>1. pc' \in {"refresh", "edge"} /\ UNCHANGED epc /\ \A n \in K3s!Nodes : epc[n] = "check"
      BY <1>5, Zenon DEF K3s!waitK3sNodeAddresses, cProgress
    <2> QED BY <2>1, Zenon
  <1>6. CASE K3s!refreshK3sNodePods
    <2>1. pc' \in {"refresh", "edge"} /\ UNCHANGED epc /\ \A n \in K3s!Nodes : epc[n] = "check"
      BY <1>6, Zenon DEF K3s!refreshK3sNodePods, cProgress
    <2> QED BY <2>1, Zenon
  <1>7. CASE K3s!EdgeRules
    BY <1>0, <1>7, Zenon DEF K3s!EdgeRules
  <1>8. CASE K3s!EdgesMarked
    BY <1>0, <1>8, Zenon DEF K3s!EdgesMarked
  <1>9. CASE K3s!WriteKubeconfig
    BY <1>0, <1>9, Zenon DEF K3s!WriteKubeconfig
  <1>10. CASE K3s!Fail
    <2>1. pc' \notin {"edge", "mark", "kubeconfig", "done"} BY <1>10, Zenon DEF K3s!Fail
    <2> QED BY <2>1, Zenon
  <1>11. ASSUME NEW w \in Workers, K3s!StartWorker(w) PROVE cEdges'
    <2>1. pc' \notin {"edge", "mark", "kubeconfig", "done"} BY <1>11, Zenon
         DEF K3s!StartWorker, K3s!Worker
    <2> QED BY <2>1, Zenon
  <1>12. ASSUME NEW w \in Workers, K3s!InstallHook(w) PROVE cEdges'
    <2>1. pc' \notin {"edge", "mark", "kubeconfig", "done"} BY <1>12, Zenon
         DEF K3s!InstallHook, K3s!Worker
    <2> QED BY <2>1, Zenon
  <1>13. ASSUME NEW w \in Workers, K3s!StopWorker(w) PROVE cEdges'
    <2>1. pc' \notin {"edge", "mark", "kubeconfig", "done"} BY <1>13, Zenon
         DEF K3s!StopWorker, K3s!Worker
    <2> QED BY <2>1, Zenon
  <1>14. ASSUME NEW w \in Workers, K3s!StartAgain(w) PROVE cEdges'
    <2>1. pc' \notin {"edge", "mark", "kubeconfig", "done"} BY <1>14, Zenon
         DEF K3s!StartAgain, K3s!Worker
    <2> QED BY <2>1, Zenon
  <1>15. ASSUME NEW w \in Workers, K3s!VerifyAgent(w) PROVE cEdges'
    <2>1. pc' \notin {"edge", "mark", "kubeconfig", "done"} BY <1>15, Zenon
         DEF K3s!VerifyAgent, K3s!Worker
    <2> QED BY <2>1, Zenon
  <1>16. ASSUME NEW w \in Workers, K3s!k3sSupervisor(w) PROVE cEdges'
    BY <1>0, <1>16, Zenon DEF K3s!k3sSupervisor
  <1>17. ASSUME NEW n \in K3s!Nodes, K3s!EdgeUntouched(n) PROVE cEdges'
    <2>1. pc = "edge" /\ pc' = "edge" /\ UNCHANGED <<target, edgeMark>> BY <1>17, Zenon
         DEF K3s!EdgeUntouched, K3s!Edge
    <2>2. \A m \in K3s!Nodes : m = n \/ (/\ epc'[m] = epc[m] /\ edgeConf'[m] = edgeConf[m]
                                         /\ edgeRun'[m] = edgeRun[m])
      BY <1>e, <1>17, Zenon DEF K3s!EdgeUntouched, K3s!Edge
    <2>3. epc'[n] = "supervise" /\ UNCHANGED <<edgeConf, edgeRun>> /\ edgeConf[n] = target /\ edgeRun[n] = target
      BY <1>e, <1>p, <2>1, <1>17, Zenon DEF K3s!EdgeUntouched, K3s!Edge, cMarks
    <2> QED BY <2>1, <2>2, <2>3, Zenon
  <1>18. ASSUME NEW n \in K3s!Nodes, K3s!EdgeRewrite(n) PROVE cEdges'
    <2>1. pc = "edge" /\ pc' = "edge" /\ UNCHANGED <<target, edgeMark>> BY <1>18, Zenon
         DEF K3s!EdgeRewrite, K3s!Edge
    <2>2. \A m \in K3s!Nodes : m = n \/ (/\ epc'[m] = epc[m] /\ edgeConf'[m] = edgeConf[m]
                                         /\ edgeRun'[m] = edgeRun[m])
      BY <1>e, <1>18, Zenon DEF K3s!EdgeRewrite, K3s!Edge
    <2>3. /\ epc'[n] = "kill" /\ edgeConf'[n] = target /\ edgeRun' = edgeRun
          /\ edgeMark[n] # target \/ edgeRun[n] # target
      BY <1>e, <1>p, <2>1, <1>18, Zenon DEF K3s!EdgeRewrite, K3s!Edge
    <2>4. edgeMark[n] = target => edgeRun[n] = None BY <1>p, <2>1, <2>3, Zenon DEF cMarks
    <2> QED BY <2>1, <2>2, <2>3, <2>4, Zenon
  <1>19. ASSUME NEW n \in K3s!Nodes, K3s!EdgeKill(n) PROVE cEdges'
    <2>1. pc = "edge" /\ pc' = "edge" /\ UNCHANGED <<target, edgeMark>> BY <1>19, Zenon
         DEF K3s!EdgeKill, K3s!Edge
    <2>2. \A m \in K3s!Nodes : m = n \/ (/\ epc'[m] = epc[m] /\ edgeConf'[m] = edgeConf[m]
                                         /\ edgeRun'[m] = edgeRun[m])
      BY <1>e, <1>19, Zenon DEF K3s!EdgeKill, K3s!Edge
    <2>3. epc[n] = "kill" /\ epc'[n] = "supervise" /\ edgeConf' = edgeConf /\ edgeRun'[n] = None
      BY <1>e, <1>19, Zenon DEF K3s!EdgeKill, K3s!Edge
    <2> QED BY <2>1, <2>2, <2>3, Zenon
  <1>20. ASSUME NEW n \in K3s!Nodes, K3s!EdgeSupervise(n) PROVE cEdges'
    <2>1. pc = "edge" /\ pc' = "edge" /\ UNCHANGED <<target, edgeMark>> BY <1>20, Zenon
         DEF K3s!EdgeSupervise, K3s!Edge
    <2>2. \A m \in K3s!Nodes : m = n \/ (/\ epc'[m] = epc[m] /\ edgeConf'[m] = edgeConf[m]
                                         /\ edgeRun'[m] = edgeRun[m])
      BY <1>e, <1>20, Zenon DEF K3s!EdgeSupervise, K3s!Edge
    <2>3. /\ epc[n] = "supervise" /\ epc'[n] = "on" /\ edgeConf' = edgeConf
          /\ edgeRun'[n] = IF edgeRun[n] = None THEN edgeConf[n] ELSE edgeRun[n]
      BY <1>e, <1>20, Zenon DEF K3s!EdgeSupervise, K3s!Edge
    <2> QED BY <2>1, <2>2, <2>3, Zenon
  <1>21. ASSUME NEW n \in K3s!Nodes, K3s!EdgeMark(n) PROVE cEdges'
    <2>1. /\ pc = "mark" /\ pc' = "mark" /\ UNCHANGED <<target, edgeConf, edgeRun>>
          /\ epc[n] = "on" /\ epc'[n] = "marked"
          /\ \A m \in K3s!Nodes : m = n \/ (epc'[m] = epc[m] /\ edgeMark'[m] = edgeMark[m])
      BY <1>e, <1>21, Zenon DEF K3s!EdgeMark
    <2> QED BY <2>1, Zenon
  <1>22. ASSUME NEW n \in K3s!Nodes, K3s!KubeletReport(n) PROVE cEdges'
    BY <1>0, <1>22, Zenon DEF K3s!KubeletReport
  <1>23. ASSUME NEW n \in K3s!Nodes, K3s!edgeProxySupervisor(n) PROVE cEdges'
    <2>1. /\ \A m \in K3s!Nodes : m = n \/ edgeRun'[m] = edgeRun[m]
          /\ edgeRun'[n] = edgeConf[n] /\ edgeRun[n] # None /\ edgeRun[n] # edgeConf[n]
          /\ UNCHANGED <<pc, epc, edgeConf, edgeMark, target>>
      BY <1>e, <1>23, Zenon DEF K3s!edgeProxySupervisor
    <2> QED BY <2>1, Zenon
  <1>24. ASSUME NEW S \in SUBSET K3s!Nodes, S # {}, K3s!Reboot(S) PROVE cEdges'
    <2>1. pc' \notin {"edge", "mark", "kubeconfig", "done"} BY <1>24, Zenon DEF K3s!Reboot
    <2> QED BY <2>1, Zenon
  <1> QED
    <2>1. /\ K3s!Nodes \in SUBSET K3s!Nodes /\ K3s!Nodes # {}
          /\ \A n \in K3s!Nodes : {n} \in SUBSET K3s!Nodes /\ {n} # {}
      BY Zenon DEF K3s!Nodes
    <2> QED
      BY <2>1, <1>1, <1>2, <1>3, <1>4, <1>5, <1>6, <1>7, <1>8, <1>9, <1>10, <1>11, <1>12, <1>13,
      <1>14, <1>15, <1>16, <1>17, <1>18, <1>19, <1>20, <1>21, <1>22, <1>23, <1>24, Zenon
      DEF K3s!Next, K3s!ResumeStep, K3s!WorkerStep, K3s!EdgeStep

\* Every step of a k3s cluster on apple/container keeps cMarks.
LEMMA cMarksStep ==
  ASSUME K3s!K3sAssumption, K3s!TypeOK, cProgress, cEdges, cMarks, K3s!Next
  PROVE  cMarks'
  <1> USE DEF K3s!guest, K3s!local, K3s!bounds, K3s!Goto, cMarks
  <1>0. CP \in K3s!Nodes /\ \A w \in Workers : w \in K3s!Nodes /\ w # CP
    BY Zenon DEF K3s!Nodes, K3s!K3sAssumption
  <1>e. /\ epc \in [K3s!Nodes -> {"check", "kill", "supervise", "on", "marked"}]
        /\ edgeConf \in [K3s!Nodes -> ContainerIPs]
        /\ edgeRun \in [K3s!Nodes -> ContainerIPs \cup {None}]
        /\ edgeMark \in [K3s!Nodes -> ContainerIPs \cup {None}]
    BY Zenon DEF K3s!TypeOK
  <1>p. pc \in {"workers", "edge", "mark"} => CP \in up /\ target = ip[CP]
    BY Zenon DEF cProgress, cAfterWorkers
  <1>t. /\ wpc \in [Workers -> {"start", "hook", "stop", "again", "verify", "ok"}]
        /\ agent \in [Workers -> ContainerIPs] /\ url \in [Workers -> ContainerIPs \cup {None}]
        /\ target \in ContainerIPs /\ None \notin ContainerIPs
    BY Zenon DEF K3s!TypeOK, K3s!K3sAssumption
  <1>1. CASE K3s!Resume
    BY <1>1, Zenon DEF K3s!Resume
  <1>2. CASE K3s!BootServer
    <2>1. pc' = "read" /\ UNCHANGED <<url, edgeMark, edgeConf, wpc>> BY <1>2, Zenon
         DEF K3s!BootServer
    <2>2. CASE K3s!Boot(CP)
      <3>1. ip'[CP] \notin K3s!Recorded BY <1>0, <2>2, cBoots, Zenon
      <3>2. \A n \in K3s!Nodes : edgeMark[n] # ip'[CP] BY <3>1, Zenon DEF K3s!Recorded
      <3> QED BY <2>1, <3>2, Zenon
    <2>3. CASE ~K3s!Boot(CP) BY <2>1, <2>3, <1>2, Zenon DEF K3s!BootServer
    <2> QED BY <2>2, <2>3, Zenon
  <1>3. CASE K3s!ReadServer
    <2>1. \A w \in Workers : wpc[w] = "start" BY <1>3, Zenon DEF K3s!ReadServer, cProgress
    <2> QED BY <2>1, <1>3, Zenon DEF K3s!ReadServer
  <1>4. CASE K3s!WorkersDone
    BY <1>0, <1>4, Zenon DEF K3s!WorkersDone
  <1>5. CASE K3s!waitK3sNodeAddresses
    BY <1>0, <1>5, Zenon DEF K3s!waitK3sNodeAddresses
  <1>6. CASE K3s!refreshK3sNodePods
    BY <1>0, <1>6, Zenon DEF K3s!refreshK3sNodePods
  <1>7. CASE K3s!EdgeRules
    BY <1>0, <1>7, Zenon DEF K3s!EdgeRules
  <1>8. CASE K3s!EdgesMarked
    BY <1>0, <1>8, Zenon DEF K3s!EdgesMarked
  <1>9. CASE K3s!WriteKubeconfig
    BY <1>0, <1>9, Zenon DEF K3s!WriteKubeconfig
  <1>10. CASE K3s!Fail
    BY <1>0, <1>10, Zenon DEF K3s!Fail
  <1>11. ASSUME NEW w \in Workers, K3s!StartWorker(w) PROVE cMarks'
    <2>1. /\ pc = "workers" /\ pc' = pc /\ UNCHANGED <<url, edgeConf, edgeMark>>
          /\ wpc'[w] = "hook" /\ \A v \in Workers : v = w \/ wpc'[v] = wpc[v]
      BY <1>t, <1>11, Zenon DEF K3s!StartWorker, K3s!Worker
    <2>2. CASE ~K3s!Boot(w)
      <3>1. UNCHANGED <<up, ip, agent, edgeRun>> BY <2>2, <1>11, Zenon DEF K3s!StartWorker,
           K3s!Worker
      <3> QED BY <2>1, <3>1, Zenon
    <2>3. CASE K3s!Boot(w)
      <3>1. /\ up' = up \cup {w} /\ ip'[CP] = ip[CP] /\ edgeRun'[w] = edgeConf[w]
            /\ \A m \in K3s!Nodes : m = w \/ edgeRun'[m] = edgeRun[m]
        BY <1>0, <2>3, cBoots, Zenon
      <3>2. /\ \A v \in Workers : v = w \/ agent'[v] = agent[v]
            /\ agent'[w] = K3s!k3sResumeLauncher(w)
        BY <1>0, <2>3, cBootsAgent, Zenon
      <3>3. url[w] = ip[CP] => agent'[w] = ip[CP]
        <4>1. target = ip[CP] BY <1>p, <2>1, Zenon
        <4> QED BY <1>t, <3>2, <4>1, Zenon DEF K3s!k3sResumeLauncher
      <3>4. CP \in up BY <1>p, <2>1, Zenon
      <3> QED BY <1>0, <2>1, <3>1, <3>2, <3>3, <3>4, Zenon
    <2> QED BY <2>2, <2>3, Zenon
  <1>12. ASSUME NEW w \in Workers, K3s!InstallHook(w) PROVE cMarks'
    <2>1. /\ pc = "workers" /\ pc' = pc /\ w \in up
          /\ UNCHANGED <<up, ip, agent, edgeConf, edgeRun, edgeMark>>
          /\ url'[w] = target /\ wpc'[w] = IF agent[w] = target THEN "ok" ELSE "stop"
          /\ \A v \in Workers : v = w \/ (wpc'[v] = wpc[v] /\ url'[v] = url[v])
      BY <1>t, <1>12, Zenon DEF K3s!InstallHook, K3s!Worker
    <2>2. target = ip[CP] /\ CP \in up BY <1>p, <2>1, Zenon
    <2> QED BY <2>1, <2>2, Zenon
  <1>13. ASSUME NEW w \in Workers, K3s!StopWorker(w) PROVE cMarks'
    <2>1. wpc[w] \in {"stop"} /\ pc = "workers" BY <1>13, Zenon DEF K3s!StopWorker, K3s!Worker
    <2>2. \A n \in K3s!Nodes : edgeMark[n] # ip[CP] BY <1>p, <2>1, Zenon
    <2>3. ip'[CP] = ip[CP] /\ edgeMark' = edgeMark BY <1>13, Zenon DEF K3s!StopWorker,
         K3s!Worker
    <2> QED BY <2>2, <2>3, Zenon
  <1>14. ASSUME NEW w \in Workers, K3s!StartAgain(w) PROVE cMarks'
    <2>1. wpc[w] \in {"again"} /\ pc = "workers" BY <1>14, Zenon DEF K3s!StartAgain, K3s!Worker
    <2>2. \A n \in K3s!Nodes : edgeMark[n] # ip[CP] BY <1>p, <2>1, Zenon
    <2>3. ip'[CP] = ip[CP] /\ edgeMark' = edgeMark
      <3>1. K3s!Boot(w) BY <1>14, Zenon DEF K3s!StartAgain, K3s!Worker
      <3>2. ip'[CP] = ip[CP] BY <1>0, <3>1, cBoots, Zenon
      <3> QED BY <3>2, <1>14, Zenon DEF K3s!StartAgain, K3s!Worker
    <2> QED BY <2>2, <2>3, Zenon
  <1>15. ASSUME NEW w \in Workers, K3s!VerifyAgent(w) PROVE cMarks'
    <2>1. wpc[w] \in {"verify"} /\ pc = "workers" BY <1>15, Zenon DEF K3s!VerifyAgent,
         K3s!Worker
    <2>2. \A n \in K3s!Nodes : edgeMark[n] # ip[CP] BY <1>p, <2>1, Zenon
    <2>3. ip'[CP] = ip[CP] /\ edgeMark' = edgeMark BY <1>15, Zenon DEF K3s!VerifyAgent,
         K3s!Worker
    <2> QED BY <2>2, <2>3, Zenon
  <1>16. ASSUME NEW w \in Workers, K3s!k3sSupervisor(w) PROVE cMarks'
    <2>1. /\ UNCHANGED <<pc, wpc, up, ip, url, edgeConf, edgeRun, edgeMark>>
          /\ agent'[w] = K3s!k3sResumeLauncher(w) /\ \A v \in Workers : v = w \/ agent'[v] = agent[v]
      BY <1>t, <1>16, Zenon DEF K3s!k3sSupervisor
    <2>2. ip[CP] \in ContainerIPs BY <1>0, Zenon DEF K3s!TypeOK
    <2>3. url[w] = ip[CP] => agent'[w] = ip[CP]
      BY <1>t, <2>1, <2>2, Zenon DEF K3s!k3sResumeLauncher
    <2> QED BY <2>1, <2>3, Zenon
  <1>17. ASSUME NEW n \in K3s!Nodes, K3s!EdgeUntouched(n) PROVE cMarks'
    BY <1>0, <1>17, Zenon DEF K3s!EdgeUntouched, K3s!Edge
  <1>18. ASSUME NEW n \in K3s!Nodes, K3s!EdgeRewrite(n) PROVE cMarks'
    <2>1. /\ pc' = "edge" /\ pc = "edge" /\ UNCHANGED <<up, ip, url, agent, edgeRun, edgeMark>>
          /\ edgeConf'[n] = target /\ \A m \in K3s!Nodes : m = n \/ edgeConf'[m] = edgeConf[m]
      BY <1>e, <1>18, Zenon DEF K3s!EdgeRewrite, K3s!Edge
    <2>2. target = ip[CP] BY <1>p, <2>1, Zenon
    <2> QED BY <2>1, <2>2, Zenon
  <1>19. ASSUME NEW n \in K3s!Nodes, K3s!EdgeKill(n) PROVE cMarks'
    <2>1. /\ pc' = "edge" /\ UNCHANGED <<up, ip, url, agent, edgeConf, edgeMark>>
          /\ edgeRun'[n] = None /\ \A m \in K3s!Nodes : m = n \/ edgeRun'[m] = edgeRun[m]
      BY <1>e, <1>19, Zenon DEF K3s!EdgeKill, K3s!Edge
    <2> QED BY <2>1, Zenon
  <1>20. ASSUME NEW n \in K3s!Nodes, K3s!EdgeSupervise(n) PROVE cMarks'
    <2>1. /\ pc' = "edge" /\ UNCHANGED <<up, ip, url, agent, edgeConf, edgeMark>>
          /\ edgeRun'[n] = IF edgeRun[n] = None THEN edgeConf[n] ELSE edgeRun[n]
          /\ \A m \in K3s!Nodes : m = n \/ edgeRun'[m] = edgeRun[m]
      BY <1>e, <1>20, Zenon DEF K3s!EdgeSupervise, K3s!Edge
    <2> QED BY <2>1, Zenon
  <1>21. ASSUME NEW n \in K3s!Nodes, K3s!EdgeMark(n) PROVE cMarks'
    <2>1. /\ pc = "mark" /\ pc' = "mark" /\ UNCHANGED <<up, ip, url, agent, edgeConf, edgeRun>>
          /\ epc[n] = "on" /\ \A m \in K3s!Nodes : m = n \/ edgeMark'[m] = edgeMark[m]
      BY <1>e, <1>21, Zenon DEF K3s!EdgeMark
    <2>2. edgeConf[n] = target /\ edgeRun[n] = target BY <2>1, Zenon DEF cEdges
    <2>3. target = ip[CP] BY <1>p, <2>1, Zenon
    <2>4. \A w \in Workers : url[w] = target /\ agent[w] = target
      BY <2>1, Zenon DEF cProgress, cAfterWorkers
    <2> QED BY <2>1, <2>2, <2>3, <2>4, Zenon
  <1>22. ASSUME NEW n \in K3s!Nodes, K3s!KubeletReport(n) PROVE cMarks'
    BY <1>0, <1>22, Zenon DEF K3s!KubeletReport
  <1>23. ASSUME NEW n \in K3s!Nodes, K3s!edgeProxySupervisor(n) PROVE cMarks'
    <2>1. /\ UNCHANGED <<pc, wpc, up, ip, url, agent, edgeConf, edgeMark>>
          /\ edgeRun'[n] = edgeConf[n] /\ \A m \in K3s!Nodes : m = n \/ edgeRun'[m] = edgeRun[m]
      BY <1>e, <1>23, Zenon DEF K3s!edgeProxySupervisor
    <2> QED BY <2>1, Zenon
  <1>24. ASSUME NEW S \in SUBSET K3s!Nodes, S # {}, K3s!Reboot(S) PROVE cMarks'
    <2>1. /\ pc' = "idle" /\ UNCHANGED <<ip, url, agent, edgeConf, edgeMark>>
          /\ \A n \in K3s!Nodes : (n \in up' => n \in up) /\ edgeRun'[n] \in {None, edgeRun[n]}
      BY <1>e, <1>24, Zenon DEF K3s!Reboot
    <2> QED BY <1>0, <2>1, Zenon
  <1> QED
    <2>1. /\ K3s!Nodes \in SUBSET K3s!Nodes /\ K3s!Nodes # {}
          /\ \A n \in K3s!Nodes : {n} \in SUBSET K3s!Nodes /\ {n} # {}
      BY Zenon DEF K3s!Nodes
    <2> QED
      BY <2>1, <1>1, <1>2, <1>3, <1>4, <1>5, <1>6, <1>7, <1>8, <1>9, <1>10, <1>11, <1>12, <1>13,
      <1>14, <1>15, <1>16, <1>17, <1>18, <1>19, <1>20, <1>21, <1>22, <1>23, <1>24, Zenon
      DEF K3s!Next, K3s!ResumeStep, K3s!WorkerStep, K3s!EdgeStep

\* Every step of a k3s cluster on apple/container keeps cPods.
LEMMA cPodsStep ==
  ASSUME K3s!K3sAssumption, K3s!TypeOK, cProgress, cPods, K3s!Next
  PROVE  cPods'
  <1> USE DEF K3s!guest, K3s!local, K3s!bounds, K3s!Goto, cPods
  <1>t. up \subseteq K3s!Nodes /\ restarted \in BOOLEAN BY Zenon DEF K3s!TypeOK
  <1>0. CP \in K3s!Nodes /\ (pc = "done" => up = K3s!Nodes)
    BY Zenon DEF K3s!Nodes, cProgress, cAfterWorkers
  <1>1. CASE K3s!Resume
    BY <1>0, <1>1, Zenon DEF K3s!Resume
  <1>2. CASE K3s!BootServer
    <2>1. pc = "server" /\ pc' = "read" /\ UNCHANGED <<faults, pods, restarted>> BY <1>2, Zenon
         DEF K3s!BootServer
    <2>2. CASE CP \in wasUp
      <3>1. ip' = ip BY <2>2, <1>2, Zenon DEF K3s!BootServer
      <3>2. restarted => restarted' BY <1>t, <2>1, Zenon
      <3> QED BY <2>1, <3>1, <3>2, Zenon
    <2>3. CASE CP \notin wasUp
      <3>1. restarted BY <1>0, <2>1, <2>3, Zenon DEF cProgress
      <3> QED BY <2>1, <3>1, Zenon
    <2> QED BY <2>2, <2>3, Zenon
  <1>3. CASE K3s!ReadServer
    BY <1>0, <1>3, Zenon DEF K3s!ReadServer
  <1>4. CASE K3s!WorkersDone
    BY <1>0, <1>4, Zenon DEF K3s!WorkersDone
  <1>5. CASE K3s!waitK3sNodeAddresses
    BY <1>t, <1>5, Zenon DEF K3s!waitK3sNodeAddresses
  <1>6. CASE K3s!refreshK3sNodePods
    <2>1. nodeLive = ip BY <1>6, Zenon DEF K3s!refreshK3sNodePods, cProgress
    <2> QED BY <2>1, <1>6, Zenon DEF K3s!refreshK3sNodePods
  <1>7. CASE K3s!EdgeRules
    BY <1>0, <1>7, Zenon DEF K3s!EdgeRules
  <1>8. CASE K3s!EdgesMarked
    BY <1>0, <1>8, Zenon DEF K3s!EdgesMarked
  <1>9. CASE K3s!WriteKubeconfig
    BY <1>0, <1>9, Zenon DEF K3s!WriteKubeconfig
  <1>10. CASE K3s!Fail
    <2>1. faults' # 0 BY <1>10, Raised, Zenon DEF K3s!Fail, K3s!TypeOK, K3s!K3sAssumption
    <2> QED BY <2>1, Zenon
  <1>11. ASSUME NEW w \in Workers, K3s!StartWorker(w) PROVE cPods'
    <2>1. pc = "workers" /\ pc' = pc /\ UNCHANGED <<faults, pods, restarted>> BY <1>11, Zenon
         DEF K3s!StartWorker, K3s!Worker
    <2>2. CASE w \in wasUp
      <3>1. ip' = ip BY <2>2, <1>11, Zenon DEF K3s!StartWorker, K3s!Worker
      <3>2. restarted => restarted' BY <1>t, <2>1, Zenon
      <3> QED BY <2>1, <3>1, <3>2, Zenon
    <2>3. CASE w \notin wasUp
      <3>1. wasUp # K3s!Nodes BY <2>3, Zenon DEF K3s!Nodes
      <3>2. restarted BY <2>1, <3>1, Zenon DEF cProgress
      <3> QED BY <2>1, <3>2, Zenon
    <2> QED BY <2>2, <2>3, Zenon
  <1>12. ASSUME NEW w \in Workers, K3s!InstallHook(w) PROVE cPods'
    BY <1>t, <1>12, Zenon DEF K3s!InstallHook, K3s!Worker
  <1>13. ASSUME NEW w \in Workers, K3s!StopWorker(w) PROVE cPods'
    BY <1>0, <1>13, Zenon DEF K3s!StopWorker, K3s!Worker
  <1>14. ASSUME NEW w \in Workers, K3s!StartAgain(w) PROVE cPods'
    <2>1. pc = "workers" /\ wpc[w] = "again" /\ UNCHANGED <<pc, restarted>> BY <1>14, Zenon
         DEF K3s!StartAgain, K3s!Worker
    <2>2. restarted BY <2>1, Zenon DEF cProgress
    <2> QED BY <2>1, <2>2, Zenon
  <1>15. ASSUME NEW w \in Workers, K3s!VerifyAgent(w) PROVE cPods'
    BY <1>0, <1>15, Zenon DEF K3s!VerifyAgent, K3s!Worker
  <1>16. ASSUME NEW w \in Workers, K3s!k3sSupervisor(w) PROVE cPods'
    BY <1>0, <1>16, Zenon DEF K3s!k3sSupervisor
  <1>17. ASSUME NEW n \in K3s!Nodes, K3s!EdgeUntouched(n) PROVE cPods'
    BY <1>0, <1>17, Zenon DEF K3s!EdgeUntouched, K3s!Edge
  <1>18. ASSUME NEW n \in K3s!Nodes, K3s!EdgeRewrite(n) PROVE cPods'
    BY <1>0, <1>18, Zenon DEF K3s!EdgeRewrite, K3s!Edge
  <1>19. ASSUME NEW n \in K3s!Nodes, K3s!EdgeKill(n) PROVE cPods'
    BY <1>0, <1>19, Zenon DEF K3s!EdgeKill, K3s!Edge
  <1>20. ASSUME NEW n \in K3s!Nodes, K3s!EdgeSupervise(n) PROVE cPods'
    BY <1>0, <1>20, Zenon DEF K3s!EdgeSupervise, K3s!Edge
  <1>21. ASSUME NEW n \in K3s!Nodes, K3s!EdgeMark(n) PROVE cPods'
    BY <1>0, <1>21, Zenon DEF K3s!EdgeMark
  <1>22. ASSUME NEW n \in K3s!Nodes, K3s!KubeletReport(n) PROVE cPods'
    BY <1>0, <1>22, Zenon DEF K3s!KubeletReport
  <1>23. ASSUME NEW n \in K3s!Nodes, K3s!edgeProxySupervisor(n) PROVE cPods'
    BY <1>0, <1>23, Zenon DEF K3s!edgeProxySupervisor
  <1>24. ASSUME NEW S \in SUBSET K3s!Nodes, S # {}, K3s!Reboot(S) PROVE cPods'
    <2>1. pc' = "idle" /\ up' # K3s!Nodes BY <1>24, <1>t, Zenon DEF K3s!Reboot
    <2> QED BY <2>1, Zenon
  <1> QED
    <2>1. /\ K3s!Nodes \in SUBSET K3s!Nodes /\ K3s!Nodes # {}
          /\ \A n \in K3s!Nodes : {n} \in SUBSET K3s!Nodes /\ {n} # {}
      BY Zenon DEF K3s!Nodes
    <2> QED
      BY <2>1, <1>1, <1>2, <1>3, <1>4, <1>5, <1>6, <1>7, <1>8, <1>9, <1>10, <1>11, <1>12, <1>13,
      <1>14, <1>15, <1>16, <1>17, <1>18, <1>19, <1>20, <1>21, <1>22, <1>23, <1>24, Zenon
      DEF K3s!Next, K3s!ResumeStep, K3s!WorkerStep, K3s!EdgeStep

-----------------------------------------------------------------------------
(* k3s on apple/container: the invariant, and what it says.                *)

\* A k3s cluster on apple/container as Create leaves it satisfies the invariant.
LEMMA cInit == K3s!K3sAssumption /\ K3s!Init => cInv
  <1> SUFFICES ASSUME K3s!K3sAssumption, K3s!Init PROVE cInv OBVIOUS
  <1>1. K3s!TypeOK BY cTypeInit, Zenon
  <1>2. pc = "idle" /\ pods = ip /\ edgeMark = [n \in K3s!Nodes |-> None] BY Zenon DEF K3s!Init
  <1>3. CP \in K3s!Nodes BY Zenon DEF K3s!Nodes
  <1>4. ip[CP] # None
    <2>1. ip \in [K3s!Nodes -> ContainerIPs] BY <1>1, Zenon DEF K3s!TypeOK
    <2>2. None \notin ContainerIPs BY Zenon DEF K3s!K3sAssumption
    <2> QED BY <1>3, <2>1, <2>2, Zenon
  <1>5. cProgress BY <1>2, Zenon DEF cProgress, cAfterWorkers
  <1>6. cEdges BY <1>2, Zenon DEF cEdges
  <1>7. cMarks
    <2>1. \A n \in K3s!Nodes : edgeMark[n] # ip[CP] BY <1>2, <1>4, Zenon
    <2> QED BY <2>1, Zenon DEF cMarks
  <1>8. cPods BY <1>2, Zenon DEF cPods
  <1> QED BY <1>1, <1>5, <1>6, <1>7, <1>8, Zenon DEF cInv

\* Every step of resumeK3s, of the supervisors in a node and of the host keeps it.
LEMMA cNext == K3s!K3sAssumption /\ cInv /\ K3s!Next => cInv'
  <1> SUFFICES ASSUME K3s!K3sAssumption, cInv, K3s!Next PROVE cInv' OBVIOUS
  <1> USE DEF cInv
  <1>1. K3s!TypeOK' BY cTypeStep, Zenon
  <1>2. cProgress' BY cProgressStep, Zenon
  <1>3. cEdges' BY cEdgesStep, Zenon
  <1>4. cMarks' BY cMarksStep, Zenon
  <1>5. cPods' BY cPodsStep, Zenon
  <1> QED BY <1>1, <1>2, <1>3, <1>4, <1>5, Zenon

\* What a resume of k3s on apple/container reports, as the invariant has it.
LEMMA cSafe == cInv => K3s!SuccessMeansHealed /\ K3s!PodsRefreshed
  <1> SUFFICES ASSUME cInv PROVE K3s!SuccessMeansHealed /\ K3s!PodsRefreshed OBVIOUS
  <1>1. ASSUME pc = "done" PROVE K3s!Healed
    <2>1. /\ up = K3s!Nodes /\ target = ip[CP] /\ nodeLive = ip /\ hostConf = target
          /\ \A w \in Workers : agent[w] = target
      BY <1>1, Zenon DEF cInv, cProgress, cAfterWorkers
    <2>2. \A n \in K3s!Nodes : edgeConf[n] = target /\ edgeRun[n] = target
      BY <1>1, Zenon DEF cInv, cEdges
    <2> QED BY <2>1, <2>2, Zenon DEF K3s!Healed
  <1>2. K3s!PodsRefreshed BY Zenon DEF cInv, cPods, K3s!PodsRefreshed
  <1> QED BY <1>1, <1>2, Zenon DEF K3s!SuccessMeansHealed

\* A counter that was raised has another value.
LEMMA Moves == \A k, m : m \in Nat /\ k \in 0 .. m => k + 1 # k
  OBVIOUS

\* No step other than a reboot touches a healed k3s cluster on apple/container whose
\* markers are written.
LEMMA cNoOp ==
  ASSUME K3s!K3sAssumption, cInv, K3s!Next
  PROVE  K3s!HealedResumeIsNoOp
  <1> USE DEF K3s!guest, K3s!local, K3s!bounds, K3s!Goto, K3s!HealedResumeIsNoOp
  <1>0. CP \in K3s!Nodes /\ \A w \in Workers : w \in K3s!Nodes BY Zenon DEF K3s!Nodes
  <1>t. /\ edgeRun \in [K3s!Nodes -> ContainerIPs \cup {None}] /\ ip[CP] # None
    <2>1. /\ edgeRun \in [K3s!Nodes -> ContainerIPs \cup {None}] /\ ip \in [K3s!Nodes -> ContainerIPs]
      BY Zenon DEF cInv, K3s!TypeOK
    <2>2. None \notin ContainerIPs BY Zenon DEF K3s!K3sAssumption
    <2> QED BY <1>0, <2>1, <2>2, Zenon
  <1>h. K3s!Healed =>
          /\ up = K3s!Nodes /\ \A w \in Workers : agent[w] = ip[CP]
          /\ \A n \in K3s!Nodes : edgeConf[n] = ip[CP] /\ edgeRun[n] = ip[CP]
    BY Zenon DEF K3s!Healed
  <1>m. (K3s!Healed /\ \A n \in K3s!Nodes : edgeMark[n] = ip[CP]) =>
          \A w \in Workers : url[w] = ip[CP] /\ (pc = "workers" => wpc[w] # "stop")
    BY <1>0, <1>h, Zenon DEF cInv, cMarks
  <1>p. pc = "edge" => /\ target = ip[CP]
                       /\ \A n \in K3s!Nodes : epc[n] = "kill" /\ edgeMark[n] = target => edgeRun[n] = None
    BY Zenon DEF cInv, cProgress, cEdges, cAfterWorkers
  <1>1. CASE K3s!Resume
    BY <1>0, <1>1, Zenon DEF K3s!Resume
  <1>2. CASE K3s!BootServer
    BY <1>0, <1>h, <1>m, <1>2, Zenon DEF K3s!BootServer, K3s!Boot
  <1>3. CASE K3s!ReadServer
    BY <1>0, <1>3, Zenon DEF K3s!ReadServer
  <1>4. CASE K3s!WorkersDone
    BY <1>0, <1>4, Zenon DEF K3s!WorkersDone
  <1>5. CASE K3s!waitK3sNodeAddresses
    BY <1>0, <1>5, Zenon DEF K3s!waitK3sNodeAddresses
  <1>6. CASE K3s!refreshK3sNodePods
    BY <1>0, <1>6, Zenon DEF K3s!refreshK3sNodePods
  <1>7. CASE K3s!EdgeRules
    BY <1>0, <1>7, Zenon DEF K3s!EdgeRules
  <1>8. CASE K3s!EdgesMarked
    BY <1>0, <1>8, Zenon DEF K3s!EdgesMarked
  <1>9. CASE K3s!WriteKubeconfig
    BY <1>0, <1>9, Zenon DEF K3s!WriteKubeconfig
  <1>10. CASE K3s!Fail
    BY <1>0, <1>10, Zenon DEF K3s!Fail
  <1>11. ASSUME NEW w \in Workers, K3s!StartWorker(w) PROVE K3s!HealedResumeIsNoOp
    BY <1>0, <1>h, <1>m, <1>11, Zenon DEF K3s!StartWorker, K3s!Worker, K3s!Boot
  <1>12. ASSUME NEW w \in Workers, K3s!InstallHook(w) PROVE K3s!HealedResumeIsNoOp
    BY <1>0, <1>12, Zenon DEF K3s!InstallHook, K3s!Worker
  <1>13. ASSUME NEW w \in Workers, K3s!StopWorker(w) PROVE K3s!HealedResumeIsNoOp
    BY <1>0, <1>h, <1>m, <1>13, Zenon DEF K3s!StopWorker, K3s!Worker
  <1>14. ASSUME NEW w \in Workers, K3s!StartAgain(w) PROVE K3s!HealedResumeIsNoOp
    BY <1>0, <1>h, <1>m, <1>14, Zenon DEF K3s!StartAgain, K3s!Worker, K3s!Boot
  <1>15. ASSUME NEW w \in Workers, K3s!VerifyAgent(w) PROVE K3s!HealedResumeIsNoOp
    BY <1>0, <1>15, Zenon DEF K3s!VerifyAgent, K3s!Worker
  <1>16. ASSUME NEW w \in Workers, K3s!k3sSupervisor(w) PROVE K3s!HealedResumeIsNoOp
    BY <1>0, <1>t, <1>h, <1>m, <1>16, Zenon DEF K3s!k3sSupervisor, K3s!k3sResumeLauncher
  <1>17. ASSUME NEW n \in K3s!Nodes, K3s!EdgeUntouched(n) PROVE K3s!HealedResumeIsNoOp
    BY <1>0, <1>17, Zenon DEF K3s!EdgeUntouched, K3s!Edge
  <1>18. ASSUME NEW n \in K3s!Nodes, K3s!EdgeRewrite(n) PROVE K3s!HealedResumeIsNoOp
    BY <1>h, <1>p, <1>18, Zenon DEF K3s!EdgeRewrite, K3s!Edge
  <1>19. ASSUME NEW n \in K3s!Nodes, K3s!EdgeKill(n) PROVE K3s!HealedResumeIsNoOp
    BY <1>t, <1>h, <1>p, <1>19, Zenon DEF K3s!EdgeKill, K3s!Edge
  <1>20. ASSUME NEW n \in K3s!Nodes, K3s!EdgeSupervise(n) PROVE K3s!HealedResumeIsNoOp
    <2>1. UNCHANGED <<up, ip, agent, edgeConf>> BY <1>20, Zenon DEF K3s!EdgeSupervise, K3s!Edge
    <2>2. edgeRun' = [edgeRun EXCEPT ![n] = IF edgeRun[n] = None THEN edgeConf[n] ELSE edgeRun[n]]
      BY <1>20, Zenon DEF K3s!EdgeSupervise, K3s!Edge
    <2>3. edgeRun[n] # None => edgeRun' = edgeRun BY <1>t, <2>2
    <2> QED BY <1>t, <1>h, <2>1, <2>3, Zenon
  <1>21. ASSUME NEW n \in K3s!Nodes, K3s!EdgeMark(n) PROVE K3s!HealedResumeIsNoOp
    BY <1>0, <1>21, Zenon DEF K3s!EdgeMark
  <1>22. ASSUME NEW n \in K3s!Nodes, K3s!KubeletReport(n) PROVE K3s!HealedResumeIsNoOp
    BY <1>0, <1>22, Zenon DEF K3s!KubeletReport
  <1>23. ASSUME NEW n \in K3s!Nodes, K3s!edgeProxySupervisor(n) PROVE K3s!HealedResumeIsNoOp
    <2>1. edgeRun[n] # edgeConf[n] BY <1>23, Zenon DEF K3s!edgeProxySupervisor
    <2>2. ~K3s!Healed BY <1>h, <2>1, Zenon
    <2> QED BY <2>2, Zenon
  <1>24. ASSUME NEW S \in SUBSET K3s!Nodes, S # {}, K3s!Reboot(S) PROVE K3s!HealedResumeIsNoOp
    <2>1. reboots' # reboots BY <1>24, Moves, Zenon DEF K3s!Reboot, cInv, K3s!TypeOK,
         K3s!K3sAssumption
    <2> QED BY <2>1, Zenon
  <1> QED
    <2>1. /\ K3s!Nodes \in SUBSET K3s!Nodes /\ K3s!Nodes # {}
          /\ \A n \in K3s!Nodes : {n} \in SUBSET K3s!Nodes /\ {n} # {}
      BY Zenon DEF K3s!Nodes
    <2> QED
      BY <2>1, <1>1, <1>2, <1>3, <1>4, <1>5, <1>6, <1>7, <1>8, <1>9, <1>10, <1>11, <1>12, <1>13,
      <1>14, <1>15, <1>16, <1>17, <1>18, <1>19, <1>20, <1>21, <1>22, <1>23, <1>24, Zenon
      DEF K3s!Next, K3s!ResumeStep, K3s!WorkerStep, K3s!EdgeStep

-----------------------------------------------------------------------------
(* k3s on krunkit: a boot, and the type invariant.                         *)

\* A boot gives the VM one of the network's addresses and starts k3s and the proxy
\* with what is on its disk.
LEMMA sBoots ==
  ASSUME Systemd!TypeOK, NEW n \in Systemd!Nodes, Systemd!Boot(n)
  PROVE  /\ n \notin up /\ up' = up \cup {n} /\ ip' \in [Systemd!Nodes -> KrunkitIPs]
         /\ run' \in [Systemd!Nodes -> Systemd!Configs] /\ run'[n] = config[n]
         /\ edgeRun' \in [Systemd!Nodes -> KrunkitIPs] /\ edgeRun'[n] = edgeConf[n]
         /\ \A m \in Systemd!Nodes :
              m = n \/ (ip'[m] = ip[m] /\ run'[m] = run[m] /\ edgeRun'[m] = edgeRun[m])
  <1>t. /\ ip \in [Systemd!Nodes -> KrunkitIPs] /\ config \in [Systemd!Nodes -> Systemd!Configs]
        /\ run \in [Systemd!Nodes -> Systemd!Configs]
        /\ edgeConf \in [Systemd!Nodes -> KrunkitIPs] /\ edgeRun \in [Systemd!Nodes -> KrunkitIPs]
    BY Zenon DEF Systemd!TypeOK
  <1>1. PICK a \in KrunkitIPs : ip' = [ip EXCEPT ![n] = a] BY Zenon DEF Systemd!Boot
  <1>2. ip' \in [Systemd!Nodes -> KrunkitIPs] /\ \A m \in Systemd!Nodes : m = n \/ ip'[m] = ip[m]
    BY <1>t, <1>1, Zenon
  <1>3. /\ n \notin up /\ up' = up \cup {n} /\ run' = [run EXCEPT ![n] = config[n]]
        /\ edgeRun' = [edgeRun EXCEPT ![n] = edgeConf[n]]
    BY Zenon DEF Systemd!Boot
  <1>4. /\ run' \in [Systemd!Nodes -> Systemd!Configs] /\ run'[n] = config[n]
        /\ \A m \in Systemd!Nodes : m = n \/ run'[m] = run[m]
    BY <1>t, <1>3, Zenon
  <1>5. /\ edgeRun' \in [Systemd!Nodes -> KrunkitIPs] /\ edgeRun'[n] = edgeConf[n]
        /\ \A m \in Systemd!Nodes : m = n \/ edgeRun'[m] = edgeRun[m]
    BY <1>t, <1>3, Zenon
  <1> QED BY <1>2, <1>3, <1>4, <1>5, Zenon

\* A k3s cluster on krunkit starts with its types.
LEMMA sTypeInit == Systemd!K3sSystemdAssumption /\ Systemd!Init => Systemd!TypeOK
  <1> SUFFICES ASSUME Systemd!K3sSystemdAssumption, Systemd!Init PROVE Systemd!TypeOK OBVIOUS
  <1>1. PICK a : a = CHOOSE f \in Systemd!Addresses : TRUE OBVIOUS
  <1>2. a \in Systemd!Addresses BY <1>1, Zenon DEF Systemd!K3sSystemdAssumption
  <1>3. a \in [Systemd!Nodes -> KrunkitIPs] BY <1>2, Zenon DEF Systemd!Addresses
  <1>4. CP \in Systemd!Nodes BY Zenon DEF Systemd!Nodes
  <1>5. a[CP] \in KrunkitIPs BY <1>3, <1>4, Zenon
  <1>6. /\ ip = a /\ nodeLive = a /\ pods = a
        /\ config = [n \in Systemd!Nodes |-> [ip |-> a[n], server |-> a[CP]]] /\ run = config
        /\ edgeConf = [n \in Systemd!Nodes |-> a[CP]] /\ edgeRun = edgeConf
        /\ hostConf = a[CP] /\ serverIP = a[CP]
    BY <1>1, SMT DEF Systemd!Init
  <1>7. config \in [Systemd!Nodes -> Systemd!Configs] BY <1>3, <1>5, <1>6 DEF Systemd!Configs
  <1>8. faults \in 0 .. SystemdFaults /\ reboots \in 0 .. SystemdReboots
    BY DEF Systemd!Init, Systemd!K3sSystemdAssumption
  <1>9. pc \in Systemd!Steps BY DEF Systemd!Init, Systemd!Steps
  <1> QED BY <1>3, <1>5, <1>6, <1>7, <1>8, <1>9, Zenon DEF Systemd!Init, Systemd!TypeOK

\* Every step of a k3s cluster on krunkit keeps the types.
LEMMA sTypeStep ==
  ASSUME Systemd!K3sSystemdAssumption, Systemd!TypeOK, Systemd!Next
  PROVE  Systemd!TypeOK'
  <1> USE DEF Systemd!disk, Systemd!procs, Systemd!seen, Systemd!bounds, Systemd!TypeOK,
       Systemd!Steps
  <1>0. CP \in Systemd!Nodes BY Zenon DEF Systemd!Nodes
  <1>1. CASE Systemd!Resume
    BY <1>0, <1>1, Zenon DEF Systemd!Resume
  <1>2. CASE Systemd!BootServer
    <2>1. CASE ~Systemd!Boot(CP) BY <1>0, <2>1, <1>2, Zenon DEF Systemd!BootServer, Systemd!Node
    <2>2. CASE Systemd!Boot(CP)
      <3> HIDE DEF Systemd!TypeOK, Systemd!Steps
      <3>0. up \subseteq Systemd!Nodes BY Zenon DEF Systemd!TypeOK
      <3>1. /\ ip' \in [Systemd!Nodes -> KrunkitIPs] /\ run' \in [Systemd!Nodes -> Systemd!Configs]
            /\ edgeRun' \in [Systemd!Nodes -> KrunkitIPs] /\ up' = up \cup {CP}
        BY <1>0, <2>2, sBoots, ZenonT(40)
      <3>2. up' \subseteq Systemd!Nodes BY <1>0, <3>0, <3>1, Zenon
      <3> QED BY <1>0, <3>1, <3>2, <1>2, Zenon DEF Systemd!BootServer, Systemd!Node,
           Systemd!TypeOK, Systemd!Steps
    <2> QED BY <2>1, <2>2, Zenon
  <1>3. CASE Systemd!ServerDone
    BY <1>0, <1>3, Zenon DEF Systemd!ServerDone, Systemd!Local
  <1>4. CASE Systemd!waitK3sAPI
    BY <1>0, <1>4, Zenon DEF Systemd!waitK3sAPI, Systemd!Local
  <1>5. CASE Systemd!AgentsDone
    BY <1>0, <1>5, Zenon DEF Systemd!AgentsDone, Systemd!Local
  <1>6. CASE Systemd!waitK3sNodeAddresses
    BY <1>0, <1>6, Zenon DEF Systemd!waitK3sNodeAddresses, Systemd!Local
  <1>7. CASE Systemd!refreshOptionalNodeExporter
    BY <1>0, <1>7, Zenon DEF Systemd!refreshOptionalNodeExporter, Systemd!Local
  <1>8. CASE Systemd!EdgeDone
    BY <1>0, <1>8, Zenon DEF Systemd!EdgeDone, Systemd!Local
  <1>9. CASE Systemd!WriteKubeconfig
    BY <1>0, <1>9, Zenon DEF Systemd!WriteKubeconfig, Systemd!Local
  <1>10. CASE Systemd!TimeOut
    BY <1>0, <1>10, Zenon DEF Systemd!TimeOut
  <1>11. CASE Systemd!Fail
    <2>1. faults' \in 0 .. SystemdFaults BY <1>11, Counts, Zenon DEF Systemd!Fail,
         Systemd!K3sSystemdAssumption
    <2> QED BY <2>1, <1>11, Zenon DEF Systemd!Fail
  <1>12. ASSUME NEW n \in Systemd!Nodes, Systemd!BootAgent(n) PROVE Systemd!TypeOK'
    <2>1. CASE ~Systemd!Boot(n) BY <1>0, <2>1, <1>12, Zenon DEF Systemd!BootAgent,
         Systemd!Node, Systemd!Active
    <2>2. CASE Systemd!Boot(n)
      <3> HIDE DEF Systemd!TypeOK, Systemd!Steps
      <3>0. up \subseteq Systemd!Nodes BY Zenon DEF Systemd!TypeOK
      <3>1. /\ ip' \in [Systemd!Nodes -> KrunkitIPs] /\ run' \in [Systemd!Nodes -> Systemd!Configs]
            /\ edgeRun' \in [Systemd!Nodes -> KrunkitIPs] /\ up' = up \cup {n}
        BY <1>0, <2>2, sBoots, ZenonT(40)
      <3>2. up' \subseteq Systemd!Nodes BY <1>0, <3>0, <3>1, Zenon
      <3> QED BY <1>0, <3>1, <3>2, <1>12, Zenon DEF Systemd!BootAgent, Systemd!Node,
           Systemd!Active, Systemd!TypeOK, Systemd!Steps
    <2> QED BY <2>1, <2>2, Zenon
  <1>13. ASSUME NEW n \in Systemd!Nodes, Systemd!updateK3sSystemdConfig(n) PROVE Systemd!TypeOK'
    <2>1. PICK c : c = Systemd!Want(n) OBVIOUS
    <2>2. c \in Systemd!Configs BY <2>1 DEF Systemd!Want, Systemd!Configs
    <2>3. config' = [config EXCEPT ![n] = c] BY <2>1, <1>13, Zenon
         DEF Systemd!updateK3sSystemdConfig, Systemd!Node, Systemd!Active
    <2>4. config' \in [Systemd!Nodes -> Systemd!Configs] BY <2>2, <2>3, Zenon
    <2> QED BY <2>4, <1>13, Zenon DEF Systemd!updateK3sSystemdConfig, Systemd!Node,
         Systemd!Active
  <1>14. ASSUME NEW n \in Systemd!Nodes, Systemd!ensureK3sGPUUnit(n) PROVE Systemd!TypeOK'
    BY <1>0, <1>14, Zenon DEF Systemd!ensureK3sGPUUnit, Systemd!Node, Systemd!Active
  <1>15. ASSUME NEW n \in Systemd!Nodes, Systemd!ensureK3sSystemdService(n) PROVE Systemd!TypeOK'
    BY <1>0, <1>15, Zenon DEF Systemd!ensureK3sSystemdService, Systemd!Node, Systemd!Active
  <1>16. ASSUME NEW n \in Systemd!Nodes, Systemd!EdgeHealthy(n) PROVE Systemd!TypeOK'
    BY <1>0, <1>16, Zenon DEF Systemd!EdgeHealthy, Systemd!Edge
  <1>17. ASSUME NEW n \in Systemd!Nodes, Systemd!EdgeUnhealthy(n) PROVE Systemd!TypeOK'
    BY <1>0, <1>17, Zenon DEF Systemd!EdgeUnhealthy, Systemd!Edge
  <1>18. ASSUME NEW n \in Systemd!Nodes, Systemd!EdgeRewrite(n) PROVE Systemd!TypeOK'
    BY <1>0, <1>18, Zenon DEF Systemd!EdgeRewrite, Systemd!Edge
  <1>19. ASSUME NEW n \in Systemd!Nodes, Systemd!EdgeRestart(n) PROVE Systemd!TypeOK'
    BY <1>0, <1>19, Zenon DEF Systemd!EdgeRestart, Systemd!Edge
  <1>20. ASSUME NEW n \in Systemd!Nodes, Systemd!SystemdRestart(n) PROVE Systemd!TypeOK'
    BY <1>0, <1>20, Zenon DEF Systemd!SystemdRestart
  <1>21. ASSUME NEW n \in Systemd!Nodes, Systemd!K3sExits(n) PROVE Systemd!TypeOK'
    BY <1>0, <1>21, Zenon DEF Systemd!K3sExits
  <1>22. ASSUME NEW n \in Systemd!Nodes, Systemd!KubeletReport(n) PROVE Systemd!TypeOK'
    BY <1>0, <1>22, Zenon DEF Systemd!KubeletReport
  <1>23. ASSUME NEW n \in Systemd!Nodes, Systemd!NodeLost(n) PROVE Systemd!TypeOK'
    BY <1>0, <1>23, Zenon DEF Systemd!NodeLost
  <1>24. ASSUME NEW n \in Systemd!Nodes, Systemd!EdgeExits(n) PROVE Systemd!TypeOK'
    BY <1>0, <1>24, Zenon DEF Systemd!EdgeExits
  <1>25. ASSUME NEW n \in Systemd!Nodes, Systemd!EdgeMarked(n) PROVE Systemd!TypeOK'
    <2>1. faults' \in 0 .. SystemdFaults BY <1>25, Counts, Zenon DEF Systemd!EdgeMarked,
         Systemd!K3sSystemdAssumption
    <2> QED BY <2>1, <1>25, Zenon DEF Systemd!EdgeMarked
  <1>26. ASSUME NEW S \in SUBSET Systemd!Nodes, Systemd!Reboot(S) PROVE Systemd!TypeOK'
    <2>1. reboots' \in 0 .. SystemdReboots BY <1>26, Counts, Zenon DEF Systemd!Reboot,
         Systemd!K3sSystemdAssumption
    <2> QED BY <2>1, <1>26, Zenon DEF Systemd!Reboot
  <1> QED
    <2>1. /\ Systemd!Nodes \in SUBSET Systemd!Nodes
          /\ \A n \in Systemd!Nodes : {n} \in SUBSET Systemd!Nodes
      BY Zenon
    <2> QED
      BY <2>1, <1>1, <1>2, <1>3, <1>4, <1>5, <1>6, <1>7, <1>8, <1>9, <1>10, <1>11, <1>12,
        <1>13, <1>14, <1>15, <1>16, <1>17, <1>18, <1>19, <1>20, <1>21, <1>22, <1>23,
        <1>24, <1>25, <1>26, Zenon DEF Systemd!Next, Systemd!ResumeStep, Systemd!NodeStep,
        Systemd!Environment

\* Every step of a k3s cluster on krunkit keeps sProgress.
LEMMA sProgressStep ==
  ASSUME Systemd!K3sSystemdAssumption, Systemd!TypeOK, sProgress, Systemd!Next
  PROVE  sProgress'
  <1> USE DEF Systemd!disk, Systemd!procs, Systemd!seen, Systemd!bounds, sProgress,
       sAfterAgents, Systemd!nodesChanged
  <1>0. CP \in Systemd!Nodes /\ \A w \in Workers : w \in Systemd!Nodes /\ w # CP
    BY Zenon DEF Systemd!Nodes, Systemd!K3sSystemdAssumption
  <1>c. \A n \in Systemd!Nodes : n = CP \/ n \in Workers BY Zenon DEF Systemd!Nodes
  <1>t. /\ npc \in [Systemd!Nodes -> {"boot", "config", "unit", "service", "ok"}]
        /\ config \in [Systemd!Nodes -> Systemd!Configs]
    BY Zenon DEF Systemd!TypeOK
  <1>v. \A m \in Systemd!Nodes : UNCHANGED <<ip[m], serverIP>> => Systemd!Want(m)' = Systemd!Want(m)
    BY Zenon DEF Systemd!Want
  <1>1. CASE Systemd!Resume
    BY <1>0, <1>c, <1>v, <1>1, Zenon DEF Systemd!Resume
  <1>2. CASE Systemd!BootServer
    <2>1. /\ pc = "start" /\ pc' = "server" /\ npc'[CP] = "config" /\ serverIP' = ip'[CP]
          /\ \A m \in Systemd!Nodes : m = CP \/ npc'[m] = npc[m]
      BY <1>0, <1>t, <1>2, Zenon DEF Systemd!BootServer, Systemd!Node
    <2>2. CP \in up'
      <3>1. CASE Systemd!Boot(CP) BY <1>0, <3>1, sBoots, Zenon
      <3>2. CASE ~Systemd!Boot(CP) BY <3>2, <1>2, Zenon DEF Systemd!BootServer, Systemd!Node
      <3> QED BY <3>1, <3>2, Zenon
    <2> QED BY <1>0, <2>1, <2>2, Zenon
  <1>3. CASE Systemd!ServerDone
    BY <1>0, <1>c, <1>v, <1>3, Zenon DEF Systemd!ServerDone, Systemd!Local
  <1>4. CASE Systemd!waitK3sAPI
    BY <1>0, <1>c, <1>v, <1>4, Zenon DEF Systemd!waitK3sAPI, Systemd!Local
  <1>5. CASE Systemd!AgentsDone
    BY <1>0, <1>c, <1>v, <1>5, Zenon DEF Systemd!AgentsDone, Systemd!Local
  <1>6. CASE Systemd!waitK3sNodeAddresses
    BY <1>0, <1>c, <1>v, <1>6, Zenon DEF Systemd!waitK3sNodeAddresses, Systemd!Local
  <1>7. CASE Systemd!refreshOptionalNodeExporter
    BY <1>0, <1>c, <1>v, <1>7, Zenon DEF Systemd!refreshOptionalNodeExporter, Systemd!Local
  <1>8. CASE Systemd!EdgeDone
    BY <1>0, <1>c, <1>v, <1>8, Zenon DEF Systemd!EdgeDone, Systemd!Local
  <1>9. CASE Systemd!WriteKubeconfig
    BY <1>0, <1>c, <1>v, <1>9, Zenon DEF Systemd!WriteKubeconfig, Systemd!Local
  <1>10. CASE Systemd!TimeOut
    BY <1>0, <1>10, Zenon DEF Systemd!TimeOut
  <1>11. CASE Systemd!Fail
    BY <1>0, <1>11, Zenon DEF Systemd!Fail
  <1>12. ASSUME NEW n \in Systemd!Nodes, Systemd!BootAgent(n) PROVE sProgress'
    <2>n. n # CP BY <1>12, Zenon DEF Systemd!BootAgent, Systemd!Node, Systemd!Active
    <2>1. /\ npc[n] = "boot" /\ npc'[n] = "config" /\ UNCHANGED <<serverIP, pc, wasUp, nodeLive, pods, hostConf>>
          /\ \A m \in Systemd!Nodes : m = n \/ npc'[m] = npc[m]
          /\ pc = IF n = CP THEN "server" ELSE "agents"
      BY <1>t, <1>12, Zenon DEF Systemd!BootAgent, Systemd!Node, Systemd!Active
    <2>2. UNCHANGED config BY <1>12, Zenon DEF Systemd!BootAgent, Systemd!Node, Systemd!Active
    <2>3. n \in up' /\ ip'[CP] = ip[CP] /\ \A m \in Systemd!Nodes : (m \in up => m \in up') /\ (m = n \/ ip'[m] = ip[m])
      <3>1. CASE Systemd!Boot(n) BY <1>0, <2>n, <3>1, sBoots, Zenon
      <3>2. CASE ~Systemd!Boot(n) BY <3>2, <1>12, Zenon DEF Systemd!BootAgent, Systemd!Node,
           Systemd!Active
      <3> QED BY <3>1, <3>2, Zenon
    <2>4. \A m \in Systemd!Nodes : m = n \/ Systemd!Want(m)' = Systemd!Want(m)
      BY <1>v, <2>1, <2>3, Zenon
    <2> QED BY <1>0, <1>c, <2>n, <2>1, <2>2, <2>3, <2>4, Zenon
  <1>13. ASSUME NEW n \in Systemd!Nodes, Systemd!updateK3sSystemdConfig(n) PROVE sProgress'
    <2>1. /\ npc[n] = "config" /\ npc'[n] = "unit" /\ UNCHANGED <<serverIP, pc, wasUp, nodeLive, pods, hostConf>>
          /\ \A m \in Systemd!Nodes : m = n \/ npc'[m] = npc[m]
          /\ pc = IF n = CP THEN "server" ELSE "agents"
      BY <1>t, <1>13, Zenon DEF Systemd!updateK3sSystemdConfig, Systemd!Node, Systemd!Active
    <2>2. /\ UNCHANGED <<up, ip>> /\ config'[n] = Systemd!Want(n)
          /\ \A m \in Systemd!Nodes : m = n \/ config'[m] = config[m]
      BY <1>t, <1>13, Zenon DEF Systemd!updateK3sSystemdConfig, Systemd!Node, Systemd!Active
    <2>3. \A m \in Systemd!Nodes : Systemd!Want(m)' = Systemd!Want(m) BY <1>v, <2>1, <2>2, Zenon
    <2> QED BY <1>0, <1>c, <2>1, <2>2, <2>3, Zenon
  <1>14. ASSUME NEW n \in Systemd!Nodes, Systemd!ensureK3sGPUUnit(n) PROVE sProgress'
    <2>1. /\ npc[n] = "unit" /\ npc'[n] = "service" /\ UNCHANGED <<serverIP, pc, wasUp, nodeLive, pods, hostConf>>
          /\ \A m \in Systemd!Nodes : m = n \/ npc'[m] = npc[m]
          /\ pc = IF n = CP THEN "server" ELSE "agents"
      BY <1>t, <1>14, Zenon DEF Systemd!ensureK3sGPUUnit, Systemd!Node, Systemd!Active
    <2>2. UNCHANGED <<up, ip, config>> BY <1>14, Zenon DEF Systemd!ensureK3sGPUUnit,
         Systemd!Node, Systemd!Active
    <2>3. \A m \in Systemd!Nodes : Systemd!Want(m)' = Systemd!Want(m) BY <1>v, <2>1, <2>2, Zenon
    <2> QED BY <1>0, <1>c, <2>1, <2>2, <2>3, Zenon
  <1>15. ASSUME NEW n \in Systemd!Nodes, Systemd!ensureK3sSystemdService(n) PROVE sProgress'
    <2>1. /\ npc[n] = "service" /\ npc'[n] = "ok" /\ UNCHANGED <<serverIP, pc, wasUp, nodeLive, pods, hostConf>>
          /\ \A m \in Systemd!Nodes : m = n \/ npc'[m] = npc[m]
          /\ pc = IF n = CP THEN "server" ELSE "agents"
      BY <1>t, <1>15, Zenon DEF Systemd!ensureK3sSystemdService, Systemd!Node, Systemd!Active
    <2>2. UNCHANGED <<up, ip, config>> BY <1>15, Zenon DEF Systemd!ensureK3sSystemdService,
         Systemd!Node, Systemd!Active
    <2>3. \A m \in Systemd!Nodes : Systemd!Want(m)' = Systemd!Want(m) BY <1>v, <2>1, <2>2, Zenon
    <2> QED BY <1>0, <1>c, <2>1, <2>2, <2>3, Zenon
  <1>16. ASSUME NEW n \in Systemd!Nodes, Systemd!EdgeHealthy(n) PROVE sProgress'
    BY <1>0, <1>c, <1>v, <1>16, Zenon DEF Systemd!EdgeHealthy, Systemd!Edge
  <1>17. ASSUME NEW n \in Systemd!Nodes, Systemd!EdgeUnhealthy(n) PROVE sProgress'
    BY <1>0, <1>c, <1>v, <1>17, Zenon DEF Systemd!EdgeUnhealthy, Systemd!Edge
  <1>18. ASSUME NEW n \in Systemd!Nodes, Systemd!EdgeRewrite(n) PROVE sProgress'
    BY <1>0, <1>c, <1>v, <1>18, Zenon DEF Systemd!EdgeRewrite, Systemd!Edge
  <1>19. ASSUME NEW n \in Systemd!Nodes, Systemd!EdgeRestart(n) PROVE sProgress'
    BY <1>0, <1>c, <1>v, <1>19, Zenon DEF Systemd!EdgeRestart, Systemd!Edge
  <1>20. ASSUME NEW n \in Systemd!Nodes, Systemd!SystemdRestart(n) PROVE sProgress'
    BY <1>0, <1>c, <1>v, <1>20, Zenon DEF Systemd!SystemdRestart
  <1>21. ASSUME NEW n \in Systemd!Nodes, Systemd!K3sExits(n) PROVE sProgress'
    BY <1>0, <1>c, <1>v, <1>21, Zenon DEF Systemd!K3sExits
  <1>22. ASSUME NEW n \in Systemd!Nodes, Systemd!KubeletReport(n) PROVE sProgress'
    <2>1. nodeLive = ip => nodeLive' = ip BY <1>22 DEF Systemd!KubeletReport, Systemd!TypeOK
    <2> QED BY <1>v, <2>1, <1>22, Zenon DEF Systemd!KubeletReport
  <1>23. ASSUME NEW n \in Systemd!Nodes, Systemd!NodeLost(n) PROVE sProgress'
    BY <1>0, <1>c, <1>v, <1>23, Zenon DEF Systemd!NodeLost
  <1>24. ASSUME NEW n \in Systemd!Nodes, Systemd!EdgeExits(n) PROVE sProgress'
    BY <1>0, <1>c, <1>v, <1>24, Zenon DEF Systemd!EdgeExits
  <1>25. ASSUME NEW n \in Systemd!Nodes, Systemd!EdgeMarked(n) PROVE sProgress'
    BY <1>0, <1>25, Zenon DEF Systemd!EdgeMarked
  <1>26. ASSUME NEW S \in SUBSET Systemd!Nodes, Systemd!Reboot(S) PROVE sProgress'
    BY <1>0, <1>26, Zenon DEF Systemd!Reboot
  <1> QED
    <2>1. /\ Systemd!Nodes \in SUBSET Systemd!Nodes
          /\ \A n \in Systemd!Nodes : {n} \in SUBSET Systemd!Nodes
      BY Zenon
    <2> QED
      BY <2>1, <1>1, <1>2, <1>3, <1>4, <1>5, <1>6, <1>7, <1>8, <1>9, <1>10, <1>11, <1>12,
        <1>13, <1>14, <1>15, <1>16, <1>17, <1>18, <1>19, <1>20, <1>21, <1>22, <1>23,
        <1>24, <1>25, <1>26, Zenon DEF Systemd!Next, Systemd!ResumeStep, Systemd!NodeStep,
        Systemd!Environment

\* Every step of a k3s cluster on krunkit keeps sRuns.
LEMMA sRunsStep ==
  ASSUME Systemd!K3sSystemdAssumption, Systemd!TypeOK, sProgress, sRuns, Systemd!Next
  PROVE  sRuns'
  <1> USE DEF Systemd!disk, Systemd!procs, Systemd!seen, Systemd!bounds, sRuns
  <1>0. CP \in Systemd!Nodes /\ \A w \in Workers : w \in Systemd!Nodes /\ w # CP
    BY Zenon DEF Systemd!Nodes, Systemd!K3sSystemdAssumption
  <1>t. /\ npc \in [Systemd!Nodes -> {"boot", "config", "unit", "service", "ok"}]
        /\ config \in [Systemd!Nodes -> Systemd!Configs] /\ run \in [Systemd!Nodes -> Systemd!Configs]
        /\ up \subseteq Systemd!Nodes
    BY Zenon DEF Systemd!TypeOK
  <1>1. CASE Systemd!Resume
    BY <1>0, <1>1, Zenon DEF Systemd!Resume
  <1>2. CASE Systemd!BootServer
    <2>1. /\ pc = "start" /\ UNCHANGED <<config, jobs, faults>> BY <1>2, Zenon
         DEF Systemd!BootServer, Systemd!Node
    <2>2. CASE Systemd!Boot(CP)
      <3>1. /\ up' = up \cup {CP} /\ run'[CP] = config[CP]
            /\ \A m \in Systemd!Nodes : m = CP \/ run'[m] = run[m]
        BY <1>0, <2>2, sBoots, Zenon
      <3> QED BY <1>t, <2>1, <3>1, Zenon
    <2>3. CASE ~Systemd!Boot(CP)
      <3>1. UNCHANGED <<up, run>> BY <2>3, <1>2, Zenon DEF Systemd!BootServer, Systemd!Node
      <3> QED BY <2>1, <3>1, Zenon
    <2> QED BY <2>2, <2>3, Zenon
  <1>3. CASE Systemd!ServerDone
    <2>1. \A n \in Systemd!Nodes : npc[n] \notin {"unit", "service"}
      BY <1>3, Zenon DEF Systemd!ServerDone, Systemd!Local, sProgress, Systemd!Nodes
    <2> QED BY <1>t, <2>1, <1>3, Zenon DEF Systemd!ServerDone, Systemd!Local
  <1>4. CASE Systemd!waitK3sAPI
    BY <1>0, <1>4, Zenon DEF Systemd!waitK3sAPI, Systemd!Local
  <1>5. CASE Systemd!AgentsDone
    <2>1. \A n \in Systemd!Nodes : npc[n] \notin {"unit", "service"}
      BY <1>5, Zenon DEF Systemd!AgentsDone, Systemd!Local, sProgress, Systemd!Nodes
    <2> QED BY <1>t, <2>1, <1>5, Zenon DEF Systemd!AgentsDone, Systemd!Local
  <1>6. CASE Systemd!waitK3sNodeAddresses
    BY <1>0, <1>6, Zenon DEF Systemd!waitK3sNodeAddresses, Systemd!Local
  <1>7. CASE Systemd!refreshOptionalNodeExporter
    BY <1>0, <1>7, Zenon DEF Systemd!refreshOptionalNodeExporter, Systemd!Local
  <1>8. CASE Systemd!EdgeDone
    BY <1>0, <1>8, Zenon DEF Systemd!EdgeDone, Systemd!Local
  <1>9. CASE Systemd!WriteKubeconfig
    BY <1>0, <1>9, Zenon DEF Systemd!WriteKubeconfig, Systemd!Local
  <1>10. CASE Systemd!TimeOut
    BY <1>0, <1>10, Zenon DEF Systemd!TimeOut
  <1>11. CASE Systemd!Fail
    <2>1. faults' # 0 BY <1>11, Raised, Zenon DEF Systemd!Fail, Systemd!TypeOK,
         Systemd!K3sSystemdAssumption
    <2>2. UNCHANGED <<up, jobs>> BY <1>11, Zenon DEF Systemd!Fail
    <2> QED BY <2>1, <2>2, Zenon
  <1>12. ASSUME NEW n \in Systemd!Nodes, Systemd!BootAgent(n) PROVE sRuns'
    <2>1. /\ npc[n] = "boot" /\ npc'[n] = "config" /\ UNCHANGED <<pc, faults>>
          /\ \A m \in Systemd!Nodes : m = n \/ npc'[m] = npc[m]
          /\ pc \in {"server", "agents"}
      BY <1>t, <1>12, Zenon DEF Systemd!BootAgent, Systemd!Node, Systemd!Active
    <2>2. UNCHANGED <<config, jobs, dirty>> BY <1>12, Zenon DEF Systemd!BootAgent,
         Systemd!Node, Systemd!Active
    <2>3. CASE Systemd!Boot(n)
      <3>1. /\ up' = up \cup {n} /\ run'[n] = config[n]
            /\ \A m \in Systemd!Nodes : m = n \/ run'[m] = run[m]
        BY <2>3, sBoots, Zenon
      <3> QED BY <1>t, <2>1, <2>2, <3>1, Zenon
    <2>4. CASE ~Systemd!Boot(n)
      <3>1. UNCHANGED <<up, run>> BY <2>4, <1>12, Zenon DEF Systemd!BootAgent, Systemd!Node,
           Systemd!Active
      <3> QED BY <1>t, <2>1, <2>2, <3>1, Zenon
    <2> QED BY <2>3, <2>4, Zenon
  <1>13. ASSUME NEW n \in Systemd!Nodes, Systemd!updateK3sSystemdConfig(n) PROVE sRuns'
    <2>1. /\ npc[n] = "config" /\ npc'[n] = "unit" /\ UNCHANGED <<pc, faults>>
          /\ \A m \in Systemd!Nodes : m = n \/ npc'[m] = npc[m]
          /\ pc \in {"server", "agents"}
      BY <1>t, <1>13, Zenon DEF Systemd!updateK3sSystemdConfig, Systemd!Node, Systemd!Active
    <2>2. /\ UNCHANGED <<up, run, jobs>> /\ (config'[n] = config[n] \/ n \in dirty')
          /\ \A m \in Systemd!Nodes : (m = n \/ config'[m] = config[m]) /\ (m \in dirty => m \in dirty')
      BY <1>t, <1>13, Zenon DEF Systemd!updateK3sSystemdConfig, Systemd!Node, Systemd!Active
    <2> QED BY <1>t, <2>1, <2>2, Zenon
  <1>14. ASSUME NEW n \in Systemd!Nodes, Systemd!ensureK3sGPUUnit(n) PROVE sRuns'
    <2>1. /\ npc[n] = "unit" /\ npc'[n] = "service" /\ UNCHANGED <<pc, faults>>
          /\ \A m \in Systemd!Nodes : m = n \/ npc'[m] = npc[m]
          /\ pc \in {"server", "agents"}
      BY <1>t, <1>14, Zenon DEF Systemd!ensureK3sGPUUnit, Systemd!Node, Systemd!Active
    <2>2. UNCHANGED <<up, run, jobs, config>> /\ \A m \in Systemd!Nodes : m \in dirty => m \in dirty'
      BY <1>14, Zenon DEF Systemd!ensureK3sGPUUnit, Systemd!Node, Systemd!Active
    <2> QED BY <1>t, <2>1, <2>2, Zenon
  <1>15. ASSUME NEW n \in Systemd!Nodes, Systemd!ensureK3sSystemdService(n) PROVE sRuns'
    <2>1. /\ npc[n] = "service" /\ npc'[n] = "ok" /\ UNCHANGED <<pc, faults>>
          /\ \A m \in Systemd!Nodes : m = n \/ npc'[m] = npc[m]
          /\ pc \in {"server", "agents"}
      BY <1>t, <1>15, Zenon DEF Systemd!ensureK3sSystemdService, Systemd!Node, Systemd!Active
    <2>2. /\ UNCHANGED <<up, run, config, dirty>> /\ (n \in dirty => n \in jobs') /\ n \in up
          /\ jobs' \subseteq jobs \cup {n} /\ jobs \subseteq jobs'
      BY <1>15, Zenon DEF Systemd!ensureK3sSystemdService, Systemd!Node, Systemd!Active
    <2> QED BY <1>t, <2>1, <2>2, Zenon
  <1>16. ASSUME NEW n \in Systemd!Nodes, Systemd!EdgeHealthy(n) PROVE sRuns'
    BY <1>0, <1>16, Zenon DEF Systemd!EdgeHealthy, Systemd!Edge
  <1>17. ASSUME NEW n \in Systemd!Nodes, Systemd!EdgeUnhealthy(n) PROVE sRuns'
    BY <1>0, <1>17, Zenon DEF Systemd!EdgeUnhealthy, Systemd!Edge
  <1>18. ASSUME NEW n \in Systemd!Nodes, Systemd!EdgeRewrite(n) PROVE sRuns'
    BY <1>0, <1>18, Zenon DEF Systemd!EdgeRewrite, Systemd!Edge
  <1>19. ASSUME NEW n \in Systemd!Nodes, Systemd!EdgeRestart(n) PROVE sRuns'
    BY <1>0, <1>19, Zenon DEF Systemd!EdgeRestart, Systemd!Edge
  <1>20. ASSUME NEW n \in Systemd!Nodes, Systemd!SystemdRestart(n) PROVE sRuns'
    <2>1. /\ UNCHANGED <<up, config, npc, pc, dirty, faults>> /\ run'[n] = config[n]
          /\ \A m \in Systemd!Nodes : m = n \/ (run'[m] = run[m] /\ (m \in jobs => m \in jobs'))
          /\ jobs' \subseteq jobs
      BY <1>t, <1>20, Zenon DEF Systemd!SystemdRestart
    <2> QED BY <1>t, <2>1, Zenon
  <1>21. ASSUME NEW n \in Systemd!Nodes, Systemd!K3sExits(n) PROVE sRuns'
    <2>1. /\ UNCHANGED <<up, config, npc, pc, dirty, faults>> /\ run'[n] = config[n]
          /\ \A m \in Systemd!Nodes : m = n \/ (run'[m] = run[m] /\ (m \in jobs => m \in jobs'))
          /\ jobs' \subseteq jobs
      BY <1>t, <1>21, Zenon DEF Systemd!K3sExits
    <2> QED BY <1>t, <2>1, Zenon
  <1>22. ASSUME NEW n \in Systemd!Nodes, Systemd!KubeletReport(n) PROVE sRuns'
    BY <1>0, <1>22, Zenon DEF Systemd!KubeletReport
  <1>23. ASSUME NEW n \in Systemd!Nodes, Systemd!NodeLost(n) PROVE sRuns'
    BY <1>0, <1>23, Zenon DEF Systemd!NodeLost
  <1>24. ASSUME NEW n \in Systemd!Nodes, Systemd!EdgeExits(n) PROVE sRuns'
    BY <1>0, <1>24, Zenon DEF Systemd!EdgeExits
  <1>25. ASSUME NEW n \in Systemd!Nodes, Systemd!EdgeMarked(n) PROVE sRuns'
    <2>1. faults' # 0 BY <1>25, Raised, Zenon DEF Systemd!EdgeMarked, Systemd!TypeOK,
         Systemd!K3sSystemdAssumption
    <2>2. UNCHANGED <<up, jobs>> BY <1>25, Zenon DEF Systemd!EdgeMarked
    <2> QED BY <2>1, <2>2, Zenon
  <1>26. ASSUME NEW S \in SUBSET Systemd!Nodes, Systemd!Reboot(S) PROVE sRuns'
    <2>1. /\ pc' = "idle" /\ UNCHANGED <<run, config, faults>> /\ up' = up \ S /\ jobs' = jobs \ S
          /\ S = Systemd!Nodes \/ pc \in {"idle", "done"}
      BY <1>26, Zenon DEF Systemd!Reboot
    <2>2. CASE S = Systemd!Nodes BY <1>t, <2>1, <2>2, Zenon
    <2>3. CASE pc \in {"idle", "done"} BY <2>1, <2>3, Zenon
    <2> QED BY <2>1, <2>2, <2>3, Zenon
  <1> QED
    <2>1. /\ Systemd!Nodes \in SUBSET Systemd!Nodes
          /\ \A n \in Systemd!Nodes : {n} \in SUBSET Systemd!Nodes
      BY Zenon
    <2> QED
      BY <2>1, <1>1, <1>2, <1>3, <1>4, <1>5, <1>6, <1>7, <1>8, <1>9, <1>10, <1>11, <1>12,
        <1>13, <1>14, <1>15, <1>16, <1>17, <1>18, <1>19, <1>20, <1>21, <1>22, <1>23,
        <1>24, <1>25, <1>26, Zenon DEF Systemd!Next, Systemd!ResumeStep, Systemd!NodeStep,
        Systemd!Environment

\* Every step of a k3s cluster on krunkit keeps sEdges.
LEMMA sEdgesStep ==
  ASSUME Systemd!K3sSystemdAssumption, Systemd!TypeOK, sEdges, Systemd!Next
  PROVE  sEdges'
  <1> USE DEF Systemd!disk, Systemd!procs, Systemd!seen, Systemd!bounds, sEdges
  <1>0. CP \in Systemd!Nodes /\ \A w \in Workers : w \in Systemd!Nodes /\ w # CP
    BY Zenon DEF Systemd!Nodes, Systemd!K3sSystemdAssumption
  <1>t. /\ epc \in [Systemd!Nodes -> {"check", "restart", "ok"}] /\ up \subseteq Systemd!Nodes
        /\ edgeConf \in [Systemd!Nodes -> KrunkitIPs] /\ edgeRun \in [Systemd!Nodes -> KrunkitIPs]
    BY Zenon DEF Systemd!TypeOK
  <1>1. CASE Systemd!Resume
    BY <1>0, <1>1, Zenon DEF Systemd!Resume
  <1>2. CASE Systemd!BootServer
    <2>1. pc' = "server" /\ pc \in {"start", "agents"} /\ UNCHANGED <<epc, edgeConf, marker>> BY <1>2, Zenon
         DEF Systemd!BootServer, Systemd!Node
    <2>2. CASE Systemd!Boot(CP)
      <3>1. /\ up' = up \cup {CP} /\ edgeRun'[CP] = edgeConf[CP]
            /\ \A m \in Systemd!Nodes : m = CP \/ edgeRun'[m] = edgeRun[m]
        BY <1>0, <2>2, sBoots, Zenon
      <3> QED BY <1>t, <2>1, <3>1, Zenon
    <2>3. CASE ~Systemd!Boot(CP)
      <3>1. UNCHANGED <<up, edgeRun>> BY <2>3, <1>2, Zenon DEF Systemd!BootServer, Systemd!Node
      <3> QED BY <2>1, <3>1, Zenon
    <2> QED BY <2>2, <2>3, Zenon
  <1>3. CASE Systemd!ServerDone
    BY <1>0, <1>3, Zenon DEF Systemd!ServerDone, Systemd!Local
  <1>4. CASE Systemd!waitK3sAPI
    BY <1>0, <1>4, Zenon DEF Systemd!waitK3sAPI, Systemd!Local
  <1>5. CASE Systemd!AgentsDone
    BY <1>0, <1>5, Zenon DEF Systemd!AgentsDone, Systemd!Local
  <1>6. CASE Systemd!waitK3sNodeAddresses
    BY <1>0, <1>6, Zenon DEF Systemd!waitK3sNodeAddresses, Systemd!Local
  <1>7. CASE Systemd!refreshOptionalNodeExporter
    BY <1>0, <1>7, Zenon DEF Systemd!refreshOptionalNodeExporter, Systemd!Local
  <1>8. CASE Systemd!EdgeDone
    BY <1>0, <1>8, Zenon DEF Systemd!EdgeDone, Systemd!Local
  <1>9. CASE Systemd!WriteKubeconfig
    BY <1>0, <1>9, Zenon DEF Systemd!WriteKubeconfig, Systemd!Local
  <1>10. CASE Systemd!TimeOut
    BY <1>0, <1>10, Zenon DEF Systemd!TimeOut
  <1>11. CASE Systemd!Fail
    BY <1>0, <1>11, Zenon DEF Systemd!Fail
  <1>12. ASSUME NEW n \in Systemd!Nodes, Systemd!BootAgent(n) PROVE sEdges'
    <2>1. pc' = "agents" /\ pc \in {"start", "agents"} /\ UNCHANGED <<epc, edgeConf, marker>> BY <1>12, Zenon
         DEF Systemd!BootAgent, Systemd!Node, Systemd!Active
    <2>2. CASE Systemd!Boot(n)
      <3>1. /\ up' = up \cup {n} /\ edgeRun'[n] = edgeConf[n]
            /\ \A m \in Systemd!Nodes : m = n \/ edgeRun'[m] = edgeRun[m]
        BY <1>0, <2>2, sBoots, Zenon
      <3> QED BY <1>t, <2>1, <3>1, Zenon
    <2>3. CASE ~Systemd!Boot(n)
      <3>1. UNCHANGED <<up, edgeRun>> BY <2>3, <1>12, Zenon DEF Systemd!BootAgent,
           Systemd!Node, Systemd!Active
      <3> QED BY <2>1, <3>1, Zenon
    <2> QED BY <2>2, <2>3, Zenon
  <1>13. ASSUME NEW n \in Systemd!Nodes, Systemd!updateK3sSystemdConfig(n) PROVE sEdges'
    BY <1>0, <1>13, Zenon DEF Systemd!updateK3sSystemdConfig, Systemd!Node, Systemd!Active
  <1>14. ASSUME NEW n \in Systemd!Nodes, Systemd!ensureK3sGPUUnit(n) PROVE sEdges'
    BY <1>0, <1>14, Zenon DEF Systemd!ensureK3sGPUUnit, Systemd!Node, Systemd!Active
  <1>15. ASSUME NEW n \in Systemd!Nodes, Systemd!ensureK3sSystemdService(n) PROVE sEdges'
    BY <1>0, <1>15, Zenon DEF Systemd!ensureK3sSystemdService, Systemd!Node, Systemd!Active
  <1>16. ASSUME NEW n \in Systemd!Nodes, Systemd!EdgeHealthy(n) PROVE sEdges'
    <2>1. /\ pc = "edge" /\ pc' = pc /\ UNCHANGED <<up, ip>> /\ n \in up
          /\ \A m \in Systemd!Nodes : m = n \/ (/\ epc'[m] = epc[m] /\ edgeConf'[m] = edgeConf[m]
                                                /\ edgeRun'[m] = edgeRun[m] /\ (m \in marker' <=> m \in marker))
      BY <1>t, <1>16, Zenon DEF Systemd!EdgeHealthy, Systemd!Edge
    <2>2. /\ epc'[n] = "ok" /\ edgeConf[n] = ip[CP] /\ n \notin marker
          /\ UNCHANGED <<edgeConf, edgeRun, marker>>
      BY <1>t, <1>16, Zenon DEF Systemd!EdgeHealthy, Systemd!Edge
    <2> QED BY <1>t, <2>1, <2>2, Zenon
  <1>17. ASSUME NEW n \in Systemd!Nodes, Systemd!EdgeUnhealthy(n) PROVE sEdges'
    <2>1. /\ pc = "edge" /\ pc' = pc /\ UNCHANGED <<up, ip>> /\ n \in up
          /\ \A m \in Systemd!Nodes : m = n \/ (/\ epc'[m] = epc[m] /\ edgeConf'[m] = edgeConf[m]
                                                /\ edgeRun'[m] = edgeRun[m] /\ (m \in marker' <=> m \in marker))
      BY <1>t, <1>17, Zenon DEF Systemd!EdgeUnhealthy, Systemd!Edge
    <2>2. epc'[n] = "restart" /\ edgeConf[n] = ip[CP] /\ UNCHANGED <<edgeConf, edgeRun, marker>>
      BY <1>t, <1>17, Zenon DEF Systemd!EdgeUnhealthy, Systemd!Edge
    <2> QED BY <1>t, <2>1, <2>2, Zenon
  <1>18. ASSUME NEW n \in Systemd!Nodes, Systemd!EdgeRewrite(n) PROVE sEdges'
    <2>1. /\ pc = "edge" /\ pc' = pc /\ UNCHANGED <<up, ip>> /\ n \in up
          /\ \A m \in Systemd!Nodes : m = n \/ (/\ epc'[m] = epc[m] /\ edgeConf'[m] = edgeConf[m]
                                                /\ edgeRun'[m] = edgeRun[m] /\ (m \in marker' <=> m \in marker))
      BY <1>t, <1>18, Zenon DEF Systemd!EdgeRewrite, Systemd!Edge
    <2>2. epc'[n] = "restart" /\ edgeConf'[n] = ip[CP] /\ n \in marker'
      BY <1>t, <1>18, Zenon DEF Systemd!EdgeRewrite, Systemd!Edge
    <2> QED BY <1>t, <2>1, <2>2, Zenon
  <1>19. ASSUME NEW n \in Systemd!Nodes, Systemd!EdgeRestart(n) PROVE sEdges'
    <2>1. /\ pc = "edge" /\ pc' = pc /\ UNCHANGED <<up, ip>> /\ n \in up
          /\ \A m \in Systemd!Nodes : m = n \/ (/\ epc'[m] = epc[m] /\ edgeConf'[m] = edgeConf[m]
                                                /\ edgeRun'[m] = edgeRun[m] /\ (m \in marker' <=> m \in marker))
      BY <1>t, <1>19, Zenon DEF Systemd!EdgeRestart, Systemd!Edge
    <2>2. /\ epc[n] = "restart" /\ epc'[n] = "ok" /\ edgeConf'[n] = edgeConf[n]
          /\ edgeRun'[n] = edgeConf[n] /\ n \notin marker'
      BY <1>t, <1>19, Zenon DEF Systemd!EdgeRestart, Systemd!Edge
    <2> QED BY <1>t, <2>1, <2>2, Zenon
  <1>20. ASSUME NEW n \in Systemd!Nodes, Systemd!SystemdRestart(n) PROVE sEdges'
    BY <1>0, <1>20, Zenon DEF Systemd!SystemdRestart
  <1>21. ASSUME NEW n \in Systemd!Nodes, Systemd!K3sExits(n) PROVE sEdges'
    BY <1>0, <1>21, Zenon DEF Systemd!K3sExits
  <1>22. ASSUME NEW n \in Systemd!Nodes, Systemd!KubeletReport(n) PROVE sEdges'
    BY <1>0, <1>22, Zenon DEF Systemd!KubeletReport
  <1>23. ASSUME NEW n \in Systemd!Nodes, Systemd!NodeLost(n) PROVE sEdges'
    BY <1>0, <1>23, Zenon DEF Systemd!NodeLost
  <1>24. ASSUME NEW n \in Systemd!Nodes, Systemd!EdgeExits(n) PROVE sEdges'
    <2>1. /\ UNCHANGED <<pc, up, ip, epc, edgeConf, marker>> /\ edgeRun'[n] = edgeConf[n]
          /\ \A m \in Systemd!Nodes : m = n \/ edgeRun'[m] = edgeRun[m]
      BY <1>t, <1>24, Zenon DEF Systemd!EdgeExits
    <2> QED BY <1>t, <2>1, Zenon
  <1>25. ASSUME NEW n \in Systemd!Nodes, Systemd!EdgeMarked(n) PROVE sEdges'
    <2>1. pc' = "idle" /\ UNCHANGED <<up, edgeConf, edgeRun>> /\ marker \subseteq marker'
      BY <1>25, Zenon DEF Systemd!EdgeMarked
    <2> QED BY <2>1, Zenon
  <1>26. ASSUME NEW S \in SUBSET Systemd!Nodes, Systemd!Reboot(S) PROVE sEdges'
    BY <1>0, <1>26, Zenon DEF Systemd!Reboot
  <1> QED
    <2>1. /\ Systemd!Nodes \in SUBSET Systemd!Nodes
          /\ \A n \in Systemd!Nodes : {n} \in SUBSET Systemd!Nodes
      BY Zenon
    <2> QED
      BY <2>1, <1>1, <1>2, <1>3, <1>4, <1>5, <1>6, <1>7, <1>8, <1>9, <1>10, <1>11, <1>12,
        <1>13, <1>14, <1>15, <1>16, <1>17, <1>18, <1>19, <1>20, <1>21, <1>22, <1>23,
        <1>24, <1>25, <1>26, Zenon DEF Systemd!Next, Systemd!ResumeStep, Systemd!NodeStep,
        Systemd!Environment

\* What a resume that found a healed cluster leaves alone.
sKept ==
  /\ UNCHANGED <<up, ip, config, run, jobs, edgeRun, edgeConf>>
  /\ \/ pc' = "idle"
     \/ /\ UNCHANGED <<unit, wasUp, dirty, healthy, nodeLive, marker>>
        /\ \A n \in Systemd!Nodes : epc'[n] # "restart"

\* A step of a resume that found a healed cluster, or of what is around it, keeps the
\* cluster, unless it is a reboot.
LEMMA sQuiet ==
  ASSUME Systemd!K3sSystemdAssumption, Systemd!TypeOK, sProgress, sHealthy,
         healthy, pc \notin {"idle", "done"}, Systemd!Next
  PROVE  sKept \/ (pc' = "idle" /\ reboots' # reboots)
  <1> USE DEF Systemd!disk, Systemd!procs, Systemd!seen, Systemd!bounds, sKept
  <1>0. CP \in Systemd!Nodes BY Zenon DEF Systemd!Nodes
  <1>h. /\ up = Systemd!Nodes /\ nodeLive = ip /\ jobs = {} /\ unit = Systemd!Nodes /\ marker = {}
        /\ wasUp = Systemd!Nodes /\ dirty = {}
        /\ \A n \in Systemd!Nodes :
             /\ run[n] = config[n] /\ config[n] = [ip |-> ip[n], server |-> ip[CP]]
             /\ edgeConf[n] = ip[CP] /\ edgeRun[n] = ip[CP] /\ epc[n] # "restart"
    BY Zenon DEF sHealthy, Systemd!NodesHealed, Systemd!FilesHealed, Systemd!LeftBehind,
                 Systemd!ProxiesHealed
  <1>t. /\ config \in [Systemd!Nodes -> Systemd!Configs] /\ nodeLive \in [Systemd!Nodes -> KrunkitIPs]
        /\ epc \in [Systemd!Nodes -> {"check", "restart", "ok"}]
    BY Zenon DEF Systemd!TypeOK
  <1>1. CASE Systemd!Resume
    BY <1>1, Zenon DEF Systemd!Resume
  <1>2. CASE Systemd!BootServer
    BY <1>0, <1>h, <1>2, Zenon DEF Systemd!BootServer, Systemd!Node
  <1>3. CASE Systemd!ServerDone
    BY <1>h, <1>3, Zenon DEF Systemd!ServerDone, Systemd!Local
  <1>4. CASE Systemd!waitK3sAPI
    BY <1>h, <1>4, Zenon DEF Systemd!waitK3sAPI, Systemd!Local
  <1>5. CASE Systemd!AgentsDone
    BY <1>h, <1>5, Zenon DEF Systemd!AgentsDone, Systemd!Local
  <1>6. CASE Systemd!waitK3sNodeAddresses
    BY <1>h, <1>6, Zenon DEF Systemd!waitK3sNodeAddresses, Systemd!Local
  <1>7. CASE Systemd!refreshOptionalNodeExporter
    BY <1>h, <1>7, Zenon DEF Systemd!refreshOptionalNodeExporter, Systemd!Local
  <1>8. CASE Systemd!EdgeDone
    BY <1>h, <1>8, Zenon DEF Systemd!EdgeDone, Systemd!Local
  <1>9. CASE Systemd!WriteKubeconfig
    BY <1>h, <1>9, Zenon DEF Systemd!WriteKubeconfig, Systemd!Local
  <1>10. CASE Systemd!TimeOut
    BY <1>h, <1>10, Zenon DEF Systemd!TimeOut
  <1>11. CASE Systemd!Fail
    BY <1>h, <1>11, Zenon DEF Systemd!Fail
  <1>12. ASSUME NEW n \in Systemd!Nodes, Systemd!BootAgent(n) PROVE sKept \/ (pc' = "idle" /\ reboots' # reboots)
    BY <1>h, <1>12, Zenon DEF Systemd!BootAgent, Systemd!Node, Systemd!Active
  <1>13. ASSUME NEW n \in Systemd!Nodes, Systemd!updateK3sSystemdConfig(n) PROVE sKept \/ (pc' = "idle" /\ reboots' # reboots)
    <2>1. serverIP = ip[CP] BY <1>0, <1>13, Zenon DEF Systemd!updateK3sSystemdConfig,
         Systemd!Node, Systemd!Active, sProgress, sAfterAgents
    <2>2. config[n] = Systemd!Want(n) BY <1>h, <2>1, Zenon DEF Systemd!Want
    <2>3. config' = [config EXCEPT ![n] = config[n]] BY <2>2, <1>13, Zenon
         DEF Systemd!updateK3sSystemdConfig, Systemd!Node, Systemd!Active
    <2>4. config' = config BY <1>t, <2>3
    <2>5. dirty' = dirty BY <2>2, <1>13, Zenon DEF Systemd!updateK3sSystemdConfig,
         Systemd!Node, Systemd!Active
    <2> QED BY <1>h, <2>4, <2>5, <1>13, Zenon DEF Systemd!updateK3sSystemdConfig,
         Systemd!Node, Systemd!Active
  <1>14. ASSUME NEW n \in Systemd!Nodes, Systemd!ensureK3sGPUUnit(n) PROVE sKept \/ (pc' = "idle" /\ reboots' # reboots)
    <2>1. unit' = unit /\ dirty' = dirty
      <3>1. n \in unit BY <1>h, Zenon
      <3> QED BY <3>1, <1>14 DEF Systemd!ensureK3sGPUUnit
    <2> QED BY <1>h, <2>1, <1>14, Zenon DEF Systemd!ensureK3sGPUUnit, Systemd!Node,
         Systemd!Active
  <1>15. ASSUME NEW n \in Systemd!Nodes, Systemd!ensureK3sSystemdService(n) PROVE sKept \/ (pc' = "idle" /\ reboots' # reboots)
    BY <1>h, <1>15, Zenon DEF Systemd!ensureK3sSystemdService, Systemd!Node, Systemd!Active
  <1>16. ASSUME NEW n \in Systemd!Nodes, Systemd!EdgeHealthy(n) PROVE sKept \/ (pc' = "idle" /\ reboots' # reboots)
    <2>1. \A m \in Systemd!Nodes : epc'[m] # "restart" BY <1>h, <1>t, <1>16, Zenon
         DEF Systemd!EdgeHealthy, Systemd!Edge
    <2> QED BY <2>1, <1>16, Zenon DEF Systemd!EdgeHealthy, Systemd!Edge
  <1>17. ASSUME NEW n \in Systemd!Nodes, Systemd!EdgeUnhealthy(n) PROVE sKept \/ (pc' = "idle" /\ reboots' # reboots)
    <2>1. FALSE BY <1>h, <1>17, Zenon DEF Systemd!EdgeUnhealthy, Systemd!Edge
    <2> QED BY <2>1, Zenon
  <1>18. ASSUME NEW n \in Systemd!Nodes, Systemd!EdgeRewrite(n) PROVE sKept \/ (pc' = "idle" /\ reboots' # reboots)
    <2>1. FALSE BY <1>h, <1>18, Zenon DEF Systemd!EdgeRewrite, Systemd!Edge
    <2> QED BY <2>1, Zenon
  <1>19. ASSUME NEW n \in Systemd!Nodes, Systemd!EdgeRestart(n) PROVE sKept \/ (pc' = "idle" /\ reboots' # reboots)
    <2>1. FALSE BY <1>h, <1>19, Zenon DEF Systemd!EdgeRestart, Systemd!Edge
    <2> QED BY <2>1, Zenon
  <1>20. ASSUME NEW n \in Systemd!Nodes, Systemd!SystemdRestart(n) PROVE sKept \/ (pc' = "idle" /\ reboots' # reboots)
    <2>1. FALSE BY <1>h, <1>20, Zenon DEF Systemd!SystemdRestart
    <2> QED BY <2>1, Zenon
  <1>21. ASSUME NEW n \in Systemd!Nodes, Systemd!K3sExits(n) PROVE sKept \/ (pc' = "idle" /\ reboots' # reboots)
    <2>1. FALSE BY <1>h, <1>21, Zenon DEF Systemd!K3sExits
    <2> QED BY <2>1, Zenon
  <1>22. ASSUME NEW n \in Systemd!Nodes, Systemd!KubeletReport(n) PROVE sKept \/ (pc' = "idle" /\ reboots' # reboots)
    <2>1. nodeLive' = [nodeLive EXCEPT ![n] = nodeLive[n]] BY <1>h, <1>22, Zenon
         DEF Systemd!KubeletReport
    <2>2. nodeLive' = nodeLive BY <1>t, <2>1
    <2> QED BY <1>h, <2>2, <1>22, Zenon DEF Systemd!KubeletReport
  <1>23. ASSUME NEW n \in Systemd!Nodes, Systemd!NodeLost(n) PROVE sKept \/ (pc' = "idle" /\ reboots' # reboots)
    BY <1>h, <1>23, Zenon DEF Systemd!NodeLost
  <1>24. ASSUME NEW n \in Systemd!Nodes, Systemd!EdgeExits(n) PROVE sKept \/ (pc' = "idle" /\ reboots' # reboots)
    <2>1. FALSE BY <1>h, <1>24, Zenon DEF Systemd!EdgeExits
    <2> QED BY <2>1, Zenon
  <1>25. ASSUME NEW n \in Systemd!Nodes, Systemd!EdgeMarked(n) PROVE sKept \/ (pc' = "idle" /\ reboots' # reboots)
    BY <1>h, <1>25, Zenon DEF Systemd!EdgeMarked
  <1>26. ASSUME NEW S \in SUBSET Systemd!Nodes, Systemd!Reboot(S) PROVE sKept \/ (pc' = "idle" /\ reboots' # reboots)
    <2>1. reboots' # reboots
      BY <1>26, Moves, Zenon DEF Systemd!Reboot, Systemd!TypeOK, Systemd!K3sSystemdAssumption
    <2> QED BY <2>1, <1>26, Zenon DEF Systemd!Reboot
  <1> QED
    <2>1. /\ Systemd!Nodes \in SUBSET Systemd!Nodes
          /\ \A n \in Systemd!Nodes : {n} \in SUBSET Systemd!Nodes
      BY Zenon
    <2> QED
      BY <2>1, <1>1, <1>2, <1>3, <1>4, <1>5, <1>6, <1>7, <1>8, <1>9, <1>10, <1>11, <1>12,
        <1>13, <1>14, <1>15, <1>16, <1>17, <1>18, <1>19, <1>20, <1>21, <1>22, <1>23,
        <1>24, <1>25, <1>26, Zenon DEF Systemd!Next, Systemd!ResumeStep, Systemd!NodeStep,
        Systemd!Environment

-----------------------------------------------------------------------------
(* k3s on krunkit: the invariant, and what it says.                        *)

\* Every step of a k3s cluster on krunkit keeps sHealthy.
LEMMA sHealthyStep ==
  ASSUME Systemd!K3sSystemdAssumption, Systemd!TypeOK, sProgress, sHealthy, Systemd!Next
  PROVE  sHealthy'
  <1>1. CASE Systemd!Resume
    BY <1>1, Zenon DEF Systemd!Resume, Systemd!disk, Systemd!procs, Systemd!seen, sHealthy,
       Systemd!NodesHealed, Systemd!FilesHealed, Systemd!LeftBehind, Systemd!ProxiesHealed
  <1>2. CASE pc \in {"idle", "done"} /\ ~Systemd!Resume
    <2>1. pc' \in {"idle", "done"}
      BY <1>2, Zenon DEF Systemd!Next, Systemd!ResumeStep, Systemd!NodeStep,
           Systemd!Environment,
         Systemd!BootServer, Systemd!ServerDone, Systemd!waitK3sAPI, Systemd!AgentsDone,
         Systemd!waitK3sNodeAddresses, Systemd!refreshOptionalNodeExporter, Systemd!EdgeDone,
         Systemd!WriteKubeconfig, Systemd!Local, Systemd!TimeOut, Systemd!Fail, Systemd!BootAgent,
         Systemd!updateK3sSystemdConfig, Systemd!ensureK3sGPUUnit, Systemd!ensureK3sSystemdService,
         Systemd!Active, Systemd!EdgeHealthy, Systemd!EdgeUnhealthy, Systemd!EdgeRewrite,
         Systemd!EdgeRestart, Systemd!Edge, Systemd!SystemdRestart, Systemd!K3sExits,
         Systemd!KubeletReport, Systemd!NodeLost, Systemd!EdgeExits, Systemd!EdgeMarked,
         Systemd!Reboot
    <2> QED BY <2>1, Zenon DEF sHealthy
  <1>3. CASE pc \notin {"idle", "done"}
    <2>1. CASE healthy
      <3>1. sKept \/ pc' = "idle" BY <1>3, <2>1, sQuiet, Zenon
      <3> QED BY <1>3, <2>1, <3>1, Zenon DEF sKept, sHealthy, Systemd!NodesHealed,
                    Systemd!FilesHealed, Systemd!LeftBehind, Systemd!ProxiesHealed
    <2>2. CASE ~healthy
      <3>1. ~Systemd!Resume BY <1>3, Zenon DEF Systemd!Resume
      <3>2. healthy' = healthy
        BY <3>1, Zenon DEF Systemd!Next, Systemd!ResumeStep, Systemd!NodeStep,
             Systemd!Environment,
           Systemd!BootServer, Systemd!ServerDone, Systemd!waitK3sAPI, Systemd!AgentsDone,
           Systemd!waitK3sNodeAddresses, Systemd!refreshOptionalNodeExporter, Systemd!EdgeDone,
           Systemd!WriteKubeconfig, Systemd!Local, Systemd!TimeOut, Systemd!Fail, Systemd!BootAgent,
           Systemd!updateK3sSystemdConfig, Systemd!ensureK3sGPUUnit,
           Systemd!ensureK3sSystemdService, Systemd!Node, Systemd!EdgeHealthy,
           Systemd!EdgeUnhealthy, Systemd!EdgeRewrite, Systemd!EdgeRestart, Systemd!Edge,
           Systemd!SystemdRestart, Systemd!K3sExits, Systemd!KubeletReport, Systemd!NodeLost,
           Systemd!EdgeExits, Systemd!EdgeMarked, Systemd!Reboot, Systemd!bounds
      <3>3. ~healthy' BY <2>2, <3>2, Zenon
      <3> QED BY <3>3, Zenon DEF sHealthy
    <2> QED BY <2>1, <2>2, Zenon
  <1> QED BY <1>1, <1>2, <1>3, Zenon

\* A k3s cluster on krunkit as Create leaves it satisfies the invariant.
LEMMA sInit == Systemd!K3sSystemdAssumption /\ Systemd!Init => sInv
  <1> SUFFICES ASSUME Systemd!K3sSystemdAssumption, Systemd!Init PROVE sInv OBVIOUS
  <1>1. Systemd!TypeOK BY sTypeInit, Zenon
  <1>2. pc = "idle" /\ run = config /\ edgeRun = edgeConf /\ jobs = {} /\ ~healthy
    BY Zenon DEF Systemd!Init
  <1>3. sProgress BY <1>2, Zenon DEF sProgress, sAfterAgents
  <1>4. sRuns BY <1>2, Zenon DEF sRuns
  <1>5. sEdges BY <1>2, Zenon DEF sEdges
  <1>6. sHealthy BY <1>2, Zenon DEF sHealthy
  <1> QED BY <1>1, <1>3, <1>4, <1>5, <1>6, Zenon DEF sInv

\* Every step of resumeK3sSystemd, of systemd and of the host keeps it.
LEMMA sNext == Systemd!K3sSystemdAssumption /\ sInv /\ Systemd!Next => sInv'
  <1> SUFFICES ASSUME Systemd!K3sSystemdAssumption, sInv, Systemd!Next PROVE sInv' OBVIOUS
  <1> USE DEF sInv
  <1>1. Systemd!TypeOK' BY sTypeStep, Zenon
  <1>2. sProgress' BY sProgressStep, Zenon
  <1>3. sRuns' BY sRunsStep, Zenon
  <1>4. sEdges' BY sEdgesStep, Zenon
  <1>5. sHealthy' BY sHealthyStep, Zenon
  <1> QED BY <1>1, <1>2, <1>3, <1>4, <1>5, Zenon

\* What a resume of k3s on krunkit reports, as the invariant has it.
LEMMA sSafe ==
  sInv => /\ Systemd!SuccessMeansHealed /\ Systemd!InterruptedProxiesHealed
          /\ Systemd!PodsFollowNodes
  <1> SUFFICES ASSUME sInv, pc = "done"
               PROVE  /\ Systemd!FilesHealed /\ hostConf = ip[CP]
                      /\ faults = 0 => Systemd!LeftBehind = {}
                      /\ Systemd!ProxiesHealed /\ marker = {}
                      /\ Systemd!nodesChanged => pods = ip
    BY Zenon DEF Systemd!SuccessMeansHealed, Systemd!InterruptedProxiesHealed,
         Systemd!PodsFollowNodes
  <1>t. up \subseteq Systemd!Nodes /\ marker \subseteq Systemd!Nodes BY Zenon DEF sInv,
       Systemd!TypeOK
  <1>1. /\ \A n \in Systemd!Nodes : n \in up /\ config[n] = Systemd!Want(n)
        /\ serverIP = ip[CP] /\ nodeLive = ip /\ hostConf = ip[CP]
        /\ Systemd!nodesChanged => pods = ip
    BY Zenon DEF sInv, sProgress, sAfterAgents
  <1>2. up = Systemd!Nodes BY <1>t, <1>1, Zenon
  <1>3. Systemd!FilesHealed BY <1>1, <1>2, Zenon DEF Systemd!FilesHealed, Systemd!Want
  <1>4. faults = 0 => \A n \in Systemd!Nodes : run[n] = config[n] \/ n \in jobs
    BY <1>2, Zenon DEF sInv, sRuns
  <1>5. faults = 0 => Systemd!LeftBehind = {} BY <1>4, Zenon DEF Systemd!LeftBehind
  <1>6. \A n \in Systemd!Nodes : edgeConf[n] = ip[CP] /\ edgeRun[n] = ip[CP] /\ n \notin marker
    BY Zenon DEF sInv, sEdges
  <1>7. Systemd!ProxiesHealed /\ marker = {} BY <1>t, <1>6, Zenon DEF Systemd!ProxiesHealed
  <1> QED BY <1>1, <1>3, <1>5, <1>7, Zenon

\* No step other than a reboot touches the cluster while a resume that found it healed
\* runs.
LEMMA sNoOp ==
  Systemd!K3sSystemdAssumption /\ sInv /\ Systemd!Next => Systemd!HealedResumeIsNoOp
  <1> SUFFICES ASSUME Systemd!K3sSystemdAssumption, sInv, Systemd!Next,
                      healthy, pc \notin {"idle", "done"}, reboots' = reboots
               PROVE  UNCHANGED <<up, ip, config, Systemd!procs, edgeConf>>
    BY Zenon DEF Systemd!HealedResumeIsNoOp
  <1>1. sKept BY sQuiet, Zenon DEF sInv
  <1> QED BY <1>1, Zenon DEF sKept, Systemd!procs

-----------------------------------------------------------------------------
(* The cluster: whichever procedure is its own.                            *)

\* A step that changes nothing keeps each procedure's invariant.
LEMMA kStutter == kInv /\ UNCHANGED vars => kInv'
  <1> SUFFICES ASSUME kInv, UNCHANGED vars PROVE kInv' OBVIOUS
  <1> USE DEF kInv, vars, kubeadmVars
  <1>1. Kubeadm!TypeOK' BY Zenon DEF Kubeadm!TypeOK
  <1>2. kProgress' BY Zenon DEF kProgress, Kubeadm!Serving
  <1>3. kKubelets' BY Zenon DEF kKubelets
  <1>4. kContainer' BY Zenon DEF kContainer
  <1>5. kKrunkit' BY Zenon DEF kKrunkit
  <1>6. kPods' BY Zenon DEF kPods, kStuck, Kubeadm!Serving
  <1> QED BY <1>1, <1>2, <1>3, <1>4, <1>5, <1>6, Zenon

\* The same for k3s on apple/container.
LEMMA cStutter == cInv /\ UNCHANGED vars => cInv'
  <1> SUFFICES ASSUME cInv, UNCHANGED vars PROVE cInv' OBVIOUS
  <1> USE DEF cInv, vars, edgeVars, k3sVars
  <1>1. K3s!TypeOK' BY Zenon DEF K3s!TypeOK
  <1>2. cProgress' BY Zenon DEF cProgress
  <1>3. cEdges' BY Zenon DEF cEdges
  <1>4. cMarks' BY Zenon DEF cMarks
  <1>5. cPods' BY Zenon DEF cPods
  <1> QED BY <1>1, <1>2, <1>3, <1>4, <1>5, Zenon

\* The same for k3s on krunkit.
LEMMA sStutter == sInv /\ UNCHANGED vars => sInv'
  <1> SUFFICES ASSUME sInv, UNCHANGED vars PROVE sInv' OBVIOUS
  <1> USE DEF sInv, vars, edgeVars, systemdVars
  <1>1. Systemd!TypeOK' BY Zenon DEF Systemd!TypeOK
  <1>2. sProgress' BY Zenon DEF sProgress, Systemd!Want, Systemd!nodesChanged
  <1>3. sRuns' BY Zenon DEF sRuns
  <1>4. sEdges' BY Zenon DEF sEdges
  <1>5. sHealthy'
    BY Zenon DEF sHealthy, Systemd!NodesHealed, Systemd!FilesHealed, Systemd!LeftBehind,
       Systemd!ProxiesHealed
  <1> QED BY <1>1, <1>2, <1>3, <1>4, <1>5, Zenon

\* Resume starts from a cluster of one of the three kinds, in order.
LEMMA InitInv == Init => Inv
  <1> SUFFICES ASSUME Init PROVE Inv OBVIOUS
  <1> USE DEF isKubeadm, isK3s, isSystemd
  <1>1. CASE distro = "kubeadm" /\ Kubeadm!Init
    BY <1>1, kInit, ClusterResumeAssumption, Zenon DEF Inv
  <1>2. CASE distro = "k3s" /\ backend = "container" /\ K3s!Init
    BY <1>2, cInit, ClusterResumeAssumption, Zenon DEF Inv
  <1>3. CASE distro = "k3s" /\ backend = "krunkit" /\ Systemd!Init
    BY <1>3, sInit, ClusterResumeAssumption, Zenon DEF Inv
  <1> QED BY <1>1, <1>2, <1>3, Zenon DEF Init

\* A step is one of the cluster's own procedure, which keeps its part of Inv.
LEMMA NextInv == Inv /\ [Next]_vars => Inv'
  <1> SUFFICES ASSUME Inv, [Next]_vars PROVE Inv' OBVIOUS
  <1> USE DEF isKubeadm, isK3s, isSystemd
  <1>1. CASE OfKubeadm(Kubeadm!Next)
    <2>1. isKubeadm /\ Kubeadm!Next /\ distro' = distro BY <1>1, Zenon DEF OfKubeadm
    <2>2. kInv' BY <2>1, kNext, ClusterResumeAssumption, Zenon DEF Inv
    <2> QED BY <2>1, <2>2, Zenon DEF Inv
  <1>2. CASE OfK3s(K3s!Next)
    <2>1. isK3s /\ K3s!Next /\ UNCHANGED <<distro, backend>> BY <1>2, Zenon DEF OfK3s
    <2>2. cInv' BY <2>1, cNext, ClusterResumeAssumption, Zenon DEF Inv
    <2> QED BY <2>1, <2>2, Zenon DEF Inv
  <1>3. CASE OfSystemd(Systemd!Next)
    <2>1. isSystemd /\ Systemd!Next /\ UNCHANGED <<distro, backend>> BY <1>3, Zenon
         DEF OfSystemd
    <2>2. sInv' BY <2>1, sNext, ClusterResumeAssumption, Zenon DEF Inv
    <2> QED BY <2>1, <2>2, Zenon DEF Inv
  <1>4. CASE UNCHANGED vars
    <2>1. UNCHANGED <<distro, backend>> BY <1>4, Zenon DEF vars
    <2> QED BY <1>4, <2>1, kStutter, cStutter, sStutter, Zenon DEF Inv
  <1> QED BY <1>1, <1>2, <1>3, <1>4, Zenon DEF Next

\* Inv holds in every reachable state.
LEMMA Invariance == Spec => []Inv
  BY InitInv, NextInv, PTL DEF Spec

-----------------------------------------------------------------------------
(* Theorems.                                                               *)

\* Every cluster's files, processes and resume have their types, with every number of
\* workers and failures and every pair of networks: the part of TypeOK that is not
\* obvious is that a boot is offered only addresses of its own network.
THEOREM TypesHold == Spec => []TypeOK
  <1>1. Inv => TypeOK BY Zenon DEF Inv, kInv, cInv, sInv, TypeOK
  <1> QED BY <1>1, Invariance, PTL

\* A resume that reports success (persist.go, k3s_resume.go,
\* kubeadm_systemd_resume.go) leaves nothing with an address of an earlier boot,
\* whatever failed or rebooted before it, with the exceptions SuccessMeansHealed names.
THEOREM ResumeHeals == Spec => []SuccessMeansHealed
  <1>1. Inv => SuccessMeansHealed
    BY kSafe, cSafe, sSafe, ClusterResumeAssumption, Zenon DEF Inv, SuccessMeansHealed
  <1> QED BY <1>1, Invariance, PTL

\* admin.conf alone tells a kubeadm resume whether the control plane needs healing: the
\* test oldIP = newIP before healControlPlaneScript skips nothing that is broken.
THEOREM AdminConfDecides == Spec => []AdminTellsDamage
  <1>1. Inv => AdminTellsDamage
    BY kSafe, ClusterResumeAssumption, Zenon DEF Inv, AdminTellsDamage
  <1> QED BY <1>1, Invariance, PTL

\* A successful resume leaves host-network pods with their node's address, however
\* many reboots ended the resumes before it.
THEOREM PodsFollow == Spec => []PodsRefreshed
  <1>1. Inv => PodsRefreshed
    BY kSafe, cSafe, sSafe, ClusterResumeAssumption, Zenon DEF Inv, PodsRefreshed
  <1> QED BY <1>1, Invariance, PTL

\* A resume of a healed cluster rewrites no file and restarts nothing, whatever came
\* before it; on kubeadm but for a healing script that is about to replace the
\* certificate already.
THEOREM HealedStaysHealed == Spec => HealedResumeIsNoOp
  <1> DEFINE A == /\ isKubeadm => Kubeadm!HealedResumeIsNoOp
                  /\ isK3s => K3s!HealedResumeIsNoOp
                  /\ isSystemd => Systemd!HealedResumeIsNoOp
  <1>1. Inv /\ Next => A
    <2> SUFFICES ASSUME Inv, Next PROVE A OBVIOUS
    <2> USE DEF isKubeadm, isK3s, isSystemd
    <2>1. CASE OfKubeadm(Kubeadm!Next)
      <3>1. isKubeadm /\ Kubeadm!Next BY <2>1, Zenon DEF OfKubeadm
      <3>2. Kubeadm!HealedResumeIsNoOp BY <3>1, kNoOp, ClusterResumeAssumption, Zenon DEF Inv
      <3> QED BY <3>1, <3>2, Zenon
    <2>2. CASE OfK3s(K3s!Next)
      <3>1. isK3s /\ K3s!Next BY <2>2, Zenon DEF OfK3s
      <3>2. K3s!HealedResumeIsNoOp BY <3>1, cNoOp, ClusterResumeAssumption, Zenon DEF Inv
      <3> QED BY <3>1, <3>2, Zenon
    <2>3. CASE OfSystemd(Systemd!Next)
      <3>1. isSystemd /\ Systemd!Next BY <2>3, Zenon DEF OfSystemd
      <3>2. Systemd!HealedResumeIsNoOp BY <3>1, sNoOp, ClusterResumeAssumption, Zenon DEF Inv
      <3> QED BY <3>1, <3>2, Zenon
    <2> QED BY <2>1, <2>2, <2>3, Zenon DEF Next
  <1> QED BY <1>1, Invariance, PTL DEF Spec, HealedResumeIsNoOp
=============================================================================
