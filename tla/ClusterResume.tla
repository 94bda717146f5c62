---------------------------- MODULE ClusterResume ---------------------------
(***************************************************************************)
(* `kiac resume`, and `kiac start cluster`, as the user runs them: Resume  *)
(* reads from the nodes which distribution and which backend the cluster   *)
(* has and runs one of three procedures (pkg/cluster/persist.go).  The VMs *)
(* and their addresses, the Nodes, the pods, the user's kubeconfig and the *)
(* step of the resume are the same thing in all three; each has the files  *)
(* and processes of its own distribution beside them, which the clusters   *)
(* of the others do not have (None).                                       *)
(***************************************************************************)
EXTENDS Naturals

CONSTANTS
  CP, Workers,
  ContainerIPs,  \* addresses of apple/container's network: more than are recorded
  KrunkitIPs,    \* addresses of a krunkit network: few, so that they come back
  MaxFaults,     \* bound: failures of resume (error or killed)
  MaxReboots,    \* bound: reboots of the host or of one VM
  SystemdFaults, SystemdReboots,  \* the same bounds for k3s on krunkit
  None

VARIABLES
  distro, backend,              \* what the nodes' labels say
  up, ip, nodeLive, pods, hostConf, pc, faults, reboots,  \* common to all three
  pinned, admin, confs, manifests, cert, workerConf, kubelet, nodeIP, configMaps,
  changed, oldIP, newIP, needCert, cut,                   \* kubeadm
  edgeConf, edgeRun, epc, wasUp,                          \* k3s on both backends
  url, born, agent, edgeMark, wpc, restarted, target,     \* k3s on apple/container
  config, run, unit, jobs, ready, marker, npc, dirty, serverIP, healthy  \* on krunkit

kubeadmVars == <<pinned, admin, confs, manifests, cert, workerConf, kubelet, nodeIP,
                 configMaps, changed, oldIP, newIP, needCert, cut>>
edgeVars == <<edgeConf, edgeRun, epc, wasUp>>
k3sVars == <<url, born, agent, edgeMark, wpc, restarted, target>>
systemdVars == <<config, run, unit, jobs, ready, marker, npc, dirty, serverIP, healthy>>
vars == <<distro, backend, up, ip, nodeLive, pods, hostConf, pc, faults, reboots,
          kubeadmVars, edgeVars, k3sVars, systemdVars>>

Kubeadm == INSTANCE KubeadmResume WITH
             Backends <- {"container", "krunkit"}, Fresh <- {"container"},
             Lease <- [container |-> ContainerIPs, krunkit |-> KrunkitIPs]

K3s == INSTANCE K3sResume WITH IPs <- ContainerIPs, FreshAddresses <- TRUE

Systemd == INSTANCE K3sSystemdResume WITH
             IPs <- KrunkitIPs, MaxFaults <- SystemdFaults, MaxReboots <- SystemdReboots

ASSUME ClusterResumeAssumption ==
  /\ Kubeadm!ResumeAssumption /\ K3s!K3sAssumption /\ Systemd!K3sSystemdAssumption

\* distroFromNodes and krunkitOnlyCluster: the procedure of this cluster.
isKubeadm == distro = "kubeadm"
isK3s == distro = "k3s" /\ backend = "container"
isSystemd == distro = "k3s" /\ backend = "krunkit"

\* What a cluster of another procedure does not have.
NoKubeadm ==
  /\ pinned = None /\ admin = None /\ confs = None /\ manifests = None /\ cert = None
  /\ workerConf = None /\ kubelet = None /\ nodeIP = None /\ configMaps = None /\ changed = None
  /\ oldIP = None /\ newIP = None /\ needCert = None /\ cut = None

NoEdge == edgeConf = None /\ edgeRun = None /\ epc = None /\ wasUp = None

NoK3s ==
  /\ url = None /\ born = None /\ agent = None /\ edgeMark = None /\ wpc = None
  /\ restarted = None /\ target = None

NoSystemd ==
  /\ config = None /\ run = None /\ unit = None /\ jobs = None /\ ready = None
  /\ marker = None /\ npc = None /\ dirty = None /\ serverIP = None /\ healthy = None

Init ==
  \/ /\ distro = "kubeadm" /\ Kubeadm!Init
     /\ NoEdge /\ NoK3s /\ NoSystemd
  \/ /\ distro = "k3s" /\ backend = "container" /\ K3s!Init
     /\ NoKubeadm /\ NoSystemd
  \/ /\ distro = "k3s" /\ backend = "krunkit" /\ Systemd!Init
     /\ NoKubeadm /\ NoK3s

\* A step of a cluster's own procedure; nothing else of it moves.
OfKubeadm(step) == isKubeadm /\ step /\ UNCHANGED <<distro, edgeVars, k3sVars, systemdVars>>
OfK3s(step) == isK3s /\ step /\ UNCHANGED <<distro, backend, kubeadmVars, systemdVars>>
OfSystemd(step) == isSystemd /\ step /\ UNCHANGED <<distro, backend, kubeadmVars, k3sVars>>

Resume == OfKubeadm(Kubeadm!Resume) \/ OfK3s(K3s!Resume) \/ OfSystemd(Systemd!Resume)

ResumeStep ==
  OfKubeadm(Kubeadm!ResumeStep) \/ OfK3s(K3s!ResumeStep) \/ OfSystemd(Systemd!ResumeStep)

Next == OfKubeadm(Kubeadm!Next) \/ OfK3s(K3s!Next) \/ OfSystemd(Systemd!Next)

\* A resume in progress keeps going, and the user runs it again until it succeeds.
\* Around a k3s cluster kubelets report; systemd runs its jobs, a k3s with a foreign
\* node-ip exits and the controller notices a lost Node.  On krunkit, whose resume
\* may give up waiting, it does not give up for ever on what is there again and again.
Fairness ==
  /\ WF_vars(ResumeStep) /\ WF_vars(pc = "idle" /\ Resume)
  /\ SF_vars(OfSystemd(Systemd!waitK3sAPI))
  /\ SF_vars(OfSystemd(Systemd!waitK3sNodeAddresses))
  /\ \A n \in {CP} \cup Workers :
       /\ WF_vars(OfK3s(K3s!KubeletReport(n)))
       /\ WF_vars(OfSystemd(Systemd!SystemdRestart(n)))
       /\ WF_vars(OfSystemd(Systemd!K3sExits(n)))
       /\ WF_vars(OfSystemd(Systemd!KubeletReport(n)))
       /\ WF_vars(OfSystemd(Systemd!NodeLost(n)))

Spec == Init /\ [][Next]_vars /\ Fairness

-----------------------------------------------------------------------------
(* Properties.                                                             *)

\* The type invariant of the procedure that runs.
TypeOK ==
  /\ isKubeadm => Kubeadm!TypeOK
  /\ isK3s => K3s!TypeOK
  /\ isSystemd => Systemd!TypeOK

\* A resume that reports success leaves nothing of the cluster pointing at an
\* address of an earlier boot, neither in a file nor in what a running process has
\* loaded, and no edge proxy or restart-required file from a resume cut off before
\* it; SuccessMeansHealed of each module names its exceptions.
SuccessMeansHealed ==
  /\ isKubeadm => Kubeadm!SuccessMeansHealed
  /\ isK3s => K3s!SuccessMeansHealed
  /\ isSystemd => Systemd!SuccessMeansHealed /\ Systemd!InterruptedProxiesHealed

\* admin.conf alone tells a kubeadm resume whether the control plane needs healing.
AdminTellsDamage == isKubeadm => Kubeadm!AdminTellsDamage

\* A successful resume leaves the host-network pods with their node's address: on
\* kubeadm and k3s when no resume before it failed, on k3s of krunkit VMs whenever
\* this one booted or changed a node.
PodsRefreshed ==
  /\ isKubeadm => Kubeadm!PodsRefreshed
  /\ isK3s => K3s!PodsRefreshed
  /\ isSystemd => Systemd!PodsFollowNodes

\* "every healing step is a no-op once applied": a resume of a healed cluster
\* rewrites no file and restarts no VM, kubelet, k3s or edge proxy;
\* HealedResumeIsNoOp of KubeadmResume names its exception.
HealedResumeIsNoOp ==
  [][/\ isKubeadm => Kubeadm!HealedResumeIsNoOp
     /\ isK3s => K3s!HealedResumeIsNoOp
     /\ isSystemd => Systemd!HealedResumeIsNoOp]_vars

\* "resume doubles as the retry after a partial failure": once failures and reboots
\* stop, a user who keeps running it gets a healed cluster, and it stays healed.
Recovers ==
  <>[](/\ isKubeadm => Kubeadm!Recovered
       /\ isK3s => K3s!Recovered
       /\ isSystemd => Systemd!Recovered)
=============================================================================
