---------------------------- MODULE KubeadmResume ---------------------------
(***************************************************************************)
(* `kiac resume` of a kubeadm cluster (pkg/cluster/persist.go and          *)
(* kubeadm_systemd_resume.go).  A reboot of the host stops every VM and    *)
(* the next boot gives each a new address, which the control plane's       *)
(* files, its certificate, the workers' kubelets, ConfigMaps and the       *)
(* user's kubeconfig contradict.  Resume boots the VMs and heals all of    *)
(* them; it may fail at any step and is then simply run again.             *)
(***************************************************************************)
EXTENDS Naturals

CONSTANTS
  CP,            \* the control-plane node
  Workers,       \* the other nodes
  Backends,      \* "container" (apple/container), "krunkit" or both
  Lease,         \* the addresses each backend's VM network hands out
  Fresh,         \* backends that never hand out an address still recorded somewhere
  MaxFaults,     \* bound: failures of resume (error or killed)
  MaxReboots,    \* bound: host reboots
  None

Nodes == {CP} \cup Workers

\* The ways a VM network gives every node an address of its own.
Addresses(ips) == {f \in [Nodes -> ips] : \A m, n \in Nodes : f[m] = f[n] => m = n}

ResumeAssumption ==
  /\ CP \notin Workers
  /\ Backends \subseteq {"container", "krunkit"} /\ Fresh \subseteq Backends
  /\ Lease \in [Backends -> SUBSET Nat]
  /\ \A b \in Backends : None \notin Lease[b] /\ Addresses(Lease[b]) # {}
  /\ MaxFaults \in Nat /\ MaxReboots \in Nat

IPs == UNION {Lease[b] : b \in Backends}

VARIABLES
  backend,   \* the cluster's backend
  pinned,    \* whether kubelets are given their node's own address
  up,        \* nodes whose VM runs
  ip,        \* the address of each node's current (or last) boot
  admin,     \* the API server address in admin.conf
  confs,     \* ... in the other kubeconfigs of the control plane
  manifests, \* ... in the static pod manifests
  cert,      \* the address the API server's certificate is for, None if gone
  workerConf,\* the API server address in each worker's kubelet.conf
  kubelet,   \* the API server address each running kubelet has loaded
  nodeIP,    \* the node's own address pinned in its kubelet's arguments
  nodeLive,  \* ... and the one its running kubelet registers
  configMaps,\* the address in the kube-proxy and cluster-info ConfigMaps
  pods,      \* the node address each node's host-network pods carry
  hostConf,  \* the address in the user's kubeconfig
  pc,        \* the step of the resume in progress, "idle" between resumes
  changed,   \* krunkit: whether this run saw a stopped node or a stale address
  oldIP,     \* the address this run read from admin.conf
  newIP,     \* ... and the one it read from the control plane's VM
  needCert,  \* need_cert of the healing script
  cut,       \* ghost: the scripts that ever failed half way
  faults,    \* failures so far
  reboots    \* host reboots so far

files == <<admin, confs, manifests, cert, workerConf, nodeIP, configMaps, hostConf>>
live == <<kubelet, nodeLive, pods>>
local == <<pc, changed, oldIP, newIP, needCert>>
env == <<backend, pinned, up, ip, cut, faults, reboots>>
vars == <<files, live, local, env>>

Steps == {"idle", "boot", "nodes", "read", "heal", "confs", "manifests", "rmcert",
          "gencert", "kubelet", "workers", "api", "configmaps", "addresses",
          "refresh", "kubeconfig", "done"}

TypeOK ==
  /\ backend \in Backends /\ pinned \in BOOLEAN
  /\ cut \subseteq {"control plane", "worker", "node address"}
  /\ up \subseteq Nodes
  /\ ip \in [Nodes -> IPs]
  /\ admin \in IPs /\ confs \in IPs /\ manifests \in IPs /\ cert \in IPs \cup {None}
  /\ workerConf \in [Workers -> IPs]
  /\ kubelet \in [Nodes -> IPs] /\ nodeIP \in [Nodes -> IPs] /\ nodeLive \in [Nodes -> IPs]
  /\ configMaps \in IPs /\ pods \in [Nodes -> IPs] /\ hostConf \in IPs
  /\ pc \in Steps
  /\ changed \in BOOLEAN /\ needCert \in BOOLEAN
  /\ oldIP \in IPs /\ newIP \in IPs
  /\ faults \in 0 .. MaxFaults /\ reboots \in 0 .. MaxReboots

Goto(l) == pc' = l

\* sed: the value is replaced only where it is the old address.
sed(value) == IF value = oldIP THEN newIP ELSE value

-----------------------------------------------------------------------------
(* Booting.                                                                *)

\* Resume lists the nodes; every one that is not running counts as a change.
Resume ==
  /\ pc \in {"idle", "done"}
  /\ Goto("boot")
  /\ changed' = (up # Nodes)
  /\ UNCHANGED <<files, live, oldIP, newIP, needCert, env>>

\* The kind image's entrypoint, at each boot of the control plane: it moves its
\* own old address to the new one in the manifests and the kubeconfigs other
\* than admin.conf, and if the certificate is there it deletes it and dies.
entrypointDies(a) == backend = "container" /\ a # ip[CP] /\ cert # None
entrypointFix(value, a) == IF backend = "container" /\ value = ip[CP] THEN a ELSE value

Recorded == {admin, confs, manifests, cert, configMaps, hostConf}
              \cup {ip[n] : n \in Nodes} \cup {nodeIP[n] : n \in Nodes}
              \cup {pods[n] : n \in Nodes} \cup {workerConf[w] : w \in Workers}

\* Which of the fresh addresses a boot gets makes no difference: the smallest.
Offered == LET free == Lease[backend] \ Recorded
           IN  IF backend \in Fresh THEN {a \in free : \A b \in free : a <= b}
               ELSE Lease[backend] \ {ip[m] : m \in up}

\* A VM boots with an address no other running VM has; its kubelet starts with
\* what its files say.  bootAndWait starts a VM that died during boot again.
BootNode(n) ==
  /\ pc = "boot" /\ n \notin up
  /\ \E a \in Offered :
       /\ ip' = [ip EXCEPT ![n] = a]
       /\ IF n = CP
            THEN /\ confs' = entrypointFix(confs, a)
                 /\ manifests' = entrypointFix(manifests, a)
                 /\ cert' = IF entrypointDies(a) THEN None ELSE cert
                 /\ up' = IF entrypointDies(a) THEN up ELSE up \cup {n}
                 /\ kubelet' = [kubelet EXCEPT ![n] = confs']
            ELSE /\ up' = up \cup {n}
                 /\ kubelet' = [kubelet EXCEPT ![n] = workerConf[n]]
                 /\ UNCHANGED <<confs, manifests, cert>>
       /\ nodeLive' = [nodeLive EXCEPT ![n] = IF pinned THEN nodeIP[n] ELSE a]
  /\ UNCHANGED <<admin, workerConf, nodeIP, configMaps, hostConf, pods, local, backend, pinned,
                 cut, faults, reboots>>

AllBooted ==
  /\ pc = "boot" /\ up = Nodes
  /\ Goto(IF pinned THEN "nodes" ELSE "read")
  /\ UNCHANGED <<files, live, changed, oldIP, newIP, needCert, env>>

\* setKubeletSystemdNodeIP and repinNodeIPIfNeeded write the node's address and
\* restart its kubelet, unless the file has it already.
SetNodeIP(n) ==
  /\ pc = "nodes" /\ nodeIP[n] # ip[n]
  /\ nodeIP' = [nodeIP EXCEPT ![n] = ip[n]]
  /\ nodeLive' = [nodeLive EXCEPT ![n] = ip[n]]
  /\ kubelet' = [kubelet EXCEPT ![n] = IF n = CP THEN confs ELSE workerConf[n]]
  /\ changed' = TRUE
  /\ UNCHANGED <<admin, confs, manifests, cert, workerConf, configMaps, hostConf, pods,
                 pc, oldIP, newIP, needCert, env>>

NodesPrepared ==
  /\ pc = "nodes" /\ \A n \in Nodes : nodeIP[n] = ip[n]
  /\ Goto("read")
  /\ UNCHANGED <<files, live, changed, oldIP, newIP, needCert, env>>

-----------------------------------------------------------------------------
(* Healing.                                                                *)

AfterControlPlane == IF backend = "krunkit" THEN "api" ELSE "workers"

\* The address in admin.conf tells whether the control plane needs healing.
ReadAddresses ==
  /\ pc = "read"
  /\ newIP' = ip[CP]
  /\ oldIP' = admin
  /\ changed' = (changed \/ admin # ip[CP])
  /\ Goto(IF admin # ip[CP] THEN "heal" ELSE AfterControlPlane)
  /\ UNCHANGED <<files, live, needCert, env>>

\* Faulty variant: a missing certificate does not count.
HealAdmin_ignoresMissing ==
  /\ pc = "heal"
  /\ needCert' = (manifests = oldIP)
  /\ admin' = sed(admin)
  /\ Goto("confs")
  /\ UNCHANGED <<confs, manifests, cert, workerConf, nodeIP, configMaps, hostConf, live,
                 changed, oldIP, newIP, env>>

\* healControlPlaneScript, file by file: admin.conf comes first.
HealAdmin ==
  /\ pc = "heal"
  /\ needCert' = (cert = None \/ manifests = oldIP)
  /\ admin' = sed(admin)
  /\ Goto("confs")
  /\ UNCHANGED <<confs, manifests, cert, workerConf, nodeIP, configMaps, hostConf, live,
                 changed, oldIP, newIP, env>>

HealConfs ==
  /\ pc = "confs"
  /\ confs' = sed(confs)
  /\ Goto("manifests")
  /\ UNCHANGED <<admin, manifests, cert, workerConf, nodeIP, configMaps, hostConf, live,
                 changed, oldIP, newIP, needCert, env>>

HealManifests ==
  /\ pc = "manifests"
  /\ manifests' = sed(manifests)
  /\ Goto(IF needCert THEN "rmcert" ELSE "kubelet")
  /\ UNCHANGED <<admin, confs, cert, workerConf, nodeIP, configMaps, hostConf, live,
                 changed, oldIP, newIP, needCert, env>>

RemoveCert ==
  /\ pc = "rmcert"
  /\ cert' = None
  /\ Goto("gencert")
  /\ UNCHANGED <<admin, confs, manifests, workerConf, nodeIP, configMaps, hostConf, live,
                 changed, oldIP, newIP, needCert, env>>

GenerateCert ==
  /\ pc = "gencert"
  /\ cert' = newIP
  /\ Goto("kubelet")
  /\ UNCHANGED <<admin, confs, manifests, workerConf, nodeIP, configMaps, hostConf, live,
                 changed, oldIP, newIP, needCert, env>>

RestartKubelet ==
  /\ pc = "kubelet"
  /\ kubelet' = [kubelet EXCEPT ![CP] = confs]
  /\ Goto(AfterControlPlane)
  /\ UNCHANGED <<files, nodeLive, pods, changed, oldIP, newIP, needCert, env>>

\* Faulty variant: the kubelet is not restarted.
HealWorker_noRestart(w) ==
  /\ pc = "workers" /\ workerConf[w] # newIP
  /\ workerConf' = [workerConf EXCEPT ![w] = newIP]
  /\ UNCHANGED <<admin, confs, manifests, cert, nodeIP, configMaps, hostConf, live, local, env>>

\* healWorkerScript: any previous address is replaced and the kubelet restarted.
HealWorker(w) ==
  /\ pc = "workers" /\ workerConf[w] # newIP
  /\ workerConf' = [workerConf EXCEPT ![w] = newIP]
  /\ kubelet' = [kubelet EXCEPT ![w] = newIP]
  /\ UNCHANGED <<admin, confs, manifests, cert, nodeIP, configMaps, hostConf, nodeLive, pods, local, env>>

WorkersHealed ==
  /\ pc = "workers" /\ \A w \in Workers : workerConf[w] = newIP
  /\ Goto(IF backend = "krunkit" THEN "configmaps" ELSE "api")
  /\ UNCHANGED <<files, live, changed, oldIP, newIP, needCert, env>>

\* The API server serves once its manifest and certificate carry the address
\* the node has.
Serving == CP \in up /\ cert = ip[CP] /\ manifests = ip[CP]

WaitAPIServer ==
  /\ pc = "api" /\ Serving
  /\ Goto(IF backend = "krunkit" THEN "workers" ELSE "configmaps")
  /\ UNCHANGED <<files, live, changed, oldIP, newIP, needCert, env>>

HealConfigMaps ==
  /\ pc = "configmaps" /\ Serving
  /\ configMaps' = newIP
  /\ Goto(IF backend = "krunkit" THEN "addresses" ELSE "kubeconfig")
  /\ UNCHANGED <<admin, confs, manifests, cert, workerConf, nodeIP, hostConf, live,
                 changed, oldIP, newIP, needCert, env>>

\* krunkit: waitKubeadmNodeAddresses, then pods are refreshed if this run saw
\* a change.
WaitNodeAddresses ==
  /\ pc = "addresses"
  /\ \A n \in Nodes : nodeLive[n] = ip[n] /\ kubelet[n] = newIP
  /\ Goto("refresh")
  /\ UNCHANGED <<files, live, changed, oldIP, newIP, needCert, env>>

RefreshPods ==
  /\ pc = "refresh"
  /\ pods' = IF changed THEN ip ELSE pods
  /\ Goto("kubeconfig")
  /\ UNCHANGED <<files, kubelet, nodeLive, changed, oldIP, newIP, needCert, env>>

WriteKubeconfig ==
  /\ pc = "kubeconfig"
  /\ hostConf' = newIP
  /\ Goto("done")
  /\ UNCHANGED <<admin, confs, manifests, cert, workerConf, nodeIP, configMaps, live,
                 changed, oldIP, newIP, needCert, env>>

-----------------------------------------------------------------------------
(* Failures.                                                               *)

ScriptSteps == {"confs", "manifests", "rmcert", "gencert", "kubelet"}

Cut(script) == cut' = cut \cup {script}

\* Any step may fail, or kiac be killed: this resume is over.
Fail ==
  /\ pc \notin {"idle", "done"}
  /\ faults < MaxFaults
  /\ faults' = faults + 1
  /\ IF pc \in ScriptSteps THEN Cut("control plane") ELSE UNCHANGED cut
  /\ Goto("idle")
  /\ UNCHANGED <<files, live, changed, oldIP, newIP, needCert, backend, pinned, up, ip, reboots>>

\* The worker's and the node-address scripts fail after the file is written and
\* before the kubelet restarts.
HealWorkerFails(w) ==
  /\ faults < MaxFaults
  /\ pc = "workers" /\ workerConf[w] # newIP
  /\ workerConf' = [workerConf EXCEPT ![w] = newIP]
  /\ faults' = faults + 1
  /\ Cut("worker")
  /\ Goto("idle")
  /\ UNCHANGED <<admin, confs, manifests, cert, nodeIP, configMaps, hostConf, live,
                 changed, oldIP, newIP, needCert, backend, pinned, up, ip, reboots>>

SetNodeIPFails(n) ==
  /\ faults < MaxFaults
  /\ pc = "nodes" /\ nodeIP[n] # ip[n]
  /\ nodeIP' = [nodeIP EXCEPT ![n] = ip[n]]
  /\ faults' = faults + 1
  /\ Cut("node address")
  /\ Goto("idle")
  /\ UNCHANGED <<admin, confs, manifests, cert, workerConf, configMaps, hostConf, live,
                 changed, oldIP, newIP, needCert, backend, pinned, up, ip, reboots>>

\* Waiting for the API server, or for the nodes' addresses, times out.
TimeOut ==
  /\ \/ pc \in {"api", "configmaps"} /\ ~Serving
     \/ pc = "addresses" /\ \E n \in Nodes : nodeLive[n] # ip[n] \/ kubelet[n] # newIP
  /\ Goto("idle")
  /\ UNCHANGED <<files, live, changed, oldIP, newIP, needCert, env>>

\* The host reboots: every VM stops, and with it a resume in progress.  On
\* krunkit a reboot inside the healing script is a script failing half way; on
\* apple/container the entrypoint makes good for it at the next boot.
Reboot ==
  /\ reboots < MaxReboots
  /\ reboots' = reboots + 1
  /\ IF backend = "krunkit" /\ pc \in ScriptSteps THEN Cut("control plane") ELSE UNCHANGED cut
  /\ up' = {}
  /\ Goto("idle")
  /\ UNCHANGED <<files, live, changed, oldIP, newIP, needCert, backend, pinned, ip, faults>>

-----------------------------------------------------------------------------

\* A cluster as Create leaves it.
Init ==
  /\ up = Nodes
  /\ backend \in Backends /\ pinned \in BOOLEAN /\ (backend = "krunkit" => pinned)
  /\ LET a == CHOOSE f \in Addresses(Lease[backend]) : TRUE IN
       /\ ip = a /\ nodeIP = a /\ nodeLive = a /\ pods = a
       /\ admin = a[CP] /\ confs = a[CP] /\ manifests = a[CP] /\ cert = a[CP]
       /\ configMaps = a[CP] /\ hostConf = a[CP] /\ oldIP = a[CP] /\ newIP = a[CP]
       /\ workerConf = [w \in Workers |-> a[CP]]
       /\ kubelet = [n \in Nodes |-> a[CP]]
  /\ pc = "idle" /\ changed = FALSE /\ needCert = FALSE
  /\ cut = {} /\ faults = 0 /\ reboots = 0

ResumeStep ==
  \/ \E n \in Nodes : BootNode(n) \/ SetNodeIP(n)
  \/ \E w \in Workers : HealWorker(w)
  \/ AllBooted \/ NodesPrepared \/ ReadAddresses
  \/ HealAdmin \/ HealConfs \/ HealManifests \/ RemoveCert \/ GenerateCert \/ RestartKubelet
  \/ WorkersHealed \/ WaitAPIServer \/ HealConfigMaps
  \/ WaitNodeAddresses \/ RefreshPods \/ WriteKubeconfig
  \/ TimeOut

Next ==
  \/ Resume \/ ResumeStep
  \/ Fail \/ Reboot
  \/ \E w \in Workers : HealWorkerFails(w)
  \/ \E n \in Nodes : SetNodeIPFails(n)

Spec == Init /\ [][Next]_vars

-----------------------------------------------------------------------------
(* Properties.                                                             *)

ControlPlaneHealed ==
  /\ CP \in up
  /\ confs = ip[CP] /\ manifests = ip[CP] /\ cert = ip[CP]

Healed ==
  /\ up = Nodes
  /\ admin = ip[CP] /\ ControlPlaneHealed
  /\ \A w \in Workers : workerConf[w] = ip[CP]
  /\ \A n \in Nodes : kubelet[n] = ip[CP] /\ nodeLive[n] = ip[n]
  /\ configMaps = ip[CP] /\ hostConf = ip[CP]

\* A resume that reports success leaves nothing pointing at an address of an
\* earlier boot: manifests, certificate, kubeconfigs, kubelets (what they loaded,
\* not only their files), ConfigMaps and the user's kubeconfig.  On krunkit even a
\* script that was cut off half way does not change that, for the kubelets'
\* registrations are waited for; on apple/container nobody looks at them.
SuccessMeansHealed == pc = "done" => Healed \/ (backend = "container" /\ cut # {})

\* Outside the healing script, and unless it once failed half way, admin.conf naming
\* the running control plane's address implies that every other file of the control
\* plane does and that the certificate is there: this is what lets Resume skip the
\* healing when oldIP = newIP.
AdminTellsDamage ==
  (CP \in up /\ pc \notin {"heal"} \cup ScriptSteps /\ admin = ip[CP] /\ "control plane" \notin cut)
    => ControlPlaneHealed

\* Resume on a healthy cluster is a no-op: no step other than a reboot changes a
\* file, or what a kubelet has loaded, of a healed cluster.  The one exception is a
\* healing script already running: when earlier ones were cut off and an address came
\* back, it may find the rest healed and replace a certificate that was right.
HealedResumeIsNoOp ==
  Healed /\ pc # "rmcert" /\ up' = up => UNCHANGED <<files, kubelet, nodeLive>>

\* As long as no resume failed, a successful one leaves every host-network pod of a
\* krunkit cluster with its node's address, whichever nodes moved and wherever a
\* reboot ended the resumes before it.
PodsRefreshed == pc = "done" /\ backend = "krunkit" /\ faults = 0 => pods = ip

\* Resume doubles as the retry after a partial failure: once failures and reboots
\* stop, a cluster whose user keeps running resume is healed and stays so, unless a
\* script inside a node was cut off half way.
Recovered == cut # {} \/ Healed

=============================================================================
