------------------------- MODULE DevicePluginServer -------------------------
(***************************************************************************)
(* The loop that serves the device plugin's socket and registers it with   *)
(* the kubelet (internal/gpudriver/device_plugin.go, serveDevicePlugin).   *)
(* Files are told apart by inode numbers, as os.SameFile does, and a freed *)
(* number may be used again.  The kubelet that starts removes every socket *)
(* of the directory before it listens on its own.                          *)
(***************************************************************************)
EXTENDS Naturals

CONSTANTS
  Inodes,         \* inode numbers
  MaxKubelets,    \* bound on starts of the kubelet
  MaxLostAnswers, \* bound on registrations whose answer is lost
  MaxServeErrors, \* bound on servers that end
  None

ASSUME DevicePluginAssumption ==
  /\ None \notin Inodes /\ Inodes # {}
  /\ MaxKubelets \in Nat /\ MaxLostAnswers \in Nat /\ MaxServeErrors \in Nat

VARIABLES
  endpoint,      \* inode at the plugin's path, None when absent
  registry,      \* inode of kubelet.sock
  kubelet,       \* generation of the kubelet
  kubeletUp,     \* "down", "cleaning", "up"
  watched,       \* the server that the kubelet watches, 0 for none
  pc,            \* step of the loop
  server,        \* the server that runs, 0 for none; servers are numbered
  ended,         \* whether Serve has returned
  last,          \* number of the last server
  endpointInfo, registeredRegistry, currentRegistry,   \* the loop's variables
  told,          \* ghost: per kubelet and server, registrations it received
  lostAnswers, serveErrors

loop == <<pc, server, ended, last, endpointInfo, registeredRegistry, currentRegistry>>
host == <<endpoint, registry, kubelet, kubeletUp, watched>>
pluginVars == <<host, loop, told, lostAnswers, serveErrors>>

MaxServers == 1 + MaxKubelets + MaxServeErrors

PluginTypeOK ==
  /\ endpoint \in Inodes \cup {None} /\ registry \in Inodes \cup {None}
  /\ kubelet \in 0 .. MaxKubelets /\ kubeletUp \in {"down", "cleaning", "up"}
  /\ watched \in 0 .. MaxServers
  /\ pc \in {"serve", "stat", "checkEndpoint", "checkRegistry", "register", "wait"}
  /\ server \in 0 .. MaxServers /\ last \in 0 .. MaxServers /\ ended \in BOOLEAN
  /\ endpointInfo \in Inodes \cup {None} /\ registeredRegistry \in Inodes \cup {None}
  /\ currentRegistry \in Inodes \cup {None}
  /\ told \in [0 .. MaxKubelets -> [0 .. MaxServers -> 0 .. 2 + MaxLostAnswers]]
  /\ lostAnswers \in 0 .. MaxLostAnswers /\ serveErrors \in 0 .. MaxServeErrors

Free == Inodes \ {endpoint, registry}

-----------------------------------------------------------------------------
(* The loop.                                                               *)

\* stop: the server ends and the path is removed.
Stop(next) ==
  /\ server' = 0 /\ ended' = FALSE
  /\ watched' = IF watched = server THEN 0 ELSE watched
  /\ endpoint' = None /\ endpointInfo' = None /\ registeredRegistry' = None
  /\ pc' = next
  /\ UNCHANGED <<registry, kubelet, kubeletUp, last, currentRegistry>>

\* A server is made when there is none: the path is removed and listened on.
Listen ==
  /\ pc = "serve"
  /\ IF server # 0 THEN pc' = "checkEndpoint" /\ UNCHANGED endpoint
     ELSE pc' = "stat" /\ \E i \in Inodes \ {registry} : endpoint' = i
  /\ UNCHANGED <<registry, kubelet, kubeletUp, watched, server, ended, last, endpointInfo, registeredRegistry, currentRegistry, told, lostAnswers, serveErrors>>

\* The inode of the new socket.  When it is gone already the agent ends with an error
\* and begins anew.
StatEndpoint ==
  /\ pc = "stat"
  /\ IF endpoint = None THEN pc' = "serve" /\ UNCHANGED <<server, last, endpointInfo>>
     ELSE /\ pc' = "checkEndpoint" /\ endpointInfo' = endpoint
          /\ server' = last + 1 /\ last' = last + 1
  /\ UNCHANGED <<host, ended, registeredRegistry, currentRegistry, told, lostAnswers, serveErrors>>

\* Faulty variant: a socket that was removed is not noticed.
CheckEndpoint_never ==
  /\ pc = "checkEndpoint"
  /\ pc' = "checkRegistry" /\ UNCHANGED <<host, server, ended, last, endpointInfo, registeredRegistry, currentRegistry>>
  /\ UNCHANGED <<told, lostAnswers, serveErrors>>

CheckEndpoint ==
  /\ pc = "checkEndpoint"
  /\ IF endpoint # None /\ endpoint = endpointInfo
     THEN pc' = "checkRegistry" /\ UNCHANGED <<host, server, ended, last, endpointInfo, registeredRegistry, currentRegistry>>
     ELSE Stop("serve")
  /\ UNCHANGED <<told, lostAnswers, serveErrors>>

\* Faulty variant: the plugin registers at every tick.
CheckRegistry_always ==
  /\ pc = "checkRegistry"
  /\ currentRegistry' = registry
  /\ IF registry = None THEN registeredRegistry' = None /\ pc' = "wait"
     ELSE UNCHANGED registeredRegistry /\ pc' = "register"
  /\ UNCHANGED <<host, server, ended, last, endpointInfo, told, lostAnswers, serveErrors>>

CheckRegistry ==
  /\ pc = "checkRegistry"
  /\ currentRegistry' = registry
  /\ IF registry = None THEN registeredRegistry' = None /\ pc' = "wait"
     ELSE /\ UNCHANGED registeredRegistry
          /\ pc' = IF registeredRegistry = registry THEN "wait" ELSE "register"
  /\ UNCHANGED <<host, server, ended, last, endpointInfo, told, lostAnswers, serveErrors>>

\* The kubelet connects to the endpoint as it registers it.
Registered ==
  /\ told' = [told EXCEPT ![kubelet][server] = @ + 1]
  /\ watched' = IF endpoint = endpointInfo /\ ~ended THEN server ELSE 0

\* registerDevicePlugin: it succeeds only with a kubelet that answers; the answer may
\* be lost.
Register ==
  /\ pc = "register"
  /\ pc' = "wait"
  /\ \/ /\ kubeletUp = "up" /\ Registered
        /\ registeredRegistry' = currentRegistry /\ UNCHANGED lostAnswers
     \/ /\ kubeletUp = "up" /\ Registered
        /\ lostAnswers < MaxLostAnswers /\ lostAnswers' = lostAnswers + 1 /\ UNCHANGED registeredRegistry
     \/ kubeletUp # "up" /\ UNCHANGED <<watched, told, registeredRegistry, lostAnswers>>
  /\ UNCHANGED <<endpoint, registry, kubelet, kubeletUp, server, ended, last, endpointInfo, currentRegistry, serveErrors>>

\* The select: the next tick, which may be ready together with the end of the server.
PluginTick ==
  /\ pc = "wait"
  /\ pc' = "serve"
  /\ UNCHANGED <<host, server, ended, last, endpointInfo, registeredRegistry, currentRegistry, told, lostAnswers, serveErrors>>

\* The select: the server has ended.  With an error the agent ends too, stopping its
\* server, and begins anew.
ServerEnded ==
  /\ pc = "wait" /\ ended
  /\ Stop("serve")
  /\ UNCHANGED <<told, lostAnswers, serveErrors>>

\* Serve returns.
ServeEnds ==
  /\ server # 0 /\ ~ended /\ serveErrors < MaxServeErrors
  /\ serveErrors' = serveErrors + 1 /\ ended' = TRUE
  /\ watched' = IF watched = server THEN 0 ELSE watched
  /\ UNCHANGED <<endpoint, registry, kubelet, kubeletUp, pc, server, last, endpointInfo, registeredRegistry, currentRegistry, told, lostAnswers>>

-----------------------------------------------------------------------------
(* The kubelet.                                                            *)

\* It ends; its socket stays behind or goes.
KubeletEnds ==
  /\ kubeletUp # "down" /\ kubelet < MaxKubelets
  /\ kubeletUp' = "down" /\ watched' = 0
  /\ registry' \in {registry, None}
  /\ UNCHANGED <<endpoint, kubelet, loop, told, lostAnswers, serveErrors>>

\* It starts by removing the sockets.
KubeletCleans ==
  /\ kubeletUp = "down" /\ kubelet < MaxKubelets
  /\ kubeletUp' = "cleaning" /\ kubelet' = kubelet + 1
  /\ registry' = None /\ endpoint' = None
  /\ UNCHANGED <<watched, loop, told, lostAnswers, serveErrors>>

KubeletListens ==
  /\ kubeletUp = "cleaning"
  /\ kubeletUp' = "up"
  /\ \E i \in Free : registry' = i
  /\ UNCHANGED <<endpoint, kubelet, watched, loop, told, lostAnswers, serveErrors>>

PluginInit ==
  /\ endpoint = None /\ registry = None
  /\ kubelet = 0 /\ kubeletUp = "down" /\ watched = 0
  /\ pc = "serve" /\ server = 0 /\ ended = FALSE /\ last = 0
  /\ endpointInfo = None /\ registeredRegistry = None /\ currentRegistry = None
  /\ told = [k \in 0 .. MaxKubelets |-> [s \in 0 .. MaxServers |-> 0]]
  /\ lostAnswers = 0 /\ serveErrors = 0

Plugin == Listen \/ StatEndpoint \/ CheckEndpoint \/ CheckRegistry \/ Register \/ PluginTick \/ ServerEnded

Kubelet == KubeletCleans \/ KubeletListens

PluginNext == Plugin \/ ServeEnds \/ KubeletEnds \/ Kubelet

PluginSpec == PluginInit /\ [][PluginNext]_pluginVars

\* The loop ticks, and a kubelet that is down is started again by systemd.  A select
\* with two channels ready takes each of them with the same chance.
PluginFairSpec == PluginSpec /\ WF_pluginVars(Plugin) /\ SF_pluginVars(ServerEnded) /\ WF_pluginVars(Kubelet)

-----------------------------------------------------------------------------
(* Properties.                                                             *)

\* After its last restart the kubelet watches the running server for good, whatever
\* inode numbers the sockets got and wherever in the loop it restarted.
EventuallyWatched == <>[](watched # 0 /\ watched = server)

\* A kubelet hears of one server once, but for answers that were lost ("never
\* repeatedly re-register an already live endpoint (which disrupts watches)").
RegistersOnce == \A k \in 0 .. MaxKubelets, s \in 0 .. MaxServers : told[k][s] <= 1 + lostAnswers

=============================================================================
