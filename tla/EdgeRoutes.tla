----------------------------- MODULE EdgeRoutes -----------------------------
(***************************************************************************)
(* How kiac-edge-proxy carries one connection (cmd/kiac-edge-proxy).  Each *)
(* node's proxy derives its redirect rules and its routing tables from its *)
(* own last snapshot of the Services, EndpointSlices and Nodes.  A client's *)
(* connection to a NodePort or a LoadBalancer address is redirected into   *)
(* the proxy of the node it reaches, which dials a ready endpoint: on this *)
(* node directly, on another node through a tunnel to that node's proxy.   *)
(* What a proxy dials passes the redirect rules again.                     *)
(***************************************************************************)
EXTENDS Naturals, Sequences

CONSTANTS
  Nodes,
  ServicePorts,  \* records [name, port, nodePort, target], nodePort 0 if none
  EndpointList,  \* sequence of [svc, node, v6, host, port, name, tcp]
  HasV6,         \* whether the nodes' kernels have IPv6 netfilter
  ProxyPort,
  NodePortRange, \* the ports that --nodeport-range names
  MaxHops,       \* bound: proxies one connection is followed through
  MaxMoves,      \* bound: changes of the cluster and API outages while it travels
  Nothing

Endpoints == DOMAIN EndpointList
Families == {FALSE} \cup (IF HasV6 THEN {TRUE} ELSE {})   \* v6?

Address == [pod : Endpoints \cup {0}, node : Nodes \cup {Nothing}, v6 : BOOLEAN, port : Nat]
NodeAddress(n, v6, port) == [pod |-> 0, node |-> n, v6 |-> v6, port |-> port]
EndpointAddress(i) ==
  LET e == EndpointList[i]
  IN [pod |-> IF e.host THEN 0 ELSE i, node |-> e.node, v6 |-> e.v6, port |-> e.port]

\* servicePort.targetPort is an intOrString: [set, int, str].  The proxy's port is taken
\* on every node, and outside of the NodePort range (the flags' defaults), which is that
\* of the API server.
ASSUME EdgeAssumption ==
  /\ \A s \in ServicePorts : /\ s.port \in Nat \ {0} /\ s.nodePort \in NodePortRange \cup {0}
                             /\ s.target.set \in BOOLEAN
  /\ Endpoints \subseteq Nat \ {0}
  /\ \A i \in Endpoints :
       LET e == EndpointList[i]
       IN  /\ e.node \in Nodes \cup {Nothing} /\ e.v6 \in BOOLEAN /\ e.port \in Nat \ {0}
           /\ e.host \in BOOLEAN /\ (e.host => e.node \in Nodes /\ e.port # ProxyPort)
  /\ Nothing \notin Nodes \cup Address
  /\ NodePortRange \subseteq Nat \ {0} /\ ProxyPort \in Nat \ ({0} \cup NodePortRange)
  /\ MaxHops \in Nat /\ MaxMoves \in Nat

VARIABLES
  cluster,   \* what the API server would answer: [ready, ingress, known]
  snap,      \* what each node's proxy last read
  conn,      \* the connection
  moves

routeVars == <<cluster, snap, conn, moves>>

\* Endpoints whose conditions say ready, the node whose address kiac-lb gave each
\* LoadBalancer Service per family, if any, and the nodes whose InternalIP is known.
\* kiac-lb gives no address twice for a port (PortsDisjoint of KiacLB).
Cluster ==
  {c \in [ready : SUBSET Endpoints, known : SUBSET Nodes,
          ingress : [ServicePorts -> [Families -> Nodes \cup {Nothing}]]] :
     \A svc \in ServicePorts, x \in ServicePorts, v6 \in Families :
       svc.port = x.port /\ c.ingress[svc][v6] = c.ingress[x][v6] /\ svc # x =>
         c.ingress[x][v6] = Nothing}

\* clusterSnapshot without an answer: the rules and tables are rebuilt without Services.
NoSnapshot == [ready |-> {}, known |-> {},
               ingress |-> [s \in ServicePorts |-> [v6 \in Families |-> Nothing]]]

\* A backendRoute: what to dial, and what the tunnel is asked for.
NoRoute == [dial |-> Nothing, tunnelTarget |-> Nothing]
Direct(addr) == [dial |-> addr, tunnelTarget |-> Nothing]

-----------------------------------------------------------------------------
(* Routing tables, derived from a snapshot s by the proxy of node n.       *)

servicePortMatchesEndpoint(svc, e) ==
  /\ e.tcp
  /\ CASE svc.target.set /\ svc.target.str # "" -> e.name = svc.target.str
       [] svc.target.set /\ svc.target.str = "" -> e.port = svc.target.int
       [] OTHER -> e.port = svc.port

\* Faulty variant: the address family of the slice is not looked at.
matchingEndpoints_anyFamily(s, svc, v6) ==
  {i \in s.ready : /\ EndpointList[i].svc = svc.name
                   /\ servicePortMatchesEndpoint(svc, EndpointList[i])}

\* In the order of the list: the loops over them take the first that fits.
matchingEndpoints(s, svc, v6) ==
  {i \in s.ready : /\ EndpointList[i].svc = svc.name
                   /\ EndpointList[i].v6 = v6
                   /\ servicePortMatchesEndpoint(svc, EndpointList[i])}

First(S) == CHOOSE i \in S : \A j \in S : i <= j

\* A local endpoint, else a tunnel to the node of a remote one, else the first.
routeFor(s, n, svc, v6) ==
  LET eps == matchingEndpoints(s, svc, v6)
      local == {i \in eps : EndpointList[i].node \in {Nothing, n}}
      remote == {i \in eps : EndpointList[i].node \in s.known}
  IN IF local # {} THEN Direct(EndpointAddress(First(local)))
     ELSE IF remote # {}
       THEN [dial |-> NodeAddress(EndpointList[First(remote)].node, v6, ProxyPort),
             tunnelTarget |-> EndpointAddress(First(remote))]
     ELSE IF eps # {} THEN Direct(EndpointAddress(First(eps)))
     ELSE NoRoute

\* Faulty variant: only IPv4 targets are allowed.
allowedTargets_v4(s, n) ==
  {EndpointAddress(i) : i \in {j \in s.ready : EndpointList[j].node = n /\ ~EndpointList[j].v6}}

allowedTargets(s, n) ==
  {EndpointAddress(i) : i \in {j \in Endpoints :
     /\ EndpointList[j].node = n
     /\ \E svc \in ServicePorts, v6 \in Families : j \in matchingEndpoints(s, svc, v6)}}

\* The Services that a snapshot gives an address to.
Owners(s, dst) ==
  {svc \in ServicePorts : /\ svc.port # ProxyPort /\ dst.v6 \in Families /\ dst.node # Nothing
                          /\ dst = NodeAddress(s.ingress[svc][dst.v6], dst.v6, svc.port)}

\* The addresses KIAC-EDGE and KIAC-EDGE-OUTPUT redirect for LoadBalancers.
Redirects(s, dst) == Owners(s, dst) # {}

\* Faulty variant: without an endpoint the LoadBalancer address itself is kept.
loadBalancerRoute_samePort(s, n, dst) ==
  LET svc == CHOOSE x \in Owners(s, dst) : TRUE
      route == routeFor(s, n, svc, dst.v6)
  IN IF route.dial = Nothing THEN Direct(dst) ELSE route

\* Without an endpoint the connection falls back to the Service's NodePort.
loadBalancerRoute(s, n, dst) ==
  LET svc == CHOOSE x \in Owners(s, dst) : TRUE
      route == routeFor(s, n, svc, dst.v6)
  IN IF route.dial = Nothing /\ svc.nodePort > 0
       THEN Direct(NodeAddress(dst.node, dst.v6, svc.nodePort))
       ELSE route

NodePorts == {svc.nodePort : svc \in ServicePorts} \ {0}

nodePortRoute(s, n, dst) ==
  IF dst.port \in NodePorts
    THEN routeFor(s, n, CHOOSE svc \in ServicePorts : svc.nodePort = dst.port, dst.v6)
    ELSE NoRoute

backendRoute(s, n, dst) ==
  IF Redirects(s, dst) /\ loadBalancerRoute(s, n, dst).dial # Nothing
    THEN loadBalancerRoute(s, n, dst)
    ELSE nodePortRoute(s, n, dst)

-----------------------------------------------------------------------------
(* The connection.  Its ghost fields: the Service and the family the client *)
(* asked for; whose snapshot the last route came from; and what NoProxyLoop *)
(* and ServedRight except.                                                 *)

Free == [state |-> "idle", at |-> Nothing, dst |-> Nothing, tunnel |-> Nothing, hops |-> 0,
         svc |-> Nothing, v6 |-> FALSE, by |-> Nothing,
         returns |-> FALSE, asIs |-> FALSE, shared |-> FALSE]

Connection ==
  [state : {"idle", "arriving", "accepted", "dialling", "tunnelled", "served", "kube-proxy",
            "refused", "lost"},
   at : Nodes \cup {Nothing}, dst : Address \cup {Nothing}, tunnel : Address \cup {Nothing},
   hops : 0 .. MaxHops, svc : ServicePorts \cup {Nothing}, v6 : BOOLEAN,
   by : Cluster \cup {Nothing}, returns : BOOLEAN, asIs : BOOLEAN, shared : BOOLEAN]

RoutesTypeOK ==
  /\ cluster \in Cluster
  /\ snap \in [Nodes -> Cluster]
  /\ conn \in Connection
  /\ moves \in 0 .. MaxMoves

Opened(svc, n, v6, port) ==
  [Free EXCEPT !.state = "arriving", !.at = n, !.svc = svc, !.v6 = v6,
               !.dst = NodeAddress(n, v6, port)]

\* A client opens a connection to a LoadBalancer address or to a NodePort.
Connect ==
  /\ conn.state = "idle"
  /\ \E svc \in ServicePorts, n \in Nodes, v6 \in Families :
       \E port \in {svc.nodePort, svc.port} \ {0} :
         /\ port = svc.port => cluster.ingress[svc][v6] = n
         /\ conn' = Opened(svc, n, v6, port)
  /\ UNCHANGED <<cluster, snap, moves>>

\* PREROUTING of the node: the NodePort range and LoadBalancer addresses go to the proxy, the
\* proxy's own port is left alone, the rest is kube-proxy's.
Arrive ==
  /\ conn.state = "arriving"
  /\ conn' = [conn EXCEPT !.state =
       IF conn.dst.port \in NodePortRange \/ Redirects(snap[conn.at], conn.dst)
         THEN "accepted" ELSE "kube-proxy"]
  /\ UNCHANGED <<cluster, snap, moves>>

\* Ghosts.  Ports at which a LoadBalancer address is redirected in some snapshot.
LBPorts == {svc.port : svc \in ServicePorts} \ {ProxyPort}

\* A pod on the host's network that listens on a port which the proxies redirect.
Shadowed(addr) ==
  /\ addr.port \in LBPorts \cup NodePortRange
  /\ \E i \in Endpoints : EndpointList[i].host /\ EndpointAddress(i) = addr

\* A dial that may come back to a proxy: to a LoadBalancer address without a route (no
\* endpoint and no NodePort, or it was just moved), to a NodePort that is also the port
\* of a LoadBalancer, or to a shadowed endpoint.
Returns(route) ==
  \/ route.dial = Nothing /\ conn.dst.port \in LBPorts
  \/ route.dial # Nothing /\ route.dial.pod = 0 /\ route.dial.port \in LBPorts \cap NodePorts
  \/ route.dial # Nothing /\ Shadowed(route.dial)

\* Other Services than the client's that the snapshot gives the address to.
Rivals(s, dst) ==
  {svc \in ServicePorts \ {conn.svc} : svc \in Owners(s, dst) \/ svc.nodePort = dst.port}

\* handleConn: an address without a route is dialled as it is.
handleConn ==
  /\ conn.state = "accepted" /\ conn.hops < MaxHops
  /\ LET s == snap[conn.at]
         route == backendRoute(s, conn.at, conn.dst)
     IN conn' = [conn EXCEPT !.state = "dialling",
                             !.dst = IF route.dial = Nothing THEN conn.dst ELSE route.dial,
                             !.tunnel = route.tunnelTarget,
                             !.hops = conn.hops + 1,
                             !.by = s,
                             !.returns = conn.returns \/ Returns(route),
                             !.asIs = route.dial = Nothing,
                             !.shared = conn.shared \/ Rivals(s, conn.dst) # {}]
  /\ UNCHANGED <<cluster, snap, moves>>

\* What the proxy dials leaves through OUTPUT, where LoadBalancer addresses are
\* redirected into the proxy of this node and NodePorts are kube-proxy's.  A pod's own
\* address is dialled directly, another node's passes that node's PREROUTING.
Dial ==
  /\ conn.state = "dialling"
  /\ LET dst == conn.dst
     IN conn' =
          IF Redirects(snap[conn.at], dst) THEN [conn EXCEPT !.state = "accepted"]
          ELSE IF dst.pod # 0 THEN [conn EXCEPT !.state = "served"]
          ELSE IF dst.port = ProxyPort THEN [conn EXCEPT !.state = "tunnelled", !.at = dst.node]
          ELSE IF dst.node # conn.at THEN [conn EXCEPT !.state = "arriving", !.at = dst.node]
          ELSE IF dst.port \in NodePorts THEN [conn EXCEPT !.state = "kube-proxy"]
          ELSE IF \E i \in Endpoints : EndpointAddress(i) = dst
            THEN [conn EXCEPT !.state = "served"]
          ELSE [conn EXCEPT !.state = "lost"]
  /\ UNCHANGED <<cluster, snap, moves>>

\* handleTunnel: the target must be a ready endpoint of this node.
handleTunnel ==
  /\ conn.state = "tunnelled" /\ conn.hops < MaxHops
  /\ conn' = IF conn.tunnel \in allowedTargets(snap[conn.at], conn.at)
               THEN [conn EXCEPT !.state = "dialling", !.dst = conn.tunnel, !.tunnel = Nothing,
                                 !.hops = conn.hops + 1,
                                 !.returns = conn.returns \/ Shadowed(conn.tunnel)]
               ELSE [conn EXCEPT !.state = "refused"]
  /\ UNCHANGED <<cluster, snap, moves>>

-----------------------------------------------------------------------------
(* The cluster changes, and each proxy reads it at its own time.           *)

\* Bound: what happens once the connection has ended does not matter to it.
Travels == conn.state \in {"arriving", "accepted", "dialling", "tunnelled"}

ChangeCluster ==
  /\ moves < MaxMoves /\ Travels
  /\ moves' = moves + 1
  /\ \/ \E i \in Endpoints :   \* a pod becomes ready, or stops being ready
          cluster' = [cluster EXCEPT !.ready = (@ \ {i}) \cup ({i} \ @)]
     \/ \E svc \in ServicePorts, v6 \in Families, n \in Nodes \cup {Nothing} :   \* kiac-lb moves a Service
          cluster' = [cluster EXCEPT !.ingress[svc][v6] = n]
  /\ cluster' \in Cluster
  /\ UNCHANGED <<snap, conn>>

Sync(n) ==
  /\ snap[n] # cluster
  /\ snap' = [snap EXCEPT ![n] = cluster]
  /\ UNCHANGED <<cluster, conn, moves>>

\* kubectl fails.
SyncNothing(n) ==
  /\ moves < MaxMoves /\ Travels
  /\ moves' = moves + 1
  /\ snap' = [snap EXCEPT ![n] = NoSnapshot]
  /\ UNCHANGED <<cluster, conn>>

RoutesInit ==
  /\ cluster \in Cluster
  /\ snap = [n \in Nodes |-> cluster]
  /\ conn = Free
  /\ moves = 0

RoutesNext ==
  \/ Connect \/ Arrive \/ handleConn \/ Dial \/ handleTunnel
  \/ ChangeCluster
  \/ \E n \in Nodes : Sync(n) \/ SyncNothing(n)

RoutesSpec == RoutesInit /\ [][RoutesNext]_routeVars

-----------------------------------------------------------------------------
(* Properties.                                                             *)

\* Proxies never hand a connection round in a circle: it passes the proxy it reaches and
\* that of the endpoint's node.  Excepted are connections that the rules do send back:
\* to a Service that has neither an endpoint nor a NodePort, or whose address was just
\* moved, or whose pod on the host's network, or NodePort, shares its port with a
\* LoadBalancer.
NoProxyLoop == conn.hops > 2 => conn.returns

\* An endpoint that serves a connection has the address family the client asked for and
\* runs on the node of the proxy that dialled it, so that the last leg is node-local
\* (unless the API server did not know that node's address).  It belongs to the Service
\* and the port the client asked for and was ready in the snapshot of the proxy that
\* chose it, unless an address without a route was dialled as it is, or a snapshot on
\* the way gave the address to another Service.
ServedRight ==
  conn.state = "served" =>
    \E i \in Endpoints :
      LET e == EndpointList[i]
      IN  /\ EndpointAddress(i) = conn.dst
          /\ e.v6 = conn.v6
          /\ e.node \in {conn.at, Nothing} \cup (Nodes \ conn.by.known)
          /\ i \in conn.by.ready \/ conn.asIs
          /\ \/ e.svc = conn.svc.name /\ servicePortMatchesEndpoint(conn.svc, e)
             \/ conn.asIs \/ conn.shared

\* A tunnel is refused only when the two proxies have read different snapshots:
\* the tables the two nodes derive from the same snapshot agree.
TunnelsAgree ==
  [][conn.state = "tunnelled" /\ conn'.state = "refused" => conn.by # snap[conn.at]]_routeVars

=============================================================================
