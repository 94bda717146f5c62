-------------------------- MODULE EdgeProxyProofs ---------------------------
(***************************************************************************)
(* Proofs about the edge proxy.  Of its rules (EdgeProxySync), for every   *)
(* number of processes and Services and every bound: the types of its      *)
(* state, and that a node whose proxies have all cleaned up redirects      *)
(* nothing.  Of the connections it carries (EdgeRoutes), for all nodes,    *)
(* Services and endpoints: where they end, that they do not circle, and    *)
(* that the tables of two proxies agree.  The two modules share no name.   *)
(***************************************************************************)
EXTENDS EdgeProxySync, EdgeRoutes, WellFoundedInduction, TLAPS

-----------------------------------------------------------------------------
(* The rules.                                                              *)


LEMMA SyncTypes ==
  ASSUME TypeOK, NEW p \in Procs,
         \/ ResetHook(p) \/ InsertHook(p) \/ ensureHook(p) \/ Poll(p) \/ FlushChains(p)
         \/ AppendBase(p) \/ AddService(p) \/ ServicesAdded(p) \/ Publish(p) \/ TickSync(p)
  PROVE  TypeOK'
  <1> USE DEF TypeOK, At, Goto, world, bounds
  <1>1. CASE ResetHook(p)
    BY <1>1 DEF ResetHook
  <1>2. CASE InsertHook(p)
    BY <1>2 DEF InsertHook
  <1>3. CASE ensureHook(p)
    BY <1>3 DEF ensureHook
  <1>4. CASE Poll(p)
    BY <1>4 DEF Poll, nat
  <1>5. CASE FlushChains(p)
    BY ZenonT(30), <1>5 DEF FlushChains
  <1>6. CASE AppendBase(p)
    BY <1>6 DEF AppendBase
  <1>7. CASE AddService(p)
    BY <1>7 DEF AddService
  <1>8. CASE ServicesAdded(p)
    BY <1>8 DEF ServicesAdded, nat
  <1>9. CASE Publish(p)
    BY <1>9 DEF Publish, nat
  <1>10. CASE TickSync(p)
    BY <1>10 DEF TickSync, nat
  <1> QED
    BY <1>1, <1>2, <1>3, <1>4, <1>5, <1>6, <1>7, <1>8, <1>9, <1>10

LEMMA ExitTypes ==
  ASSUME TypeOK, NEW p \in Procs,
         \/ Start(p) \/ Serve(p) \/ ChainGone(p) \/ CommandFails(p) \/ Terminate(p)
         \/ Unhook(p) \/ ClearChains(p)
  PROVE  TypeOK'
  <1> USE DEF TypeOK, At, Goto, world
  <1>1. CASE Start(p)
    BY <1>1 DEF Start, nat, bounds
  <1>2. CASE Serve(p)
    BY <1>2 DEF Serve, nat, bounds
  <1>3. CASE ChainGone(p)
    BY <1>3 DEF ChainGone, SyncFails, nat, bounds
  <1>4. CASE CommandFails(p)
    BY <1>4, SyncAssumption DEF CommandFails, SyncFails, nat
  <1>5. CASE Terminate(p)
    BY <1>5, SyncAssumption DEF Terminate, nat
  <1>6. CASE Unhook(p)
    BY <1>6 DEF Unhook, bounds
  <1>7. CASE ClearChains(p)
    BY ZenonT(30), <1>7 DEF ClearChains, bounds
  <1> QED
    BY <1>1, <1>2, <1>3, <1>4, <1>5, <1>6, <1>7

LEMMA SupersededTypes ==
  ASSUME TypeOK, Superseded
  PROVE  /\ text' \in [Procs -> {"empty", "current", "old"}]
         /\ last' \in [Procs -> {"unset", "empty", "current", "old"}]
  <1>1. text' \in [Procs -> {"empty", "current", "old"}]
    BY DEF Superseded, TypeOK
  <1>2. last' \in [Procs -> {"unset", "empty", "current", "old"}]
    BY DEF Superseded, TypeOK
  <1> QED
    BY <1>1, <1>2

LEMMA WorldTypes ==
  ASSUME TypeOK, Heartbeat \/ ChangeServices \/ FlushTable
  PROVE  TypeOK'
  <1>1. CASE Heartbeat
    BY <1>1, SupersededTypes DEF Heartbeat, TypeOK, nat, world, bounds
  <1>2. CASE ChangeServices
    <2>1. changes' \in 0 .. MaxChanges
      BY <1>2, SyncAssumption DEF ChangeServices, TypeOK
    <2>2. /\ services' \subseteq Services /\ api' \in BOOLEAN
          /\ text' \in [Procs -> {"empty", "current", "old"}]
          /\ last' \in [Procs -> {"unset", "empty", "current", "old"}]
      <3>1. CASE Superseded /\ services' \in SUBSET Services /\ UNCHANGED api
        BY <3>1, SupersededTypes DEF TypeOK
      <3>2. CASE api' = ~api /\ UNCHANGED <<services, text, last>>
        BY <3>2 DEF TypeOK
      <3> QED
        BY Zenon, <1>2, <3>1, <3>2 DEF ChangeServices
    <2> QED
      BY <1>2, <2>1, <2>2 DEF ChangeServices, TypeOK, nat, bounds
  <1>3. CASE FlushTable
    <2>1. flushes' \in 0 .. MaxFlushes
      BY <1>3, SyncAssumption DEF FlushTable, TypeOK
    <2> QED
      BY ZenonT(30), <1>3, <2>1 DEF FlushTable, TypeOK, world, local
  <1> QED
    BY <1>1, <1>2, <1>3

LEMMA StepTypes == TypeOK /\ [Next]_vars => TypeOK'
  <1> SUFFICES ASSUME TypeOK, [Next]_vars PROVE TypeOK'
    OBVIOUS
  <1>1. CASE UNCHANGED vars
    BY <1>1 DEF vars, nat, world, local, bounds, TypeOK
  <1>2. CASE Next
    BY Zenon, <1>2, SyncTypes, ExitTypes, WorldTypes DEF Next, SyncStep, ExitStep
  <1> QED
    BY <1>1, <1>2

LEMMA InitTypes == Init => TypeOK
  <1> SUFFICES ASSUME Init PROVE TypeOK
    OBVIOUS
  <1>1. /\ changes \in 0 .. MaxChanges /\ kills \in 0 .. MaxKills
        /\ flushes \in 0 .. MaxFlushes /\ faults \in 0 .. MaxFaults
    BY SyncAssumption DEF Init
  <1>2. jumps \in Nat
    BY DEF Init
  <1> QED
    BY Zenon, <1>1, <1>2 DEF Init, TypeOK

\* The state of the sync loops and of the chains stays within its types.
THEOREM TypesHold == Spec => []TypeOK
  BY InitTypes, StepTypes, PTL DEF Spec

-----------------------------------------------------------------------------
(* The jumps.                                                              *)

\* Until a process ended otherwise: one that is about to delete the chains has its
\* sync loop at rest, and as long as there is a jump some process has still to
\* delete the jumps before it ends.
Owed ==
  ~dirty =>
    /\ \A p \in Procs : exit[p] = "clear" => pc[p] = "idle"
    /\ jumps > 0 => \E p \in Procs : pc[p] # "off" /\ exit[p] # "clear"

HookInv == TypeOK /\ Owed

LEMMA SyncOwed ==
  ASSUME HookInv, NEW p \in Procs,
         \/ ResetHook(p) \/ InsertHook(p) \/ ensureHook(p) \/ Poll(p) \/ FlushChains(p)
         \/ AppendBase(p) \/ AddService(p) \/ ServicesAdded(p) \/ Publish(p) \/ TickSync(p)
  PROVE  Owed'
  <1> USE DEF HookInv
  <1>1. /\ exit' = exit /\ dirty' = dirty /\ pc[p] # "off"
        /\ pc' = pc \/ \E l \in {"insert", "hook", "rehook", "poll", "flush", "base", "add", "publish", "idle"} :
                          pc' = [pc EXCEPT ![p] = l]
        /\ jumps' > 0 => jumps > 0 \/ pc[p] \in {"insert", "rehook"}
        /\ pc[p] # "idle" \/ exit[p] = "no"
    BY DEF ResetHook, InsertHook, ensureHook, Poll, FlushChains, AppendBase, AddService,
           ServicesAdded, Publish, TickSync, At, Goto, nat
  <1> QED
    BY SMTT(30), <1>1 DEF Owed, TypeOK

LEMMA ExitOwed ==
  ASSUME HookInv, NEW p \in Procs,
         \/ Start(p) \/ Serve(p) \/ ChainGone(p) \/ CommandFails(p) \/ Terminate(p)
         \/ Unhook(p) \/ ClearChains(p)
  PROVE  Owed'
  <1> USE DEF HookInv, At, Goto
  <1>1. CASE Start(p)
    BY <1>1 DEF Start, Owed, TypeOK, nat
  <1>2. CASE Serve(p)
    BY <1>2 DEF Serve, Owed, TypeOK, nat
  <1>3. ASSUME SyncFails(p), pc[p] \in {"insert", "rehook", "flush", "base"} PROVE Owed'
    BY ZenonT(30), <1>3 DEF SyncFails, Owed, TypeOK, nat
  <1>4. CASE ChainGone(p) \/ CommandFails(p)
    BY <1>3, <1>4 DEF ChainGone, CommandFails
  <1>5. CASE Terminate(p)
    BY <1>5 DEF Terminate, Owed, TypeOK, nat
  <1>6. CASE Unhook(p)
    <2>1. ~(jumps' > 0) /\ UNCHANGED pc /\ exit' = [exit EXCEPT ![p] = "clear"]
      BY <1>6 DEF Unhook
    <2>2. ~dirty' => ~dirty /\ pc[p] = "idle"
      BY Zenon, <1>6 DEF Unhook
    <2> QED
      BY <2>1, <2>2 DEF Owed, TypeOK
  <1>7. CASE ClearChains(p)
    BY SMTT(30), <1>7 DEF ClearChains, Owed, TypeOK
  <1> QED
    BY <1>1, <1>2, <1>4, <1>5, <1>6, <1>7

LEMMA WorldOwed ==
  ASSUME HookInv, Heartbeat \/ ChangeServices \/ FlushTable
  PROVE  Owed'
  BY DEF HookInv, Heartbeat, ChangeServices, FlushTable, Owed, nat, local

LEMMA StepOwed == HookInv /\ [Next]_vars => HookInv'
  <1> SUFFICES ASSUME HookInv, [Next]_vars PROVE HookInv'
    OBVIOUS
  <1>1. TypeOK'
    BY ZenonT(30), StepTypes DEF HookInv
  <1>2. CASE UNCHANGED vars
    BY <1>1, <1>2 DEF vars, nat, local, HookInv, Owed
  <1>3. CASE Next
    BY Zenon, <1>1, <1>3, SyncOwed, ExitOwed, WorldOwed DEF Next, SyncStep, ExitStep, HookInv
  <1> QED
    BY <1>2, <1>3

LEMMA InitOwed == Init => HookInv
  <1> SUFFICES ASSUME Init PROVE Owed
    BY InitTypes DEF HookInv
  <1> QED
    BY DEF Init, Owed

LEMMA OwedSuffices == HookInv => NoLeftoverJump
  BY DEF HookInv, Owed, NoLeftoverJump, At, TypeOK

\* A node whose proxies have all ended through cleanup, with their sync loops at rest,
\* has no jump into a chain nobody serves, however many processes overlapped.
THEOREM JumpsCleared == Spec => []NoLeftoverJump
  <1>1. Spec => []HookInv
    BY InitOwed, StepOwed, PTL DEF Spec
  <1> QED
    BY <1>1, OwedSuffices, PTL

-----------------------------------------------------------------------------
(* The routes.                                                             *)

LEMMA FirstIn ==
  ASSUME NEW S \in SUBSET Endpoints, S # {}
  PROVE  First(S) \in S
  <1>1. S \subseteq Nat
    BY EdgeAssumption
  <1>2. PICK x \in S : \A y \in S : ~(<<y, x>> \in OpToRel(<, Nat))
    BY Zenon, <1>1, WFMin, NatLessThanWellFounded
  <1>3. \A y \in S : x <= y
    <2> TAKE y \in S
    <2>1. x \in Nat /\ y \in Nat /\ ~(<<y, x>> \in OpToRel(<, Nat))
      BY Zenon, <1>1, <1>2
    <2> QED
      BY <2>1 DEF OpToRel
  <1> QED
    BY Zenon, <1>3 DEF First

\* routeFor takes a ready endpoint of the Service and the family: of this node, or of
\* one whose address the snapshot lacks, or of another node through a tunnel to it.
Takes(s, n, svc, v6, i, route) ==
  /\ i \in matchingEndpoints(s, svc, v6)
  /\ \/ /\ route = Direct(EndpointAddress(i))
        /\ EndpointList[i].node \in {n, Nothing} \cup (Nodes \ s.known)
     \/ /\ route = [dial |-> NodeAddress(EndpointList[i].node, v6, ProxyPort),
                    tunnelTarget |-> EndpointAddress(i)]
        /\ EndpointList[i].node \in s.known

LEMMA RouteForTakes ==
  ASSUME NEW s \in Cluster, NEW n \in Nodes, NEW svc \in ServicePorts, NEW v6
  PROVE  \/ routeFor(s, n, svc, v6) = NoRoute
         \/ \E i \in Endpoints : Takes(s, n, svc, v6, i, routeFor(s, n, svc, v6))
  <1> DEFINE eps == matchingEndpoints(s, svc, v6)
             here == {i \in eps : EndpointList[i].node \in {Nothing, n}}
             there == {i \in eps : EndpointList[i].node \in s.known}
  <1>0. eps \subseteq Endpoints /\ here \in SUBSET Endpoints /\ there \in SUBSET Endpoints
    BY Zenon DEF Cluster, matchingEndpoints
  <1> HIDE DEF eps
  <1>1. CASE here # {}
    <2>1. First(here) \in here
      BY Zenon, <1>0, <1>1, FirstIn
    <2>2. routeFor(s, n, svc, v6) = Direct(EndpointAddress(First(here)))
      BY Zenon, <1>1 DEF routeFor, eps
    <2> QED
      BY Zenon, <1>0, <2>1, <2>2 DEF Takes, eps
  <1>2. CASE here = {} /\ there # {}
    <2>1. First(there) \in there
      BY Zenon, <1>0, <1>2, FirstIn
    <2>2. routeFor(s, n, svc, v6) =
            [dial |-> NodeAddress(EndpointList[First(there)].node, v6, ProxyPort),
             tunnelTarget |-> EndpointAddress(First(there))]
      BY Zenon, <1>2 DEF routeFor, eps
    <2> QED
      BY Zenon, <1>0, <2>1, <2>2 DEF Takes, eps
  <1>3. CASE here = {} /\ there = {} /\ eps # {}
    <2>1. First(eps) \in eps
      BY Zenon, <1>0, <1>3, FirstIn
    <2>2. routeFor(s, n, svc, v6) = Direct(EndpointAddress(First(eps)))
      BY Zenon, <1>3 DEF routeFor, eps
    <2>3. EndpointList[First(eps)].node \notin s.known
      BY Zenon, <1>3, <2>1
    <2>4. EndpointList[First(eps)].node \in Nodes \cup {Nothing}
      BY Zenon, <1>0, <2>1, EdgeAssumption
    <2> QED
      BY Zenon, <1>0, <2>1, <2>2, <2>3, <2>4 DEF Takes, eps
  <1>4. CASE here = {} /\ there = {} /\ eps = {}
    BY Zenon, <1>4 DEF routeFor, eps
  <1> QED
    BY Zenon, <1>1, <1>2, <1>3, <1>4

\* The Services whose routes backendRoute may take.
Candidates(s, dst) == {svc \in ServicePorts : svc \in Owners(s, dst) \/ svc.nodePort = dst.port}

Fallback(dst, route) == \E q \in NodePorts : route = Direct(NodeAddress(dst.node, dst.v6, q))

LEMMA RouteTakes ==
  ASSUME NEW s \in Cluster, NEW n \in Nodes, NEW dst \in Address
  PROVE  LET r == backendRoute(s, n, dst)
         IN  \/ r = NoRoute
             \/ Fallback(dst, r)
             \/ \E svc \in Candidates(s, dst), i \in Endpoints : Takes(s, n, svc, dst.v6, i, r)
  <1> DEFINE r == backendRoute(s, n, dst)
  <1>1. CASE r = nodePortRoute(s, n, dst)
    <2>1. CASE dst.port \notin NodePorts
      BY Zenon, <1>1, <2>1 DEF nodePortRoute
    <2>2. CASE dst.port \in NodePorts
      <3>1. PICK svc \in ServicePorts : svc = CHOOSE x \in ServicePorts : x.nodePort = dst.port
        BY Zenon, <2>2 DEF NodePorts
      <3>2. svc.nodePort = dst.port
        BY Zenon, <2>2, <3>1 DEF NodePorts
      <3>3. r = routeFor(s, n, svc, dst.v6)
        BY Zenon, <1>1, <2>2, <3>1 DEF nodePortRoute
      <3> HIDE DEF r
      <3> QED
        BY Zenon, <3>2, <3>3, RouteForTakes DEF Candidates, r
    <2> QED
      BY Zenon, <2>1, <2>2
  <1>2. CASE Redirects(s, dst) /\ r = loadBalancerRoute(s, n, dst)
    <2>1. PICK svc \in Owners(s, dst) : svc = CHOOSE x \in Owners(s, dst) : TRUE
      BY Zenon, <1>2 DEF Redirects
    <2>2. svc \in ServicePorts /\ svc \in Candidates(s, dst)
      BY Zenon, <2>1 DEF Owners, Candidates
    <2>3. CASE r = routeFor(s, n, svc, dst.v6)
      <3> HIDE DEF r
      <3> QED
        BY Zenon, <2>2, <2>3, RouteForTakes DEF r
    <2>4. CASE svc.nodePort > 0 /\ r = Direct(NodeAddress(dst.node, dst.v6, svc.nodePort))
      <3>1. svc.nodePort \in NodePorts
        <4>1. svc.nodePort # 0
          BY <2>4
        <4> QED
          BY Zenon, <2>2, <4>1 DEF NodePorts
      <3> QED
        BY Zenon, <2>4, <3>1 DEF Fallback
    <2> QED
      BY Zenon, <1>2, <2>1, <2>3, <2>4 DEF loadBalancerRoute
  <1> QED
    BY Zenon, <1>1, <1>2 DEF backendRoute

-----------------------------------------------------------------------------
(* The connection.                                                         *)

\* Endpoint i was taken from the tables of the proxy the route came from, for the
\* client's Service unless another had the address.
Picked(i) ==
  \E svc \in ServicePorts : /\ i \in matchingEndpoints(conn.by, svc, conn.v6)
                            /\ svc = conn.svc \/ conn.shared

Near(i) == EndpointList[i].node \in {conn.at, Nothing} \cup (Nodes \ conn.by.known)

\* A dial goes to the address the connection came with, to a NodePort, to an endpoint,
\* or to the proxy of an endpoint's node.
Aimed ==
  LET dst == conn.dst
  IN  \/ /\ conn.tunnel = Nothing /\ conn.asIs
         /\ dst.pod = 0 /\ dst.port \in LBPorts \cup NodePortRange
      \/ /\ conn.tunnel = Nothing /\ ~conn.asIs
         /\ dst.pod = 0 /\ dst.port \in NodePorts
      \/ /\ conn.tunnel = Nothing /\ ~conn.asIs
         /\ \E i \in Endpoints : dst = EndpointAddress(i) /\ Picked(i) /\ Near(i)
      \/ /\ ~conn.asIs /\ dst.pod = 0 /\ dst.port = ProxyPort
         /\ \E i \in Endpoints : /\ conn.tunnel = EndpointAddress(i) /\ Picked(i)
                                 /\ EndpointList[i].node = dst.node /\ dst.node \in Nodes

Travelling ==
  /\ conn.at \in Nodes /\ conn.svc \in ServicePorts /\ conn.v6 \in Families
  /\ conn.dst \in Address /\ conn.dst.v6 = conn.v6
  /\ conn.state \in {"arriving", "accepted"} => conn.dst.pod = 0 /\ conn.dst.node \in Nodes
  /\ conn.state = "accepted" => conn.dst.port \in LBPorts \cup NodePortRange
  /\ conn.state \in {"dialling", "tunnelled", "served"} => conn.by \in Cluster
  /\ conn.state = "dialling" => Aimed /\ (conn.dst.pod = 0 => conn.dst.node \in Nodes)
  /\ conn.state = "tunnelled" =>
       \E i \in Endpoints : /\ conn.tunnel = EndpointAddress(i) /\ Picked(i) /\ ~conn.asIs
                            /\ EndpointList[i].node = conn.at

\* Until a dial may come back: the first proxy is the one of the address, and what it
\* or the second dials is not redirected.
Once ==
  ~conn.returns =>
    LET dst == conn.dst
    IN  /\ conn.hops <= 2
        /\ conn.state = "idle" => conn.hops = 0
        /\ conn.state = "arriving" =>
             \/ conn.hops = 0 /\ dst.node = conn.at
             \/ dst.port \notin LBPorts \cup NodePortRange
        /\ conn.state = "accepted" => conn.hops = 0 /\ dst.node = conn.at
        /\ conn.state = "dialling" =>
             \/ dst.pod # 0
             \/ dst.port = ProxyPort /\ conn.hops = 1
             \/ dst.port \in NodePortRange \ LBPorts /\ dst.node = conn.at
             \/ dst.port \notin LBPorts \cup NodePortRange \cup {ProxyPort}
        /\ conn.state = "tunnelled" => conn.hops = 1

RouteInv ==
  /\ RoutesTypeOK
  /\ conn.state # "idle" => Travelling
  /\ Once
  /\ ServedRight

LEMMA NodeFields ==
  ASSUME NEW n \in Nodes \cup {Nothing}, NEW v6 \in Families, NEW q \in Nat
  PROVE  LET a == NodeAddress(n, v6, q)
         IN  a \in Address /\ a # Nothing /\ a.pod = 0 /\ a.node = n /\ a.v6 = v6 /\ a.port = q
  <1>0. Nothing \notin Address
    BY Zenon, EdgeAssumption
  <1>1. NodeAddress(n, v6, q) \in Address
    BY Zenon DEF Address, NodeAddress, Families
  <1>2. LET a == NodeAddress(n, v6, q) IN a.pod = 0 /\ a.node = n /\ a.v6 = v6 /\ a.port = q
    BY DEF NodeAddress
  <1> QED
    BY Zenon, <1>0, <1>1, <1>2

LEMMA EndpointFields ==
  ASSUME NEW i \in Endpoints
  PROVE  LET a == EndpointAddress(i)
         IN  /\ a \in Address /\ a # Nothing /\ a.node = EndpointList[i].node
             /\ a.v6 = EndpointList[i].v6 /\ a.port = EndpointList[i].port
             /\ a.pod = 0 => EndpointList[i].host /\ a.node \in Nodes /\ a.port # ProxyPort
  <1>0. Nothing \notin Address
    BY Zenon, EdgeAssumption
  <1>1. /\ i \in Nat \ {0} /\ EndpointList[i].node \in Nodes \cup {Nothing}
        /\ EndpointList[i].v6 \in BOOLEAN /\ EndpointList[i].port \in Nat
        /\ EndpointList[i].host => EndpointList[i].node \in Nodes /\ EndpointList[i].port # ProxyPort
    BY EdgeAssumption
  <1>2. LET a == EndpointAddress(i)
        IN  /\ a.node = EndpointList[i].node /\ a.v6 = EndpointList[i].v6
            /\ a.port = EndpointList[i].port
            /\ a.pod = IF EndpointList[i].host THEN 0 ELSE i
    BY DEF EndpointAddress
  <1>3. EndpointAddress(i) \in Address
    BY <1>1 DEF Address, EndpointAddress
  <1>4. i # 0
    BY <1>1
  <1> QED
    BY Zenon, <1>0, <1>1, <1>2, <1>3, <1>4

LEMMA AddressTypes ==
  ASSUME NEW a \in Address
  PROVE  /\ a.pod \in Endpoints \cup {0} /\ a.node \in Nodes \cup {Nothing}
         /\ a.v6 \in BOOLEAN /\ a.port \in Nat
  BY DEF Address

LEMMA RouteFields ==
  /\ NoRoute.dial = Nothing /\ NoRoute.tunnelTarget = Nothing
  /\ \A a : Direct(a).dial = a /\ Direct(a).tunnelTarget = Nothing
  /\ \A a, b : [dial |-> a, tunnelTarget |-> b].dial = a
               /\ [dial |-> a, tunnelTarget |-> b].tunnelTarget = b
  BY DEF NoRoute, Direct

\* A redirected address is a node's, at a LoadBalancer's port.
LEMMA RedirectedAddress ==
  ASSUME NEW s, NEW dst \in Address, Redirects(s, dst)
  PROVE  dst.pod = 0 /\ dst.node \in Nodes /\ dst.port \in LBPorts /\ dst.v6 \in Families
  <1>1. PICK svc \in ServicePorts :
          /\ svc.port # ProxyPort /\ dst.v6 \in Families /\ dst.node # Nothing
          /\ dst = NodeAddress(s.ingress[svc][dst.v6], dst.v6, svc.port)
    BY Zenon DEF Redirects, Owners
  <1>2. dst.pod = 0 /\ dst.port = svc.port
    BY <1>1 DEF NodeAddress
  <1>3. dst.node \in Nodes \cup {Nothing}
    BY Zenon, AddressTypes
  <1> QED
    BY Zenon, <1>1, <1>2, <1>3 DEF LBPorts

LEMMA SnapshotType == NoSnapshot \in Cluster
  <1>1. NoSnapshot \in [ready : SUBSET Endpoints, known : SUBSET Nodes,
                        ingress : [ServicePorts -> [Families -> Nodes \cup {Nothing}]]]
    BY DEF NoSnapshot
  <1>2. \A x \in ServicePorts, v6 \in Families : NoSnapshot.ingress[x][v6] = Nothing
    BY DEF NoSnapshot
  <1> QED
    BY Zenon, <1>1, <1>2 DEF Cluster

LEMMA Ports ==
  /\ ProxyPort \notin LBPorts /\ ProxyPort \notin NodePortRange
  /\ LBPorts \subseteq Nat /\ NodePorts \subseteq NodePortRange /\ NodePortRange \subseteq Nat
  /\ \A svc \in ServicePorts : svc.port \in Nat /\ svc.nodePort \in Nat
  <1>1. 0 \in Nat
    OBVIOUS
  <1> QED
    BY Zenon, <1>1, EdgeAssumption DEF LBPorts, NodePorts

-----------------------------------------------------------------------------
(* Steps.                                                                  *)

States == {"idle", "arriving", "accepted", "dialling", "tunnelled", "served", "kube-proxy",
           "refused", "lost"}

LEMMA ConnFields ==
  ASSUME conn \in Connection
  PROVE  /\ conn.state \in States /\ conn.at \in Nodes \cup {Nothing}
         /\ conn.dst \in Address \cup {Nothing} /\ conn.tunnel \in Address \cup {Nothing}
         /\ conn.hops \in 0 .. MaxHops /\ conn.svc \in ServicePorts \cup {Nothing}
         /\ conn.v6 \in BOOLEAN /\ conn.by \in Cluster \cup {Nothing}
         /\ conn.returns \in BOOLEAN /\ conn.asIs \in BOOLEAN /\ conn.shared \in BOOLEAN
  BY DEF Connection, States

\* A step that changes the connection's state and where it is.
Steers(x, n) ==
  /\ conn' \in Connection /\ conn'.state = x /\ conn'.at = n
  /\ conn'.dst = conn.dst /\ conn'.tunnel = conn.tunnel /\ conn'.hops = conn.hops
  /\ conn'.svc = conn.svc /\ conn'.v6 = conn.v6 /\ conn'.by = conn.by
  /\ conn'.returns = conn.returns /\ conn'.asIs = conn.asIs /\ conn'.shared = conn.shared

LEMMA Steered ==
  ASSUME conn \in Connection, NEW x \in States, NEW n \in Nodes \cup {Nothing}
  PROVE  /\ conn' = [conn EXCEPT !.state = x, !.at = n] => Steers(x, n)
         /\ conn' = [conn EXCEPT !.state = x] => Steers(x, conn.at)
  <1>1. ASSUME conn' = [conn EXCEPT !.state = x, !.at = n] PROVE Steers(x, n)
    BY Zenon, <1>1 DEF Connection, Steers, States
  <1>2. ASSUME conn' = [conn EXCEPT !.state = x] PROVE Steers(x, conn.at)
    BY Zenon, <1>2 DEF Connection, Steers, States
  <1> QED
    BY Zenon, <1>1, <1>2

LEMMA PickedKept ==
  ASSUME conn'.svc = conn.svc, conn'.v6 = conn.v6, conn'.by = conn.by, conn'.shared = conn.shared,
         NEW i
  PROVE  Picked(i)' <=> Picked(i)
  BY Zenon DEF Picked, matchingEndpoints

LEMMA ConnKept ==
  ASSUME RouteInv, UNCHANGED conn
  PROVE  conn' \in Connection /\ (conn'.state # "idle" => Travelling') /\ Once' /\ ServedRight'
  <1>1. \A i : (Picked(i)' <=> Picked(i)) /\ (Near(i)' <=> Near(i))
    BY Zenon, PickedKept DEF Near
  <1> QED
    BY ZenonT(60), <1>1 DEF RouteInv, RoutesTypeOK, Travelling, Aimed, Once, ServedRight

LEMMA ConnectStep ==
  ASSUME RouteInv, Connect
  PROVE  RouteInv'
  <1>0. PICK svc \in ServicePorts, n \in Nodes, v6 \in Families :
          \E q \in {svc.nodePort, svc.port} \ {0} : conn' = Opened(svc, n, v6, q)
    BY Zenon DEF Connect
  <1>1. PICK q \in {svc.nodePort, svc.port} : conn' = Opened(svc, n, v6, q)
    BY Zenon, <1>0
  <1>2. q \in Nat
    BY Zenon, <1>1, Ports
  <1>3. PICK a : a = NodeAddress(n, v6, q)
    BY Zenon
  <1>4. a \in Address /\ a.pod = 0 /\ a.node = n /\ a.v6 = v6
    BY <1>2, <1>3, NodeFields
  <1>5. /\ conn' \in Connection /\ conn'.state = "arriving" /\ conn'.at = n /\ conn'.svc = svc
        /\ conn'.v6 = v6 /\ conn'.dst = a /\ conn'.hops = 0
    <2>1. 0 \in 0 .. MaxHops
      BY EdgeAssumption
    <2>2. conn' = [Free EXCEPT !.state = "arriving", !.at = n, !.svc = svc, !.v6 = v6, !.dst = a]
      BY Zenon, <1>1, <1>3 DEF Opened
    <2> QED
      BY Zenon, <1>4, <2>1, <2>2 DEF Free, Connection, Families
  <1>6. Travelling'
    BY Zenon, <1>4, <1>5 DEF Travelling
  <1>7. Once'
    <2>1. conn'.hops <= 2
      BY <1>5
    <2> QED
      BY Zenon, <1>4, <1>5, <2>1 DEF Once
  <1>8. ServedRight'
    BY Zenon, <1>5 DEF ServedRight
  <1>9. RoutesTypeOK'
    BY Zenon, <1>5 DEF Connect, RouteInv, RoutesTypeOK
  <1> QED
    BY Zenon, <1>6, <1>7, <1>8, <1>9 DEF RouteInv

LEMMA ArriveStep ==
  ASSUME RouteInv, Arrive
  PROVE  RouteInv'
  <1>1. conn \in Connection /\ conn.state = "arriving" /\ Travelling /\ Once
    BY Zenon DEF RouteInv, RoutesTypeOK, Arrive
  <1>2. PICK x \in {"accepted", "kube-proxy"} :
          /\ Steers(x, conn.at)
          /\ x = "accepted" => conn.dst.port \in NodePortRange \/ Redirects(snap[conn.at], conn.dst)
    <2>1. CASE conn.dst.port \in NodePortRange \/ Redirects(snap[conn.at], conn.dst)
      BY Zenon, <1>1, <2>1, Steered DEF Arrive, States
    <2>2. CASE ~(conn.dst.port \in NodePortRange \/ Redirects(snap[conn.at], conn.dst))
      BY Zenon, <1>1, <2>2, Steered DEF Arrive, States
    <2> QED
      BY Zenon, <2>1, <2>2
  <1>3. x = "accepted" => conn.dst.port \in LBPorts \cup NodePortRange
    BY Zenon, <1>1, <1>2, RedirectedAddress DEF Travelling
  <1>4. Travelling' /\ ServedRight'
    BY Zenon, <1>1, <1>2, <1>3 DEF Travelling, Steers, ServedRight
  <1>5. Once'
    BY Zenon, <1>1, <1>2, <1>3 DEF Once, Steers
  <1>6. RoutesTypeOK'
    BY Zenon, <1>2 DEF Arrive, RouteInv, RoutesTypeOK, Steers
  <1> QED
    BY Zenon, <1>4, <1>5, <1>6 DEF RouteInv

\* What a route's dial is, for the connection.
LEMMA HandleConnStep ==
  ASSUME RouteInv, handleConn
  PROVE  RouteInv'
  <1>1. /\ conn \in Connection /\ conn.state = "accepted" /\ Travelling /\ Once
        /\ conn.hops < MaxHops
    BY Zenon DEF RouteInv, RoutesTypeOK, handleConn
  <1>2. PICK s \in Cluster, n \in Nodes, dst \in Address :
          /\ s = snap[conn.at] /\ n = conn.at /\ dst = conn.dst
          /\ dst.pod = 0 /\ dst.port \in LBPorts \cup NodePortRange /\ dst.v6 = conn.v6
          /\ conn.v6 \in Families /\ conn.svc \in ServicePorts /\ dst.node \in Nodes
          /\ ~conn.returns => dst.node = n
    BY Zenon, <1>1 DEF RouteInv, RoutesTypeOK, Travelling, Once
  <1>3. PICK route : route = backendRoute(s, n, dst)
    BY Zenon
  <1>4. PICK ret \in BOOLEAN, sh \in BOOLEAN, as \in BOOLEAN :
          /\ ret = (conn.returns \/ Returns(route)) /\ as = (route.dial = Nothing)
          /\ sh = (conn.shared \/ Rivals(s, dst) # {})
    BY Zenon
  <1>5. PICK to, tt : to = (IF route.dial = Nothing THEN dst ELSE route.dial) /\ tt = route.tunnelTarget
    BY Zenon
  <1>c. conn' = [conn EXCEPT !.state = "dialling", !.dst = to, !.tunnel = tt, !.hops = conn.hops + 1,
                             !.by = s, !.returns = ret, !.asIs = as, !.shared = sh]
    BY Zenon, <1>2, <1>3, <1>4, <1>5 DEF handleConn
  <1>6. /\ conn'.state = "dialling" /\ conn'.dst = to /\ conn'.tunnel = tt
        /\ conn'.hops = conn.hops + 1 /\ conn'.by = s /\ conn'.returns = ret
        /\ conn'.asIs = as /\ conn'.shared = sh
        /\ conn'.at = n /\ conn'.svc = conn.svc /\ conn'.v6 = conn.v6
    BY Zenon, <1>1, <1>2, <1>c DEF Connection
  <1>7. ASSUME to \in Address, tt \in Address \cup {Nothing}
        PROVE  conn' \in Connection
    <2>1. conn.hops + 1 \in 0 .. MaxHops
      BY <1>1, EdgeAssumption, ConnFields
    <2>2. PICK c : c = [conn EXCEPT !.state = "dialling", !.dst = to, !.tunnel = tt,
                                    !.hops = conn.hops + 1]
      BY Zenon
    <2>3. c \in Connection
      BY Zenon, <1>1, <1>7, <2>1, <2>2 DEF Connection
    <2>4. conn' = [c EXCEPT !.by = s, !.returns = ret, !.asIs = as, !.shared = sh]
      BY Zenon, <1>c, <2>2
    <2> QED
      BY ZenonT(30), <2>3, <2>4 DEF Connection
  <1>8. ASSUME to \in Address, tt \in Address \cup {Nothing}, to.v6 = conn.v6, Aimed',
               to.pod = 0 => to.node \in Nodes,
               ~ret => \/ to.pod # 0
                       \/ to.port = ProxyPort
                       \/ to.port \in NodePortRange \ LBPorts /\ to.node = n
                       \/ to.port \notin LBPorts \cup NodePortRange \cup {ProxyPort}
        PROVE  RouteInv'
    <2>1. RoutesTypeOK'
      BY Zenon, <1>7, <1>8 DEF handleConn, RouteInv, RoutesTypeOK
    <2>2. Travelling' /\ ServedRight'
      BY Zenon, <1>2, <1>6, <1>8 DEF Travelling, ServedRight
    <2>3. ~ret => conn'.hops = 1
      <3>1. ~ret => conn.hops = 0
        BY Zenon, <1>1, <1>4 DEF Once
      <3> QED
        BY <1>6, <3>1
    <2>4. Once'
      <3>1. ~ret => conn'.hops <= 2
        BY <2>3
      <3> QED
        BY Zenon, <1>6, <1>8, <2>3, <3>1 DEF Once
    <2> QED
      BY Zenon, <2>1, <2>2, <2>4 DEF RouteInv
  <1>9. CASE route = NoRoute
    <2>1. route.dial = Nothing /\ tt = Nothing /\ to = dst
      BY Zenon, <1>5, <1>9, RouteFields
    <2>2. Aimed'
      BY Zenon, <1>2, <1>4, <1>6, <2>1 DEF Aimed
    <2>3. ~ret => dst.port \in NodePortRange \ LBPorts /\ dst.node = n
      BY Zenon, <1>2, <1>4, <2>1 DEF Returns
    <2> QED
      BY Zenon, <1>2, <1>8, <2>1, <2>2, <2>3
  <1>10. CASE Fallback(dst, route)
    <2>1. PICK q \in NodePorts : route = Direct(NodeAddress(dst.node, dst.v6, q))
      BY Zenon, <1>10 DEF Fallback
    <2>2. PICK nd \in Nodes, fam \in Families : nd = dst.node /\ fam = dst.v6 /\ q \in Nat
      BY Zenon, <1>2, Ports
    <2>n. PICK a \in Address : /\ a = NodeAddress(nd, fam, q) /\ a # Nothing /\ a.pod = 0
                               /\ a.node = nd /\ a.v6 = fam /\ a.port = q
      BY <2>2, NodeFields
    <2>3. /\ a = NodeAddress(dst.node, dst.v6, q) /\ a # Nothing /\ a.pod = 0
          /\ a.node = dst.node /\ a.v6 = dst.v6 /\ a.port = q
      BY Zenon, <2>2, <2>n
    <2>4. route.dial = a /\ tt = Nothing /\ to = a
      BY Zenon, <1>5, <2>1, <2>3, RouteFields
    <2>5. Aimed'
      BY Zenon, <1>2, <1>4, <1>6, <2>3, <2>4 DEF Aimed
    <2>6. ~ret => a.port \in NodePortRange \ LBPorts /\ a.node = n
      BY Zenon, <1>2, <1>4, <2>3, <2>4, Ports DEF Returns
    <2> QED
      BY Zenon, <1>2, <1>8, <2>3, <2>4, <2>5, <2>6
  <1>11. ASSUME NEW svc \in Candidates(s, dst), NEW i \in Endpoints, Takes(s, n, svc, dst.v6, i, route)
         PROVE  RouteInv'
    <2>1. /\ i \in matchingEndpoints(s, svc, conn.v6) /\ EndpointList[i].v6 = conn.v6
          /\ svc \in ServicePorts
      BY Zenon, <1>2, <1>11 DEF Takes, matchingEndpoints, Candidates
    <2>2. svc = conn.svc \/ sh
      BY Zenon, <1>4, <1>11 DEF Candidates, Rivals
    <2>3. Picked(i)'
      <3>1. i \in matchingEndpoints(conn'.by, svc, conn'.v6)
        BY Zenon, <1>6, <2>1
      <3> QED
        BY Zenon, <1>6, <2>1, <2>2, <3>1 DEF Picked
    <2>4. PICK a \in Address :
            /\ a = EndpointAddress(i) /\ a # Nothing /\ a.node = EndpointList[i].node
            /\ a.v6 = EndpointList[i].v6 /\ a.port = EndpointList[i].port
            /\ a.pod = 0 => EndpointList[i].host /\ a.node \in Nodes /\ a.port # ProxyPort
      BY Zenon, EndpointFields
    <2>5. CASE route = Direct(EndpointAddress(i)) /\ EndpointList[i].node \in {n, Nothing} \cup (Nodes \ s.known)
      <3>1. route.dial = a /\ tt = Nothing /\ to = a
        BY Zenon, <1>5, <2>4, <2>5, RouteFields
      <3>2. Near(i)'
        BY Zenon, <1>6, <2>5 DEF Near
      <3>3. Aimed'
        BY Zenon, <1>4, <1>6, <2>3, <2>4, <3>1, <3>2 DEF Aimed
      <3>4. ~ret => a.pod # 0 \/ a.port \notin LBPorts \cup NodePortRange \cup {ProxyPort}
        BY Zenon, <1>4, <2>4, <3>1 DEF Returns, Shadowed
      <3> QED
        BY Zenon, <1>8, <2>1, <2>4, <3>1, <3>3, <3>4
    <2>6. CASE /\ route = [dial |-> NodeAddress(EndpointList[i].node, dst.v6, ProxyPort),
                           tunnelTarget |-> EndpointAddress(i)]
               /\ EndpointList[i].node \in s.known
      <3>1. /\ ProxyPort \in Nat /\ dst.v6 \in Families /\ EndpointList[i].node \in Nodes
        BY Zenon, <1>2, <2>6, EdgeAssumption DEF Cluster
      <3>2. PICK b \in Address :
              /\ b = NodeAddress(EndpointList[i].node, dst.v6, ProxyPort) /\ b # Nothing /\ b.pod = 0
              /\ b.node = EndpointList[i].node /\ b.v6 = dst.v6 /\ b.port = ProxyPort
        BY <3>1, NodeFields
      <3>3. route.dial = b /\ tt = a /\ to = b
        BY Zenon, <1>5, <2>4, <2>6, <3>2, RouteFields
      <3>4. Aimed'
        BY Zenon, <1>4, <1>6, <2>3, <2>4, <3>1, <3>2, <3>3 DEF Aimed
      <3> QED
        BY Zenon, <1>2, <1>8, <2>4, <3>1, <3>2, <3>3, <3>4
    <2> QED
      BY Zenon, <1>11, <2>5, <2>6 DEF Takes
  <1> QED
    BY Zenon, <1>3, <1>9, <1>10, <1>11, RouteTakes

\* The endpoint that a served connection reached.
LEMMA ServedStep ==
  ASSUME RouteInv, conn.state = "dialling", Steers("served", conn.at),
         \/ conn.dst.pod # 0
         \/ /\ conn.dst.node = conn.at /\ conn.dst.port \notin NodePorts \cup {ProxyPort}
            /\ \E i \in Endpoints : EndpointAddress(i) = conn.dst
  PROVE  ServedRight'
  <1>1. Travelling /\ Aimed
    BY Zenon DEF RouteInv, Travelling
  <1>2. SUFFICES ASSUME NEW i \in Endpoints, EndpointAddress(i) = conn.dst,
                        EndpointList[i].v6 = conn.v6, Near(i),
                        i \in conn.by.ready \/ conn.asIs,
                        \/ /\ EndpointList[i].svc = conn.svc.name
                           /\ servicePortMatchesEndpoint(conn.svc, EndpointList[i])
                        \/ conn.asIs \/ conn.shared
                 PROVE  ServedRight'
    <2>1. CASE \E i \in Endpoints : conn.dst = EndpointAddress(i) /\ Picked(i) /\ Near(i)
      BY Zenon, <1>2, <2>1 DEF Picked, matchingEndpoints
    <2>2. CASE conn.asIs /\ conn.dst.node = conn.at /\ \E i \in Endpoints : EndpointAddress(i) = conn.dst
      <3>1. PICK i \in Endpoints : EndpointAddress(i) = conn.dst
        BY Zenon, <2>2
      <3>2. EndpointList[i].v6 = conn.v6 /\ EndpointList[i].node = conn.at
        BY Zenon, <1>1, <2>2, <3>1, EndpointFields DEF Travelling
      <3> QED
        BY Zenon, <1>2, <2>2, <3>1, <3>2 DEF Near
    <2> QED
      BY Zenon, <1>1, <2>1, <2>2 DEF Aimed
  <1>3. Near(i)' /\ servicePortMatchesEndpoint(conn'.svc, EndpointList[i]) =
                    servicePortMatchesEndpoint(conn.svc, EndpointList[i])
    BY Zenon, <1>2 DEF Near, Steers
  <1> QED
    BY Zenon, <1>2, <1>3 DEF ServedRight, Steers, Near

LEMMA DialStep ==
  ASSUME RouteInv, Dial
  PROVE  RouteInv'
  <1>1. conn \in Connection /\ conn.state = "dialling" /\ Travelling /\ Once /\ Aimed
    BY Zenon DEF RouteInv, RoutesTypeOK, Dial, Travelling
  <1>2. PICK dst \in Address :
          /\ dst = conn.dst /\ dst.v6 = conn.v6 /\ (dst.pod = 0 => dst.node \in Nodes)
          /\ dst.node \in Nodes \cup {Nothing}
    BY Zenon, <1>1, AddressTypes DEF Travelling
  <1>3. /\ conn.at \in Nodes /\ conn.svc \in ServicePorts /\ conn.v6 \in Families
        /\ conn.by \in Cluster
    BY Zenon, <1>1 DEF Travelling
  <1>4. ASSUME conn' \in Connection, conn'.state # "idle" => Travelling', Once', ServedRight'
        PROVE  RouteInv'
    BY Zenon, <1>4 DEF Dial, RouteInv, RoutesTypeOK
  <1>5. CASE Redirects(snap[conn.at], dst)
    <2>1. Steers("accepted", conn.at)
      BY Zenon, <1>1, <1>2, <1>5, Steered DEF Dial, States
    <2>2. dst.pod = 0 /\ dst.node \in Nodes /\ dst.port \in LBPorts
      BY Zenon, <1>5, RedirectedAddress
    <2>3. conn.returns
      BY Zenon, <1>1, <1>2, <2>2, Ports DEF Once
    <2>4. Travelling' /\ Once' /\ ServedRight'
      BY Zenon, <1>2, <1>3, <2>1, <2>2, <2>3 DEF Travelling, Once, ServedRight, Steers
    <2> QED
      BY Zenon, <1>4, <2>1, <2>4 DEF Steers
  <1>6. ASSUME Steers("served", conn.at),
               \/ dst.pod # 0
               \/ /\ dst.node = conn.at /\ dst.port \notin NodePorts \cup {ProxyPort}
                  /\ \E i \in Endpoints : EndpointAddress(i) = dst
        PROVE  RouteInv'
    <2>1. ServedRight'
      BY Zenon, <1>1, <1>2, <1>6, ServedStep
    <2>2. Travelling' /\ Once'
      BY Zenon, <1>1, <1>2, <1>3, <1>6 DEF Travelling, Once, Steers
    <2> QED
      BY Zenon, <1>4, <1>6, <2>1, <2>2 DEF Steers
  <1>7. CASE ~Redirects(snap[conn.at], dst) /\ dst.pod # 0
    BY Zenon, <1>1, <1>2, <1>6, <1>7, Steered DEF Dial, States
  <1>8. CASE ~Redirects(snap[conn.at], dst) /\ dst.pod = 0 /\ dst.port = ProxyPort
    <2>1. Steers("tunnelled", dst.node)
      BY Zenon, <1>1, <1>2, <1>8, Steered DEF Dial, States
    <2>2. \A i \in Endpoints : dst # EndpointAddress(i)
      BY Zenon, <1>8, EndpointFields
    <2>3. PICK i \in Endpoints : /\ conn.tunnel = EndpointAddress(i) /\ Picked(i) /\ ~conn.asIs
                                 /\ EndpointList[i].node = dst.node /\ dst.node \in Nodes
      BY Zenon, <1>1, <1>2, <1>8, <2>2, Ports DEF Aimed
    <2>4. Picked(i)'
      BY Zenon, <2>1, <2>3, PickedKept DEF Steers
    <2>5. Travelling' /\ ServedRight'
      BY Zenon, <1>2, <1>3, <2>1, <2>3, <2>4 DEF Travelling, ServedRight, Steers
    <2>6. Once'
      BY Zenon, <1>1, <1>2, <1>8, <2>1, Ports DEF Once, Steers
    <2> QED
      BY Zenon, <1>4, <2>1, <2>5, <2>6 DEF Steers
  <1>9. CASE ~Redirects(snap[conn.at], dst) /\ dst.pod = 0 /\ dst.port # ProxyPort /\ dst.node # conn.at
    <2>1. Steers("arriving", dst.node)
      BY Zenon, <1>1, <1>2, <1>9, Steered DEF Dial, States
    <2>2. Travelling' /\ ServedRight'
      BY Zenon, <1>2, <1>3, <1>9, <2>1 DEF Travelling, ServedRight, Steers
    <2>3. Once'
      BY Zenon, <1>1, <1>2, <1>9, <2>1 DEF Once, Steers
    <2> QED
      BY Zenon, <1>4, <2>1, <2>2, <2>3 DEF Steers
  <1>10. ASSUME NEW x \in {"kube-proxy", "lost"}, Steers(x, conn.at)
         PROVE  RouteInv'
    <2>1. Travelling' /\ ServedRight' /\ Once'
      BY Zenon, <1>1, <1>2, <1>3, <1>10 DEF Travelling, ServedRight, Once, Steers
    <2> QED
      BY Zenon, <1>4, <1>10, <2>1 DEF Steers
  <1>11. CASE /\ ~Redirects(snap[conn.at], dst) /\ dst.pod = 0 /\ dst.port # ProxyPort
              /\ dst.node = conn.at
    <2>1. CASE dst.port \in NodePorts
      BY Zenon, <1>1, <1>2, <1>10, <1>11, <2>1, Steered DEF Dial, States
    <2>2. CASE dst.port \notin NodePorts /\ \E i \in Endpoints : EndpointAddress(i) = dst
      BY Zenon, <1>1, <1>2, <1>6, <1>11, <2>2, Steered DEF Dial, States
    <2>3. CASE dst.port \notin NodePorts /\ ~\E i \in Endpoints : EndpointAddress(i) = dst
      BY Zenon, <1>1, <1>2, <1>10, <1>11, <2>3, Steered DEF Dial, States
    <2> QED
      BY Zenon, <2>1, <2>2, <2>3
  <1> QED
    BY Zenon, <1>5, <1>7, <1>8, <1>9, <1>11

LEMMA HandleTunnelStep ==
  ASSUME RouteInv, handleTunnel
  PROVE  RouteInv'
  <1>1. /\ conn \in Connection /\ conn.state = "tunnelled" /\ Travelling /\ Once
        /\ conn.hops < MaxHops
    BY Zenon DEF RouteInv, RoutesTypeOK, handleTunnel
  <1>2. PICK i \in Endpoints : /\ conn.tunnel = EndpointAddress(i) /\ Picked(i) /\ ~conn.asIs
                               /\ EndpointList[i].node = conn.at
    BY Zenon, <1>1 DEF Travelling
  <1>3. /\ conn.at \in Nodes /\ conn.svc \in ServicePorts /\ conn.v6 \in Families
        /\ conn.by \in Cluster /\ conn.dst \in Address /\ conn.dst.v6 = conn.v6
    BY Zenon, <1>1 DEF Travelling
  <1>4. CASE conn.tunnel \notin allowedTargets(snap[conn.at], conn.at)
    <2>1. Steers("refused", conn.at)
      BY Zenon, <1>1, <1>4, Steered DEF handleTunnel, States
    <2>2. Travelling' /\ ServedRight' /\ Once'
      BY Zenon, <1>1, <1>3, <2>1 DEF Travelling, ServedRight, Once, Steers
    <2>3. RoutesTypeOK'
      BY Zenon, <2>1 DEF handleTunnel, RouteInv, RoutesTypeOK, Steers
    <2> QED
      BY Zenon, <2>2, <2>3 DEF RouteInv
  <1>5. CASE conn.tunnel \in allowedTargets(snap[conn.at], conn.at)
    <2>1. PICK a \in Address :
            /\ a = EndpointAddress(i) /\ a.node = EndpointList[i].node
            /\ a.v6 = EndpointList[i].v6 /\ a.port = EndpointList[i].port
            /\ a.pod = 0 => EndpointList[i].host /\ a.node \in Nodes /\ a.port # ProxyPort
      BY Zenon, EndpointFields
    <2>2. PICK ret \in BOOLEAN : ret = (conn.returns \/ Shadowed(a))
      BY Zenon
    <2>3. conn' = [conn EXCEPT !.state = "dialling", !.dst = a, !.tunnel = Nothing,
                               !.hops = conn.hops + 1, !.returns = ret]
      BY Zenon, <1>2, <1>5, <2>1, <2>2 DEF handleTunnel
    <2>4. conn.hops + 1 \in 0 .. MaxHops
      BY <1>1, EdgeAssumption, ConnFields
    <2>5. conn' \in Connection
      BY Zenon, <1>1, <2>3, <2>4 DEF Connection
    <2>6. /\ conn'.state = "dialling" /\ conn'.dst = a /\ conn'.tunnel = Nothing
          /\ conn'.hops = conn.hops + 1 /\ conn'.returns = ret /\ conn'.at = conn.at
          /\ conn'.svc = conn.svc /\ conn'.v6 = conn.v6 /\ conn'.by = conn.by
          /\ conn'.asIs = conn.asIs /\ conn'.shared = conn.shared
      BY Zenon, <1>1, <2>3 DEF Connection
    <2>7. Picked(i)' /\ Near(i)'
      BY Zenon, <1>2, <2>6, PickedKept DEF Near
    <2>8. Aimed'
      BY Zenon, <1>2, <2>1, <2>6, <2>7 DEF Aimed
    <2>9. a.v6 = conn.v6
      BY Zenon, <1>2, <2>1 DEF Picked, matchingEndpoints
    <2>10. Travelling' /\ ServedRight'
      BY Zenon, <1>3, <2>1, <2>6, <2>8, <2>9 DEF Travelling, ServedRight
    <2>11. ~ret => conn'.hops <= 2
      <3>1. ~ret => conn.hops = 1
        BY Zenon, <1>1, <2>2 DEF Once
      <3> QED
        BY <2>6, <3>1
    <2>12. ~ret => a.pod # 0 \/ a.port \notin LBPorts \cup NodePortRange \cup {ProxyPort}
      BY Zenon, <2>1, <2>2 DEF Shadowed
    <2>13. Once'
      BY Zenon, <2>6, <2>11, <2>12 DEF Once
    <2>14. RoutesTypeOK'
      BY Zenon, <2>5 DEF handleTunnel, RouteInv, RoutesTypeOK
    <2> QED
      BY Zenon, <2>10, <2>13, <2>14 DEF RouteInv
  <1> QED
    BY Zenon, <1>4, <1>5

-----------------------------------------------------------------------------
(* The invariant.                                                          *)

LEMMA RoutesInitInv == RoutesInit => RouteInv
  <1> SUFFICES ASSUME RoutesInit PROVE RouteInv
    OBVIOUS
  <1>1. 0 \in 0 .. MaxHops /\ 0 \in 0 .. MaxMoves /\ 0 <= 2
    BY EdgeAssumption
  <1>2. conn \in Connection /\ conn.state = "idle" /\ conn.hops = 0
    BY Zenon, <1>1 DEF RoutesInit, Free, Connection
  <1>3. snap \in [Nodes -> Cluster]
    BY Zenon DEF RoutesInit
  <1> QED
    BY Zenon, <1>1, <1>2, <1>3 DEF RoutesInit, RouteInv, RoutesTypeOK, Once, ServedRight

\* Changes of the cluster and reads of it leave the connection alone.
LEMMA ClusterSteps ==
  ASSUME RouteInv, ChangeCluster \/ \E n \in Nodes : Sync(n) \/ SyncNothing(n)
  PROVE  RouteInv'
  <1>1. RoutesTypeOK
    BY Zenon DEF RouteInv
  <1>2. UNCHANGED conn
    BY Zenon DEF ChangeCluster, Sync, SyncNothing
  <1>3. moves' \in 0 .. MaxMoves
    <2>1. moves \in 0 .. MaxMoves /\ (moves' = moves \/ (moves < MaxMoves /\ moves' = moves + 1))
      BY Zenon, <1>1 DEF RoutesTypeOK, ChangeCluster, Sync, SyncNothing
    <2> QED
      BY <2>1, EdgeAssumption
  <1>4. cluster' \in Cluster
    BY Zenon, <1>1 DEF RoutesTypeOK, ChangeCluster, Sync, SyncNothing
  <1>5. snap' \in [Nodes -> Cluster]
    <2>1. snap' = snap \/ \E n \in Nodes, s \in Cluster : snap' = [snap EXCEPT ![n] = s]
      BY Zenon, <1>1, SnapshotType DEF RoutesTypeOK, ChangeCluster, Sync, SyncNothing
    <2> QED
      BY Zenon, <1>1, <2>1 DEF RoutesTypeOK
  <1> QED
    BY Zenon, <1>2, <1>3, <1>4, <1>5, ConnKept DEF RouteInv, RoutesTypeOK

LEMMA RoutesNextInv == RouteInv /\ [RoutesNext]_routeVars => RouteInv'
  <1> SUFFICES ASSUME RouteInv, [RoutesNext]_routeVars PROVE RouteInv'
    OBVIOUS
  <1>1. CASE UNCHANGED routeVars
    BY Zenon, <1>1, ConnKept DEF RouteInv, RoutesTypeOK, routeVars
  <1> QED
    BY Zenon, <1>1, ConnectStep, ArriveStep, HandleConnStep, DialStep, HandleTunnelStep, ClusterSteps
    DEF RoutesNext

LEMMA RoutesKeepInv == RoutesSpec => []RouteInv
  BY RoutesInitInv, RoutesNextInv, PTL DEF RoutesSpec

\* However many nodes, Services and endpoints there are, the tables, the snapshots and the
\* connection keep their types.
THEOREM RouteTypes == RoutesSpec => []RoutesTypeOK
  <1>1. RouteInv => RoutesTypeOK
    BY Zenon DEF RouteInv
  <1> QED
    BY <1>1, RoutesKeepInv, PTL

\* handleConn and handleTunnel pass a connection through two proxies at most, whatever
\* snapshots the proxies have read, unless one of them dials what the redirect rules of
\* syncRules do send back.
THEOREM NoLoops == RoutesSpec => []NoProxyLoop
  <1>1. RouteInv => NoProxyLoop
    <2> SUFFICES ASSUME RouteInv, conn.hops > 2, ~conn.returns PROVE FALSE
      BY Zenon DEF NoProxyLoop
    <2>1. conn.hops \in 0 .. MaxHops /\ conn.hops <= 2
      BY Zenon, ConnFields DEF RouteInv, RoutesTypeOK, Once
    <2> QED
      BY <2>1, EdgeAssumption
  <1> QED
    BY <1>1, RoutesKeepInv, PTL

\* The endpoint a connection ends at is of its family, local to the proxy that dialled it,
\* and a ready one of the Service the client asked for, with the exceptions that the
\* property names (backendRoute's address without a route, a rival Service).
THEOREM EndsWhereItShould == RoutesSpec => []ServedRight
  <1>1. RouteInv => ServedRight
    BY Zenon DEF RouteInv
  <1> QED
    BY <1>1, RoutesKeepInv, PTL

\* handleTunnel refuses a target that routeFor chose only if the two proxies' snapshots
\* differ: every target routeFor takes is one allowLocalTargets allows on its node.
THEOREM TunnelsMeet == RoutesSpec => TunnelsAgree
  <1>1. ASSUME RouteInv, [RoutesNext]_routeVars, conn.state = "tunnelled", conn'.state = "refused",
               conn.by = snap[conn.at]
        PROVE  FALSE
    <2>1. handleTunnel
      BY Zenon, <1>1
      DEF RoutesNext, routeVars, Connect, Arrive, handleConn, Dial, ChangeCluster, Sync, SyncNothing
    <2>2. conn \in Connection /\ Travelling
      BY Zenon, <1>1 DEF RouteInv, RoutesTypeOK
    <2>3. PICK i \in Endpoints : /\ conn.tunnel = EndpointAddress(i) /\ Picked(i)
                                 /\ EndpointList[i].node = conn.at
      BY Zenon, <1>1, <2>2 DEF Travelling
    <2>4. EndpointAddress(i) \in allowedTargets(conn.by, conn.at)
      BY Zenon, <2>2, <2>3 DEF Travelling, Picked, allowedTargets
    <2>5. conn'.state = "dialling"
      BY Zenon, <1>1, <2>1, <2>2, <2>3, <2>4 DEF handleTunnel, Connection
    <2> QED
      BY Zenon, <1>1, <2>5
  <1>2. RouteInv /\ [RoutesNext]_routeVars =>
          [conn.state = "tunnelled" /\ conn'.state = "refused" => conn.by # snap[conn.at]]_routeVars
    BY Zenon, <1>1
  <1> QED
    BY <1>2, RoutesKeepInv, PTL DEF RoutesSpec, TunnelsAgree

=============================================================================
