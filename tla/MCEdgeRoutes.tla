---------------------------- MODULE MCEdgeRoutes ----------------------------
(***************************************************************************)
(* Instances of EdgeRoutes for TLC.                                        *)
(***************************************************************************)
EXTENDS EdgeRoutes

CONSTANTS n1, n2

Named(name) == [set |-> TRUE, int |-> 0, str |-> name]
Unset == [set |-> FALSE, int |-> 0, str |-> ""]

Service(name, port, nodePort, target) ==
  [name |-> name, port |-> port, nodePort |-> nodePort, target |-> target]
Endpoint(svc, node, v6, host, port) ==
  [svc |-> svc, node |-> node, v6 |-> v6, host |-> host, port |-> port,
   name |-> "http", tcp |-> TRUE]

\* A dual-stack Service with a named port, and one without a NodePort
\* (allocateLoadBalancerNodePorts: false), with a pod on the host's network that
\* listens on the Service's own port.
TwoServices == {Service("web", 80, 30080, Named("http")), Service("api", 80, 0, Unset)}
TwoEndpoints == << Endpoint("web", n1, FALSE, FALSE, 8080),
                   Endpoint("web", n2, TRUE, FALSE, 8080),
                   Endpoint("api", n2, FALSE, TRUE, 80) >>

=============================================================================
