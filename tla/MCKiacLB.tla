------------------------------ MODULE MCKiacLB ------------------------------
(* A small cluster for KiacLB: a control plane 0, a dual-stack worker 1 and *)
(* a worker 2; a dual-stack Service 1 and an IPv4 Service 2 that share a    *)
(* port.                                                                    *)
EXTENDS KiacLB, TLC

CONSTANTS a1, a2, b1, http, https

MCNodes == {0, 1, 2}
MCWorkers == {1, 2}
MCIPs == {a1, a2, b1}
MCFamily == [ip \in MCIPs |-> IF ip = b1 THEN "v6" ELSE "v4"]
MCAddrs == 0 :> {} @@ 1 :> {a1, b1} @@ 2 :> {a2}
MCPorts == 1 :> {http} @@ 2 :> {http, https}
MCDeclared == 1 :> {"v4", "v6"} @@ 2 :> {}
=============================================================================
