---------------------------- MODULE KiacLBProofs ----------------------------
(***************************************************************************)
(* Proofs about KiacLB, for any cluster: the type invariant, that two      *)
(* Services nobody edits never collide on an address, and that a pass      *)
(* leaves a Service on an address it found eligible.                       *)
(***************************************************************************)
EXTENDS KiacLB, TLAPS

LEMMA FreeIsEligible ==
  ASSUME NEW s, NEW f, NEW eps, NEW ip \in Wanted(s, f, eps)
  PROVE  is_eligible_ip(ip) /\ (ip \in svcs[s] \/ ~conflicts(ip, svcPorts[s]))
BY DEF Wanted, Kept, choose_addr, FreeOn, is_eligible_ip

\* Every variable of the model keeps its type.
THEOREM TypeCorrect == Spec => []TypeOK
<1>1. Init => TypeOK
  BY LBAssumption DEF Init, TypeOK
<1>2. TypeOK /\ [Next]_vars => TypeOK'
  <2> SUFFICES ASSUME TypeOK, [Next]_vars PROVE TypeOK'
    OBVIOUS
  <2> USE DEF TypeOK
  <2>1. CASE ReadNodes
    BY <2>1 DEF ReadNodes, eligible_nodes, cluster
  <2>2. CASE ReadServices
    <3>1. used' \subseteq IPs \X Ports
      BY <2>2 DEF ReadServices, claim
    <3>2. svcs' \in [Services -> SUBSET IPs]
      BY <2>2 DEF ReadServices
    <3> QED BY <2>2, <3>1, <3>2 DEF ReadServices, cluster
  <2>3. ASSUME NEW s \in Services, SweepService(s) PROVE TypeOK'
    <3>1. PICK want \in SUBSET IPs :
            /\ used' = used \cup UNION {claim(ip, svcPorts[s]) : ip \in want}
            /\ \/ patch_svc(s, want) /\ UNCHANGED changes
               \/ changes > 0 /\ changes' = changes - 1 /\ UNCHANGED ingress
      BY <2>3 DEF SweepService
    <3>2. used' \subseteq IPs \X Ports
      BY <3>1 DEF claim
    <3>3. ingress' \in [Services -> SUBSET IPs] /\ changes' \in Nat
      BY <3>1 DEF patch_svc
    <3> QED BY <2>3, <3>2, <3>3 DEF SweepService, cluster
  <2>4. CASE EndPass
    BY <2>4 DEF EndPass, cluster, files
  <2>5. CASE Restart
    BY <2>5 DEF Restart, cluster, files
  <2>6. ASSUME NEW n \in Nodes, NodeFails(n) \/ NodeReturns(n) PROVE TypeOK'
    <3>1. addrs' \in [Nodes -> SUBSET IPs] /\ ready' \in [Nodes -> BOOLEAN]
      BY ZenonT(30), <2>6 DEF NodeFails, NodeReturns
    <3> QED BY <2>6, <3>1 DEF NodeFails, NodeReturns, files
  <2>7. ASSUME NEW s \in Services, CreateService(s) \/ DeleteService(s) \/ EditPorts(s) PROVE TypeOK'
    BY <2>7 DEF CreateService, DeleteService, EditPorts, files
  <2>8. CASE UNCHANGED vars
    BY <2>8 DEF vars
  <2> QED BY <2>1, <2>2, <2>3, <2>4, <2>5, <2>6, <2>7, <2>8 DEF Next, PassStep
<1> QED BY <1>1, <1>2, PTL DEF Spec

-----------------------------------------------------------------------------
(* The claims of a sweep.  A step that changes neither the holdings nor    *)
(* what they are compared with keeps the invariant; a sweep either keeps a *)
(* holding or adds one that no claim collides with.                        *)

LEMMA Initially == Init => ClaimsCover
BY DEF Init, ClaimsCover, Holds

LEMMA ReadKeeps ==
  ASSUME TypeOK, ClaimsCover, ReadNodes \/ ReadServices PROVE ClaimsCover'
<1>1. CASE ReadNodes
  <2>1. /\ pc # "sweep" /\ pc' # "sweep" /\ live' = live /\ ingress' = ingress
        /\ ports' = ports /\ edited' = edited
    BY <1>1 DEF ReadNodes, cluster
  <2> QED BY <2>1 DEF ClaimsCover, Holds
<1>2. CASE ReadServices
  <2>1. /\ pc # "sweep" /\ pc' = "sweep" /\ live' = live /\ ingress' = ingress
        /\ ports' = ports /\ nodes' = nodes /\ svcPorts' = ports /\ todo' = live /\ edited' = edited
        /\ svcs' = [s \in Services |-> IF s \in live THEN ingress[s] ELSE {}]
    BY <1>2 DEF ReadServices, cluster
  <2>2. \A ip : is_eligible_ip(ip)' <=> is_eligible_ip(ip)
    BY <2>1 DEF is_eligible_ip
  <2>3. ASSUME NEW s \in Services, NEW ip \in IPs
        PROVE  Holds(s, ip)' <=> s \in live /\ ip \in ingress[s]
    BY <2>1 DEF Holds, TypeOK
  <2>4. ASSUME NEW s \in Services, NEW ip \in IPs, Holds(s, ip)', is_eligible_ip(ip)'
        PROVE  claim(ip, ports[s]) \subseteq used'
    BY <1>2, <2>2, <2>3, <2>4 DEF ReadServices
  <2>5. ASSUME NEW s \in Services \ edited, NEW t \in Services \ edited, NEW ip \in IPs, s # t,
               Holds(s, ip)', Holds(t, ip)'
        PROVE  ports[s] \cap ports[t] = {}
    BY <2>3, <2>5 DEF ClaimsCover, Holds
  <2> QED BY <2>1, <2>4, <2>5 DEF ClaimsCover, claim
<1> QED BY <1>1, <1>2

LEMMA SweepKeeps ==
  ASSUME TypeOK, ClaimsCover, NEW s \in Services, SweepService(s) PROVE ClaimsCover'
<1>1. /\ pc = "sweep" /\ pc' = "sweep" /\ live' = live /\ ports' = ports /\ nodes' = nodes
      /\ svcs' = svcs /\ svcPorts' = svcPorts /\ s \in todo /\ todo' = todo \ {s} /\ edited' = edited
  BY DEF SweepService, cluster
<1>2. PICK eps \in SUBSET Nodes : \E want \in SUBSET IPs :
        /\ \A ip \in want : Family[ip] \in svc_families(s)
        /\ \A f \in svc_families(s) :
             LET chosen == {ip \in want : Family[ip] = f}
             IN  IF Wanted(s, f, eps) = {} THEN chosen = {}
                 ELSE \E ip \in Wanted(s, f, eps) : chosen = {ip}
        /\ used' = used \cup UNION {claim(ip, svcPorts[s]) : ip \in want}
        /\ \/ patch_svc(s, want) \/ UNCHANGED ingress
  BY ZenonT(30) DEF SweepService
<1>3. PICK want \in SUBSET IPs :
        /\ \A ip \in want : Family[ip] \in svc_families(s)
        /\ \A f \in svc_families(s) :
             LET chosen == {ip \in want : Family[ip] = f}
             IN  IF Wanted(s, f, eps) = {} THEN chosen = {}
                 ELSE \E ip \in Wanted(s, f, eps) : chosen = {ip}
        /\ used' = used \cup UNION {claim(ip, svcPorts[s]) : ip \in want}
        /\ \/ patch_svc(s, want) \/ UNCHANGED ingress
  BY ZenonT(30), <1>2
<1>4. \A ip : is_eligible_ip(ip)' <=> is_eligible_ip(ip)
  BY <1>1 DEF is_eligible_ip
<1>5. \A t \in Services \ edited : svcPorts[t] = ports[t]
  BY <1>1 DEF ClaimsCover
<1>6. ASSUME NEW ip \in want
      PROVE  is_eligible_ip(ip) /\ (ip \in svcs[s] \/ claim(ip, svcPorts[s]) \cap used = {})
  <2>1. ip \in Wanted(s, Family[ip], eps)
    <3>1. Family[ip] \in svc_families(s)
      BY <1>3
    <3>2. IF Wanted(s, Family[ip], eps) = {} THEN {x \in want : Family[x] = Family[ip]} = {}
          ELSE \E y \in Wanted(s, Family[ip], eps) : {x \in want : Family[x] = Family[ip]} = {y}
      BY <1>3, <3>1
    <3>3. ip \in {x \in want : Family[x] = Family[ip]}
      BY <1>6
    <3> QED BY <3>2, <3>3
  <2> QED BY <2>1, FreeIsEligible DEF conflicts
<1>7. \A t \in Services : ingress'[t] = ingress[t] \/ (t = s /\ ingress'[t] = want)
  BY <1>3 DEF patch_svc, TypeOK
<1>8. ASSUME NEW t \in Services, NEW ip \in IPs, Holds(t, ip)'
      PROVE  Holds(t, ip) \/ (t = s /\ ip \in want)
  BY <1>1, <1>4, <1>7, <1>8 DEF Holds
<1>9. ASSUME NEW ip \in want, s \notin edited PROVE claim(ip, ports[s]) \subseteq used'
  BY <1>3, <1>5, <1>9
<1>10. ASSUME NEW t \in Services \ edited, NEW ip \in IPs, Holds(t, ip)', is_eligible_ip(ip)'
       PROVE  claim(ip, ports[t]) \subseteq used'
  BY <1>1, <1>3, <1>4, <1>8, <1>9, <1>10 DEF ClaimsCover
<1>11. ASSUME NEW t \in Services \ edited, NEW ip \in want, t # s, s \notin edited, Holds(t, ip)
       PROVE  ports[s] \cap ports[t] = {}
  <2>1. CASE ip \in svcs[s]
    BY <1>1, <1>6, <1>11, <2>1 DEF ClaimsCover, Holds
  <2>2. CASE claim(ip, svcPorts[s]) \cap used = {}
    <3>1. claim(ip, ports[t]) \subseteq used
      BY <1>1, <1>6, <1>11 DEF ClaimsCover
    <3>2. svcPorts[s] = ports[s]
      BY <1>5, <1>11
    <3> QED BY ZenonT(30), <2>2, <3>1, <3>2 DEF claim
  <2> QED BY <1>6, <2>1, <2>2
<1>12. ASSUME NEW t \in Services \ edited, NEW u \in Services \ edited, NEW ip \in IPs, t # u,
              Holds(t, ip)', Holds(u, ip)'
       PROVE  ports[t] \cap ports[u] = {}
  <2>1. CASE Holds(t, ip) /\ Holds(u, ip)
    BY <1>12, <2>1 DEF ClaimsCover
  <2>2. CASE t = s /\ ip \in want
    BY <1>8, <1>11, <1>12, <2>2
  <2>3. CASE u = s /\ ip \in want
    BY <1>8, <1>11, <1>12, <2>3
  <2> QED BY <1>8, <1>12, <2>1, <2>2, <2>3
<1> QED BY <1>1, <1>5, <1>10, <1>12 DEF ClaimsCover, claim

\* Steps after which every holding of a Service nobody edited was one before, and is
\* compared with the same claims.
LEMMA FewerKeeps ==
  ASSUME TypeOK, ClaimsCover, nodes' = nodes, svcs' = svcs, svcPorts' = svcPorts,
         used' = used, todo' = todo, pc' = "sweep" => pc = "sweep", edited \subseteq edited',
         \A s \in Services \ edited' : ports'[s] = ports[s],
         \A s \in Services : \A ip \in ingress'[s] : s \in live' => s \in live /\ ip \in ingress[s]
  PROVE  ClaimsCover'
<1>1. \A ip : is_eligible_ip(ip)' <=> is_eligible_ip(ip)
  BY DEF is_eligible_ip
<1>2. ASSUME NEW s \in Services, NEW ip \in IPs, Holds(s, ip)' PROVE Holds(s, ip)
  BY <1>1, <1>2 DEF Holds
<1> QED BY <1>1, <1>2 DEF ClaimsCover, claim

LEMMA ClusterKeeps ==
  ASSUME TypeOK, ClaimsCover, NEW s \in Services,
         CreateService(s) \/ DeleteService(s) \/ EditPorts(s)
  PROVE  ClaimsCover'
<1>1. \A t \in Services : t \in live' => \/ t \in live /\ ingress'[t] = ingress[t]
                                       \/ ingress'[t] = {}
  BY DEF CreateService, DeleteService, EditPorts, TypeOK
<1>2. edited \subseteq edited' /\ \A t \in Services \ edited' : ports'[t] = ports[t]
  BY DEF CreateService, DeleteService, EditPorts, TypeOK
<1>3. pc' = pc /\ UNCHANGED files
  BY DEF CreateService, DeleteService, EditPorts
<1> QED BY <1>1, <1>2, <1>3, FewerKeeps DEF files

\* No two Services whose ports are not edited ever collide on an address: the code of
\* conflicts and claim, over any number of passes, failures and restarts.
THEOREM NoCollision == Spec => []PortsDisjoint
<1>1. TypeOK /\ ClaimsCover /\ [Next]_vars => ClaimsCover'
  <2> SUFFICES ASSUME TypeOK, ClaimsCover, [Next]_vars PROVE ClaimsCover'
    OBVIOUS
  <2>1. CASE ReadNodes \/ ReadServices
    BY <2>1, ReadKeeps
  <2>2. CASE \E s \in Services : SweepService(s)
    BY <2>2, SweepKeeps
  <2>3. CASE EndPass \/ Restart
    <3>1. ingress' = ingress /\ live' = live /\ pc' = "nodes" /\ ports' = ports /\ edited' = edited
      BY <2>3 DEF EndPass, Restart, cluster
    <3> QED BY <2>3, <3>1, FewerKeeps DEF EndPass, Restart, files
  <2>4. CASE \E n \in Nodes : NodeFails(n) \/ NodeReturns(n)
    <3>1. /\ ingress' = ingress /\ live' = live /\ pc' = pc /\ ports' = ports
          /\ edited' = edited /\ UNCHANGED files
      BY <2>4 DEF NodeFails, NodeReturns
    <3> QED BY <3>1, FewerKeeps DEF files
  <2>5. CASE \E s \in Services : CreateService(s) \/ DeleteService(s) \/ EditPorts(s)
    BY <2>5, ClusterKeeps
  <2>6. CASE UNCHANGED vars
    BY <2>6, FewerKeeps DEF vars
  <2> QED BY <2>1, <2>2, <2>3, <2>4, <2>5, <2>6 DEF Next, PassStep
<1>2. TypeOK /\ ClaimsCover => PortsDisjoint
  BY DEF TypeOK, ClaimsCover, Holds, PortsDisjoint
<1> QED BY <1>1, <1>2, Initially, TypeCorrect, PTL DEF Spec

-----------------------------------------------------------------------------
(* Sticky addresses.  A Service holds at most one address of a family, and *)
(* the line read for it still tells what it holds, so that the address the *)
(* sweep finds eligible is the one the Service has.                        *)

OnePerFamily(S) == \A x, y \in S : Family[x] = Family[y] => x = y

LinesCurrent ==
  /\ \A s \in Services : OnePerFamily(ingress[s])
  /\ pc = "sweep" => \A s \in todo : OnePerFamily(svcs[s]) /\ (s \in live => ingress[s] \subseteq svcs[s])

\* What the sweep wants is one address per requested family.
LEMMA OneWanted ==
  ASSUME TypeOK, NEW s \in Services, SweepService(s)
  PROVE  \E eps \in SUBSET Nodes : \E want \in SUBSET IPs :
           /\ OnePerFamily(want)
           /\ \A f \in svc_families(s) :
                 Wanted(s, f, eps) # {} => \E ip \in want : ip \in Wanted(s, f, eps)
           /\ ingress' = ingress \/ (s \in live /\ ingress' = [ingress EXCEPT ![s] = want])
<1>1. PICK eps \in SUBSET Nodes, want \in SUBSET IPs :
        /\ \A ip \in want : Family[ip] \in svc_families(s)
        /\ \A f \in svc_families(s) :
             LET chosen == {ip \in want : Family[ip] = f}
             IN  IF Wanted(s, f, eps) = {} THEN chosen = {}
                 ELSE \E ip \in Wanted(s, f, eps) : chosen = {ip}
        /\ \/ patch_svc(s, want) \/ UNCHANGED ingress
  BY ZenonT(30) DEF SweepService
<1>2. OnePerFamily(want)
  <2> SUFFICES ASSUME NEW x \in want, NEW y \in want, Family[x] = Family[y] PROVE x = y
    BY DEF OnePerFamily
  <2>1. x \in {ip \in want : Family[ip] = Family[x]} /\ y \in {ip \in want : Family[ip] = Family[x]}
    OBVIOUS
  <2>2. {ip \in want : Family[ip] = Family[x]} = {} \/ \E z : {ip \in want : Family[ip] = Family[x]} = {z}
    BY <1>1
  <2> QED BY <2>1, <2>2
<1>3. ASSUME NEW f \in svc_families(s), Wanted(s, f, eps) # {}
      PROVE  \E ip \in want : ip \in Wanted(s, f, eps)
  <2>1. PICK ip \in Wanted(s, f, eps) : {x \in want : Family[x] = f} = {ip}
    BY <1>1, <1>3
  <2> QED BY <2>1
<1>4. ingress' = ingress \/ (s \in live /\ ingress' = [ingress EXCEPT ![s] = want])
  BY <1>1 DEF patch_svc
<1> QED BY <1>2, <1>3, <1>4

LEMMA LinesStayCurrent == TypeOK /\ LinesCurrent /\ [Next]_vars => LinesCurrent'
<1> SUFFICES ASSUME TypeOK, LinesCurrent, [Next]_vars PROVE LinesCurrent'
  OBVIOUS
<1>1. CASE ReadNodes
  BY <1>1 DEF ReadNodes, LinesCurrent
<1>2. CASE ReadServices
  BY <1>2 DEF ReadServices, cluster, LinesCurrent, OnePerFamily, TypeOK
<1>3. ASSUME NEW s \in Services, SweepService(s) PROVE LinesCurrent'
  <2>1. PICK want \in SUBSET IPs :
          /\ OnePerFamily(want)
          /\ ingress' = ingress \/ (s \in live /\ ingress' = [ingress EXCEPT ![s] = want])
    BY <1>3, OneWanted
  <2>2. \A t \in Services : ingress'[t] = ingress[t] \/ (t = s /\ ingress'[t] = want)
    BY <2>1 DEF TypeOK
  <2>3. pc = "sweep" /\ pc' = "sweep" /\ live' = live /\ svcs' = svcs /\ todo' = todo \ {s}
    BY <1>3 DEF SweepService, cluster
  <2> QED BY <2>1, <2>2, <2>3 DEF LinesCurrent, OnePerFamily, TypeOK
<1>4. CASE EndPass \/ Restart
  BY <1>4 DEF EndPass, Restart, LinesCurrent
<1>5. CASE \E n \in Nodes : NodeFails(n) \/ NodeReturns(n)
  <2>1. UNCHANGED <<ingress, live, pc, svcs, todo>>
    BY <1>5 DEF NodeFails, NodeReturns, files
  <2> QED BY <2>1 DEF LinesCurrent
<1>6. ASSUME NEW s \in Services, CreateService(s) \/ DeleteService(s) PROVE LinesCurrent'
  <2>1. \A t \in Services : ingress'[t] = (IF t = s THEN {} ELSE ingress[t])
    BY ZenonT(30), <1>6 DEF CreateService, DeleteService, TypeOK
  <2>2. \A t \in Services : t # s /\ t \in live' => t \in live
    BY <1>6 DEF CreateService, DeleteService
  <2>3. pc' = pc /\ svcs' = svcs /\ todo' = todo
    BY <1>6 DEF CreateService, DeleteService, files
  <2> QED BY <2>1, <2>2, <2>3 DEF LinesCurrent, OnePerFamily, TypeOK
<1>7. CASE (\E s \in Services : EditPorts(s)) \/ UNCHANGED vars
  <2>1. UNCHANGED <<ingress, live, pc, svcs, todo>>
    BY <1>7 DEF EditPorts, files, vars
  <2> QED BY <2>1 DEF LinesCurrent
<1> QED BY <1>1, <1>2, <1>3, <1>4, <1>5, <1>6, <1>7 DEF Next, PassStep

LEMMA SweepSticks ==
  ASSUME TypeOK, LinesCurrent, NEW s \in Services, SweepService(s),
         NEW t \in live, NEW ip \in ingress[t], is_eligible_ip(ip), Family[ip] \in svc_families(t)
  PROVE  ip \in ingress'[t]
<1>1. PICK eps \in SUBSET Nodes, want \in SUBSET IPs :
           /\ \A f \in svc_families(s) :
                 Wanted(s, f, eps) # {} => \E x \in want : x \in Wanted(s, f, eps)
           /\ ingress' = ingress \/ (s \in live /\ ingress' = [ingress EXCEPT ![s] = want])
  BY ZenonT(30), OneWanted
<1>2. CASE ingress' = ingress \/ t # s
  BY <1>1, <1>2 DEF TypeOK
<1>3. CASE t = s /\ ingress' = [ingress EXCEPT ![s] = want]
  <2>1. ip \in svcs[s] /\ OnePerFamily(svcs[s])
    BY SMTT(30), <1>3 DEF SweepService, LinesCurrent
  <2>2. Wanted(s, Family[ip], eps) = {ip}
    BY <1>3, <2>1 DEF Wanted, Kept, OnePerFamily
  <2>3. ip \in want
    BY <1>1, <1>3, <2>2
  <2> QED BY SMTT(30), <1>3, <2>3 DEF TypeOK
<1> QED BY <1>1, <1>2, <1>3

\* No pass takes a Service off an address it found eligible, whatever happens to the
\* cluster during the pass.
THEOREM Sticky == Spec => StickyAddress
<1>1. Init => LinesCurrent
  BY DEF Init, LinesCurrent, OnePerFamily
<1>2. TypeOK /\ LinesCurrent /\ [Next]_vars =>
        [\A s \in live \cap live' : \A ip \in ingress[s] :
           pc = "sweep" /\ is_eligible_ip(ip) /\ Family[ip] \in svc_families(s) => ip \in ingress'[s]]_vars
  <2> SUFFICES ASSUME TypeOK, LinesCurrent, [Next]_vars, vars' # vars,
                      NEW s \in live \cap live', NEW ip \in ingress[s],
                      pc = "sweep", is_eligible_ip(ip), Family[ip] \in svc_families(s)
               PROVE  ip \in ingress'[s]
    OBVIOUS
  <2>1. CASE \E t \in Services : SweepService(t)
    BY <2>1, SweepSticks
  <2>2. CASE ReadNodes \/ ReadServices \/ EndPass \/ Restart
    BY <2>2 DEF ReadNodes, ReadServices, EndPass, Restart
  <2>3. CASE \E n \in Nodes : NodeFails(n) \/ NodeReturns(n)
    BY <2>3 DEF NodeFails, NodeReturns
  <2>4. CASE \E t \in Services : CreateService(t) \/ DeleteService(t) \/ EditPorts(t)
    <3>1. PICK t \in Services : CreateService(t) \/ DeleteService(t) \/ EditPorts(t)
      BY <2>4
    <3>2. t # s \/ ingress' = ingress
      BY <3>1 DEF CreateService, DeleteService, EditPorts
    <3> QED BY <3>1, <3>2 DEF CreateService, DeleteService, EditPorts, TypeOK
  <2> QED BY <2>1, <2>2, <2>3, <2>4 DEF Next, PassStep
<1> QED BY <1>1, <1>2, LinesStayCurrent, TypeCorrect, PTL DEF Spec, StickyAddress

=============================================================================
