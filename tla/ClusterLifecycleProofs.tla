----------------------- MODULE ClusterLifecycleProofs -----------------------
(***************************************************************************)
(* Proofs about creation, deletion, stop and start, for any number of      *)
(* clusters, roles, processes, faults and reboots, as long as no cluster's *)
(* name continues another's with a dash (then List shows a cluster the     *)
(* nodes of the other, and OnlyItsCluster fails).                          *)
(***************************************************************************)
EXTENDS ClusterLifecycle, SequenceTheorems, TLAPS

\* No cluster is named like another with a dash and more after it.  Create does not
\* refuse such a name; the run of LifecyclePrefix shows what it costs.
NoNameContinues == \A c \in Clusters, d \in Clusters : ~HasPrefix(d, c)

-----------------------------------------------------------------------------
(* The inductive invariant.                                                *)

Cleaning == {"cleanupList", "cleanupRemove"}
Building == {"preflight", "stage"} \cup Cleaning

\* What a process does, by its step.
Operation(p) ==
  LET o == op[p]
  IN  \/ pc[p] = "idle" /\ o = NoOp
      \/ pc[p] \in {"check"} \cup Building /\ o.name = "create" /\ o.cluster \in Clusters
         /\ o.kind \in AllKinds
      \/ pc[p] \in {"list", "remove", "forget"} /\ o.name = "delete" /\ o.cluster \in Clusters
      \/ pc[p] = "act" /\ o.name \in {"stop", "start"} /\ o.cluster \in Clusters
         /\ o.node \in NodesOf(o.cluster)

\* A process in a stage is in one of its path.
Staged(p) == pc[p] = "stage" => at[p] # 0

Operations ==
  /\ DOMAIN op = Procs /\ DOMAIN at = Procs
  /\ \A p \in Procs : Operation(p) /\ Staged(p)

\* No other Create and no Delete of the cluster beside a Create.
Exclusive ==
  \A p \in Procs, q \in Procs :
    p # q /\ op[p].name = "create" /\ op[q].cluster = op[p].cluster => op[q].name \in {"stop", "start"}

\* The backend of a creation path.
Home(p) == IF IsGPU(op[p].kind) THEN "krunkit" ELSE "container"

\* A Create past its check: what exists of its cluster it booted itself, on its own
\* backend, and can be reached; the clean-up has found all of it.
Builder(p) ==
  LET c == op[p].cluster
  IN  pc[p] \in Building =>
        /\ c \notin deleted /\ (pc[p] \notin Cleaning => c \notin dirty)
        /\ pc[p] # "preflight" => Reaches(Home(p))
        /\ c \notin blind => \A n \in NodesOf(c), b \in Backends :
             Exists(n, b) => /\ b = Home(p) /\ n \in own[p]
                             /\ pc[p] = "cleanupRemove" => n \in found[p]

\* A Delete past its List: what exists of its cluster was found and can be reached, and
\* nothing is left of it once the nodes are removed.
Remover(p) ==
  LET c == op[p].cluster
  IN  /\ pc[p] = "remove" /\ c \notin blind =>
           \A n \in NodesOf(c), b \in Backends : Exists(n, b) => n \in found[p] /\ Reaches(b)
      /\ pc[p] = "forget" /\ c \notin blind => NodesGone(c)

\* The clean-up and Delete found nodes of their cluster only.
Finder(p) == pc[p] \in {"cleanupRemove", "remove"} => found[p] \subseteq NodesOf(op[p].cluster)

Locals == \A p \in Procs : Builder(p) /\ Remover(p) /\ Finder(p)

\* A cluster that no Create failed to see is on one backend.
OnOne(c) ==
  c \notin blind => \A n \in NodesOf(c), m \in NodesOf(c) :
                      ~(Exists(n, "container") /\ Exists(m, "krunkit"))

\* A failed Create has cleaned up, or is about to.
Neat(c) ==
  c \in dirty /\ c \notin blind =>
    NodesGone(c) \/ \E p \in Procs : op[p].cluster = c /\ pc[p] \in Cleaning

Gone(c) == c \in deleted /\ c \notin blind => c \notin contexts /\ NodesGone(c)

Clean == \A c \in Clusters : OnOne(c) /\ Neat(c) /\ Gone(c)

IInv == TypeOK /\ Operations /\ Exclusive /\ Locals /\ Clean

-----------------------------------------------------------------------------
(* Names.                                                                  *)

\* A node's name gives its cluster back.
LEMMA NodeNames ==
  ASSUME NEW c \in Clusters, NEW r \in Roles
  PROVE  LET n == node(c, r)
         IN  /\ n \in NodesOf(c) /\ n \in Nodes
             /\ clusterNameFromNode(n) = c
             /\ \A d \in Clusters : HasPrefix(n, d) <=> d = c \/ HasPrefix(c, d)
  <1> DEFINE S == STRING \cup {r}
             n == Append(c, r)
  <1>1. c \in Seq(STRING) /\ \A d \in Clusters : d \in Seq(STRING)
    BY Zenon, LifecycleAssumption
  <1>2. c \in Seq(S) /\ \A d \in Clusters : d \in Seq(S)
    BY <1>1, SeqMonotonic
  <1>r. r \in S
    BY Zenon
  <1> HIDE DEF S
  <1>3. /\ n \in Seq(S) /\ Len(n) = Len(c) + 1 /\ \A i \in 1 .. Len(c) : n[i] = c[i]
    BY <1>2, <1>r, AppendProperties
  <1>4. Len(c) \in Nat /\ \A d \in Clusters : Len(d) \in Nat
    BY Zenon, <1>2, LenProperties
  <1> HIDE DEF n
  <1>5. \A i \in 1 .. Len(c) : n[i] \in S
    BY <1>2, <1>3, ElementOfSeq
  <1>6. \A m \in 0 .. Len(c) : SubSeq(n, 1, m) = SubSeq(c, 1, m)
    <2> TAKE m \in 0 .. Len(c)
    <2>1. \A i \in 1 .. m : n[i] \in S /\ c[i] \in S /\ n[i] = c[i]
      BY <1>2, <1>3, <1>4, <1>5
    <2>2. /\ SubSeq(n, 1, m) \in Seq(S) /\ Len(SubSeq(n, 1, m)) = m
          /\ \A i \in 1 .. m : SubSeq(n, 1, m)[i] = n[i]
      <3>1. /\ SubSeq(n, 1, m) \in Seq(S) /\ Len(SubSeq(n, 1, m)) = IF 1 <= m THEN m - 1 + 1 ELSE 0
            /\ \A i \in 1 .. m - 1 + 1 : SubSeq(n, 1, m)[i] = n[1 + i - 1]
        BY <1>4, <2>1, SubSeqProperties
      <3> QED
        BY <1>4, <3>1
    <2>3. /\ SubSeq(c, 1, m) \in Seq(S) /\ Len(SubSeq(c, 1, m)) = m
          /\ \A i \in 1 .. m : SubSeq(c, 1, m)[i] = c[i]
      <3>1. /\ SubSeq(c, 1, m) \in Seq(S) /\ Len(SubSeq(c, 1, m)) = IF 1 <= m THEN m - 1 + 1 ELSE 0
            /\ \A i \in 1 .. m - 1 + 1 : SubSeq(c, 1, m)[i] = c[1 + i - 1]
        BY <1>4, <2>1, SubSeqProperties
      <3> QED
        BY <1>4, <3>1
    <2> QED
      BY <2>1, <2>2, <2>3, SeqEqual
  <1>7. SubSeq(n, 1, Len(c)) = c
    <2>1. SubSeq(c, 1, Len(c)) = c
      BY Zenon, <1>2, SubSeqFull
    <2> QED
      BY <1>4, <1>6, <2>1
  <1>8. clusterNameFromNode(n) = c
    <2>1. Len(n) - 1 = Len(c)
      BY <1>3, <1>4
    <2> QED
      BY Zenon, <1>7, <2>1 DEF clusterNameFromNode
  <1>9. \A d \in Clusters : HasPrefix(n, d) <=> d = c \/ HasPrefix(c, d)
    <2> TAKE d \in Clusters
    <2>1. CASE Len(d) < Len(c)
      <3>1. SubSeq(n, 1, Len(d)) = SubSeq(c, 1, Len(d)) /\ Len(d) < Len(n) /\ d # c
        BY <1>3, <1>4, <1>6, <2>1
      <3> QED
        BY Zenon, <2>1, <3>1 DEF HasPrefix
    <2>2. CASE Len(d) = Len(c)
      <3>1. SubSeq(n, 1, Len(d)) = c /\ Len(d) < Len(n) /\ ~(Len(d) < Len(c))
        BY <1>3, <1>4, <1>7, <2>2
      <3> QED
        BY Zenon, <3>1 DEF HasPrefix
    <2>3. CASE Len(d) > Len(c)
      <3>1. ~(Len(d) < Len(n)) /\ ~(Len(d) < Len(c)) /\ d # c
        BY <1>3, <1>4, <2>3
      <3> QED
        BY Zenon, <3>1 DEF HasPrefix
    <2> QED
      BY <1>4, <2>1, <2>2, <2>3
  <1>10. node(c, r) \in NodesOf(c) /\ node(c, r) \in Nodes
    BY DEF NodesOf, Nodes
  <1> QED
    BY Zenon, <1>8, <1>9, <1>10 DEF n, node

LEMMA NodeCluster ==
  /\ \A c \in Clusters : \A n \in NodesOf(c) : n \in Nodes /\ clusterNameFromNode(n) = c
  /\ \A n \in Nodes : clusterNameFromNode(n) \in Clusters /\ n \in NodesOf(clusterNameFromNode(n))
  <1>1. \A c \in Clusters : \A n \in NodesOf(c) : n \in Nodes /\ clusterNameFromNode(n) = c
    <2> TAKE c \in Clusters
    <2> TAKE n \in NodesOf(c)
    <2>1. PICK r \in Roles : n = node(c, r)
      BY DEF NodesOf
    <2> QED
      BY Zenon, <2>1, NodeNames
  <1>2. \A n \in Nodes : \E c \in Clusters : n \in NodesOf(c)
    BY DEF Nodes
  <1> QED
    BY Zenon, <1>1, <1>2

\* Without names that continue others, List shows a cluster's own nodes.
LEMMA MatchingIsOwn ==
  ASSUME NoNameContinues
  PROVE  \A c \in Clusters : Matching[c] = NodesOf(c)
  <1> SUFFICES ASSUME NEW c \in Clusters PROVE Matching[c] = NodesOf(c)
    BY Zenon
  <1>1. Matching[c] = {n \in Nodes : HasPrefix(n, c)}
    BY Zenon DEF Matching
  <1>2. ASSUME NEW n \in Nodes PROVE HasPrefix(n, c) <=> n \in NodesOf(c)
    <2>1. PICK d \in Clusters : n \in NodesOf(d) /\ clusterNameFromNode(n) = d
      BY Zenon, NodeCluster
    <2>2. PICK r \in Roles : n = node(d, r)
      BY <2>1 DEF NodesOf
    <2>3. HasPrefix(n, c) <=> c = d
      BY Zenon, <2>2, NodeNames DEF NoNameContinues
    <2> QED
      BY Zenon, <2>1, <2>3, NodeCluster
  <1>3. NodesOf(c) \subseteq Nodes
    BY Zenon, NodeCluster
  <1> QED
    BY Zenon, <1>1, <1>2, <1>3

-----------------------------------------------------------------------------
(* The creation paths.                                                     *)

\* What a path's stages are relied on for: a last stage that writes the kubeconfig, and
\* no two stages in a row that boot.
Path(s) ==
  /\ Len(s) \in Nat /\ 1 <= Len(s)
  /\ \A i \in 1 .. Len(s) :
       /\ s[i].on \subseteq Roles
       /\ (s[i].do # "config" => i + 1 \in 1 .. Len(s))
       /\ (s[i].do = "boot" => s[i + 1].do # "boot")

LEMMA Paths == \A k \in AllKinds : Path(Stages[k])
  <1>a. Agents \subseteq Roles /\ {"control-plane"} \subseteq Roles
    BY Zenon, LifecycleAssumption DEF Agents
  <1>s. /\ \A R : /\ Boot(R).on = R /\ Boot(R).do = "boot"
                  /\ Use(R).on = R /\ Use(R).do = "use"
        /\ \A b : Config(b).on = {"control-plane"} /\ Config(b).do = "config"
    BY DEF Boot, Use, Config
  <1>f. \A R, S, T, b : R \subseteq Roles /\ S \subseteq Roles /\ T \subseteq Roles =>
          Path(<<Boot(R), Use(S)>> \o <<Use(T), Use(Roles), Config(b)>>)
    <2> TAKE R, S, T, b
    <2> HAVE R \subseteq Roles /\ S \subseteq Roles /\ T \subseteq Roles
    <2> DEFINE s == <<Boot(R), Use(S)>> \o <<Use(T), Use(Roles), Config(b)>>
    <2>1. /\ Len(s) = 5 /\ s[1] = Boot(R) /\ s[2] = Use(S) /\ s[3] = Use(T)
          /\ s[4] = Use(Roles) /\ s[5] = Config(b)
      OBVIOUS
    <2> HIDE DEF s
    <2>2. \A i \in 1 .. 5 : i = 1 \/ i = 2 \/ i = 3 \/ i = 4 \/ i = 5
      OBVIOUS
    <2> QED
      BY SMTT(30), <1>a, <1>s, <2>1, <2>2 DEF Path
  <1>1. Path(Stages["kubeadm"])
    <2>1. Stages["kubeadm"] = <<Boot(Roles), Use(Roles)>>
                              \o <<Use({"control-plane"}), Use(Roles), Config(FALSE)>>
      BY DEF Stages, AllKinds, KubeadmNodes, KubeadmAddons, installCNI, installEdgeProxy
    <2> QED
      BY Zenon, <1>a, <1>f, <2>1
  <1>2. Path(Stages["gpu-k3s"])
    <2>1. Stages["gpu-k3s"] = <<Boot(Roles), Use(Roles)>>
                              \o <<Use({"control-plane"}), Use(Roles), Config(TRUE)>>
      BY DEF Stages, AllKinds, GPUK3sNodes, GPUK3sAddons, provisionK3sGPUNode, waitK3sNodes,
             installEdgeProxyK3sSystemd
    <2> QED
      BY Zenon, <1>a, <1>f, <2>1
  <1>3. Path(Stages["gpu-kubeadm"])
    <2>1. Stages["gpu-kubeadm"] = <<Boot(Roles), Use(Roles)>>
                                  \o <<Use({"control-plane"}), Use(Roles), Config(TRUE)>>
      BY DEF Stages, AllKinds, GPUKubeadmNodes, GPUKubeadmAddons, provisionKubeadmGPUNode,
             installCNI, installEdgeProxy
    <2> QED
      BY Zenon, <1>a, <1>f, <2>1
  <1>4. Path(Stages["k3s"])
    <2> DEFINE h == <<Boot({"control-plane"}), Use({"control-plane"})>>
               t == <<Use({"control-plane"}), Use(Roles), Config(FALSE)>>
               a == <<Boot(Agents), Use(Agents)>>
    <2>1. Stages["k3s"] = h \o (IF Agents = {} THEN <<>> ELSE a) \o t
      BY DEF Stages, AllKinds, K3sServer, K3sAgents, K3sAddons, installCNI, waitK3sNodes,
             ensureK3sCNIPlugins, installEdgeProxy
    <2>2. CASE Agents = {}
      <3>1. h \o <<>> = h
        OBVIOUS
      <3>2. Stages["k3s"] = h \o t
        BY Zenon, <2>1, <2>2, <3>1
      <3> QED
        BY Zenon, <1>a, <1>f, <3>2
    <2>3. CASE Agents # {}
      <3> DEFINE s == h \o a \o t
      <3>1. Stages["k3s"] = s
        BY Zenon, <2>1, <2>3
      <3>2. /\ Len(s) = 7 /\ s[1] = Boot({"control-plane"}) /\ s[2] = Use({"control-plane"})
            /\ s[3] = Boot(Agents) /\ s[4] = Use(Agents) /\ s[5] = Use({"control-plane"})
            /\ s[6] = Use(Roles) /\ s[7] = Config(FALSE)
        <4> DEFINE S == {Boot({"control-plane"}), Use({"control-plane"}), Boot(Agents),
                         Use(Agents), Use(Roles), Config(FALSE)}
        <4>1. h \in Seq(S) /\ Len(h) = 2 /\ a \in Seq(S) /\ Len(a) = 2 /\ t \in Seq(S) /\ Len(t) = 3
          OBVIOUS
        <4>2. /\ h[1] = Boot({"control-plane"}) /\ h[2] = Use({"control-plane"})
              /\ a[1] = Boot(Agents) /\ a[2] = Use(Agents) /\ t[1] = Use({"control-plane"})
              /\ t[2] = Use(Roles) /\ t[3] = Config(FALSE)
          OBVIOUS
        <4> HIDE DEF S, h, a, t
        <4>3. PICK u \in Seq(S) : s = u \o t /\ Len(u) = 4
                                  /\ u[1] = h[1] /\ u[2] = h[2] /\ u[3] = a[1] /\ u[4] = a[2]
          <5>1. /\ h \o a \in Seq(S) /\ Len(h \o a) = 4
                /\ \A i \in 1 .. 4 : (h \o a)[i] = IF i <= 2 THEN h[i] ELSE a[i - 2]
            BY <4>1, ConcatProperties
          <5>2. PICK u \in Seq(S) : /\ u = h \o a /\ Len(u) = 4
                                    /\ \A i \in 1 .. 4 : u[i] = IF i <= 2 THEN h[i] ELSE a[i - 2]
            BY Zenon, <5>1
          <5>3. \A i \in 1 .. 4 : u[i] = IF i <= 2 THEN h[i] ELSE a[i - 2]
            BY Zenon, <5>2
          <5>4. u[1] = h[1] /\ u[2] = h[2] /\ u[3] = a[1] /\ u[4] = a[2]
            BY <5>3
          <5> QED
            BY Zenon, <5>2, <5>4
        <4>4. Len(s) = 7 /\ \A i \in 1 .. 7 : s[i] = IF i <= 4 THEN u[i] ELSE t[i - 4]
          <5>1. /\ Len(u \o t) = Len(u) + Len(t)
                /\ \A i \in 1 .. Len(u) + Len(t) :
                     (u \o t)[i] = IF i <= Len(u) THEN u[i] ELSE t[i - Len(u)]
            BY Zenon, <4>1, <4>3, ConcatProperties
          <5>2. Len(u) + Len(t) = 7
            BY <4>1, <4>3
          <5> QED
            BY Zenon, <4>3, <5>1, <5>2
        <4> HIDE DEF s
        <4>5. /\ s[1] = u[1] /\ s[2] = u[2] /\ s[3] = u[3] /\ s[4] = u[4]
              /\ s[5] = t[1] /\ s[6] = t[2] /\ s[7] = t[3]
          BY <4>4
        <4> QED
          BY Zenon, <4>2, <4>3, <4>4, <4>5
      <3> HIDE DEF s
      <3>4. Path(s)
        <4>0. /\ s[1].do = "boot" /\ s[2].do = "use" /\ s[3].do = "boot" /\ s[4].do = "use"
              /\ s[5].do = "use" /\ s[6].do = "use" /\ s[7].do = "config"
          BY SMTT(30), <3>2 DEF Boot, Use, Config
        <4>o. /\ s[1].on \subseteq Roles /\ s[2].on \subseteq Roles /\ s[3].on \subseteq Roles
              /\ s[4].on \subseteq Roles /\ s[5].on \subseteq Roles /\ s[6].on \subseteq Roles
              /\ s[7].on \subseteq Roles
          BY SMTT(30), <1>a, <3>2 DEF Boot, Use, Config
        <4>1. \A i \in 1 .. 7 : i = 1 \/ i = 2 \/ i = 3 \/ i = 4 \/ i = 5 \/ i = 6 \/ i = 7
          OBVIOUS
        <4>2. \A i \in 1 .. 7 : s[i].on \subseteq Roles
          BY Zenon, <4>o, <4>1
        <4>3. \A i \in 1 .. 7 : s[i].do = "boot" => i = 1 \/ i = 3
          BY Zenon, <4>0, <4>1
        <4>4. s[2].do # "boot" /\ s[4].do # "boot" /\ s[7].do = "config"
          BY Zenon, <4>0
        <4>5. \A i \in 1 .. 7 : s[i].do # "config" => i + 1 \in 1 .. 7
          BY <4>4
        <4>6. \A i \in 1 .. 7 : s[i].do = "boot" => s[i + 1].do # "boot"
          <5>1. 1 + 1 = 2 /\ 3 + 1 = 4
            OBVIOUS
          <5> QED
            BY Zenon, <4>3, <4>4, <5>1
        <4> QED
          BY <3>2, <4>2, <4>5, <4>6 DEF Path
      <3> QED
        BY Zenon, <3>1, <3>4
    <2> QED
      BY Zenon, <2>2, <2>3
  <1> QED
    BY Zenon, <1>1, <1>2, <1>3, <1>4 DEF AllKinds

-----------------------------------------------------------------------------
(* Steps of one process.                                                   *)

\* Nothing of a cluster appears, and it is no more and no less blind.
Fewer(c) ==
  /\ \A n \in NodesOf(c), b \in Backends : Exists(n, b)' => Exists(n, b)
  /\ c \in blind' <=> c \in blind

\* Nor do the ghosts of a cluster grow.
Quiet(c) == Fewer(c) /\ (c \in deleted' => c \in deleted) /\ (c \in dirty' => c \in dirty)

Same(q) ==
  /\ pc'[q] = pc[q] /\ op'[q] = op[q] /\ at'[q] = at[q]
  /\ found'[q] = found[q] /\ own'[q] = own[q]

\* A process keeps what it relies on through the steps of others.
LEMMA LocalsKept ==
  ASSUME NEW q \in Procs, Same(q), service => service',
         Builder(q), Remover(q), Finder(q),
         pc[q] \in Building => Quiet(op[q].cluster),
         pc[q] \in {"remove", "forget"} => Fewer(op[q].cluster)
  PROVE  Builder(q)' /\ Remover(q)' /\ Finder(q)'
  <1>1. \A b : Reaches(b) => Reaches(b)'
    BY Zenon DEF Reaches
  <1>2. Home(q)' = Home(q)
    BY Zenon DEF Same, Home
  <1>3. Builder(q)'
    <2> SUFFICES ASSUME pc[q] \in Building PROVE Builder(q)'
      BY Zenon DEF Same, Builder
    <2> QED
      BY Zenon, <1>1, <1>2 DEF Same, Builder, Quiet, Fewer
  <1>4. Remover(q)'
    BY Zenon, <1>1 DEF Same, Remover, Fewer, NodesGone
  <1>5. Finder(q)'
    BY Zenon DEF Same, Finder
  <1> QED
    BY Zenon, <1>3, <1>4, <1>5

\* A cluster keeps what is said of it through the steps of a process that has no part
\* in it.
LEMMA ClusterKept ==
  ASSUME NEW c \in Clusters, NEW p \in Procs, \A q \in Procs \ {p} : Same(q),
         op[p].cluster # c, Quiet(c), c \in contexts' => c \in contexts,
         OnOne(c), Neat(c), Gone(c)
  PROVE  OnOne(c)' /\ Neat(c)' /\ Gone(c)'
  <1>1. NodesGone(c) => NodesGone(c)'
    BY Zenon DEF NodesGone, Quiet, Fewer
  <1>2. OnOne(c)'
    BY Zenon DEF OnOne, Quiet, Fewer, Backends
  <1>3. Neat(c)'
    BY Zenon, <1>1 DEF Neat, Quiet, Fewer, Same
  <1>4. Gone(c)'
    BY Zenon, <1>1 DEF Gone, Quiet, Fewer
  <1> QED
    BY Zenon, <1>2, <1>3, <1>4

\* What is left to show of a step of p after its call.
LEMMA StepOf ==
  ASSUME IInv, NEW p \in Procs, \A q \in Procs \ {p} : Same(q), service => service',
         DOMAIN op' = Procs, DOMAIN at' = Procs,
         op'[p] \in {op[p], NoOp}, Operation(p)', Staged(p)',
         \A c \in Clusters \ {op[p].cluster} : Quiet(c) /\ (c \in contexts' => c \in contexts),
         op[p].name = "delete" => Fewer(op[p].cluster),
         op[p].name \in {"stop", "start"} => Quiet(op[p].cluster),
         Builder(p)', Remover(p)', Finder(p)',
         \A c \in Clusters : c = op[p].cluster => OnOne(c)' /\ Neat(c)' /\ Gone(c)'
  PROVE  Operations' /\ Exclusive' /\ Locals' /\ Clean'
  <1>1. Operations'
    <2>1. \A q \in Procs \ {p} : Operation(q)' /\ Staged(q)'
      <3> TAKE q \in Procs \ {p}
      <3>1. Operation(q) /\ Staged(q) /\ Same(q)
        BY Zenon DEF IInv, Operations
      <3>2. Operation(q)'
        BY ZenonT(30), <3>1 DEF Operation, Same
      <3> QED
        BY Zenon, <3>1, <3>2 DEF Staged, Same
    <2> QED
      BY Zenon, <2>1 DEF Operations
  <1>n. NoOp.name = "none" /\ NoOp.cluster = None
    BY DEF NoOp
  <1>o. \A q \in Procs : Operation(q)
    BY Zenon DEF IInv, Operations
  <1>c. \A q \in Procs : op[q].cluster = None \/ op[q].cluster \in Clusters
    BY Zenon, <1>o, <1>n DEF Operation
  <1>2. Exclusive'
    <2> SUFFICES ASSUME NEW q \in Procs, NEW r \in Procs, q # r,
                        op'[q].name = "create", op'[r].cluster = op'[q].cluster
                 PROVE  op'[r].name \in {"stop", "start"}
      BY Zenon DEF Exclusive
    <2>1. op'[q] = op[q]
      BY Zenon, <1>n DEF Same
    <2>2. op[q].cluster \in Clusters
      BY Zenon, <2>1, <1>o, <1>n DEF Operation
    <2>3. op'[r] = op[r]
      BY Zenon, <2>1, <2>2, <1>n, LifecycleAssumption DEF Same
    <2> QED
      BY Zenon, <2>1, <2>3 DEF IInv, Exclusive
  <1>3. Locals'
    <2> SUFFICES ASSUME NEW q \in Procs, q # p PROVE Builder(q)' /\ Remover(q)' /\ Finder(q)'
      BY Zenon DEF Locals
    <2>1. Same(q)
      BY Zenon
    <2>2. pc[q] \in Building => op[q].name = "create" /\ op[q].cluster \in Clusters
      BY Zenon, <1>o DEF Operation, Building, Cleaning
    <2>3. pc[q] \in {"remove", "forget"} => op[q].name = "delete" /\ op[q].cluster \in Clusters
      BY Zenon, <1>o DEF Operation, Building, Cleaning
    <2>4. pc[q] \in Building => Quiet(op[q].cluster)
      <3>1. ASSUME pc[q] \in Building, op[q].cluster = op[p].cluster
            PROVE  op[p].name \in {"stop", "start"}
        BY Zenon, <2>2, <3>1 DEF IInv, Exclusive
      <3> QED
        BY Zenon, <2>2, <3>1
    <2>5. pc[q] \in {"remove", "forget"} => Fewer(op[q].cluster)
      <3>1. ASSUME pc[q] \in {"remove", "forget"}, op[q].cluster = op[p].cluster
            PROVE  op[p].name \in {"delete", "stop", "start"}
        <4>1. op[q].name \notin {"stop", "start"} /\ op[p].cluster \in Clusters
          BY Zenon, <2>3, <3>1
        <4>2. op[p].name # "create"
          BY Zenon, <3>1, <4>1 DEF IInv, Exclusive
        <4> QED
          BY Zenon, <4>1, <4>2, <1>o, <1>n, LifecycleAssumption DEF Operation
      <3> QED
        BY Zenon, <2>3, <3>1 DEF Quiet
    <2>6. Builder(q) /\ Remover(q) /\ Finder(q)
      BY Zenon DEF IInv, Locals
    <2> QED
      BY Zenon, <2>1, <2>4, <2>5, <2>6, LocalsKept
  <1>4. Clean'
    <2> SUFFICES ASSUME NEW c \in Clusters, c # op[p].cluster
                 PROVE  OnOne(c)' /\ Neat(c)' /\ Gone(c)'
      BY Zenon DEF Clean
    <2>1. Quiet(c) /\ (c \in contexts' => c \in contexts) /\ OnOne(c) /\ Neat(c) /\ Gone(c)
      BY Zenon DEF IInv, Clean
    <2> QED
      BY <2>1, ClusterKept
  <1> QED
    BY Zenon, <1>1, <1>2, <1>3, <1>4

-----------------------------------------------------------------------------
(* What List shows and what Set does.                                      *)

LEMMA RowsAreOwn ==
  ASSUME NoNameContinues, NEW c \in Clusters, NEW b
  PROVE  Rows(c, b) = {n \in NodesOf(c) : Exists(n, b) /\ (b = "container" => service)}
  BY Zenon, MatchingIsOwn DEF Rows

LEMMA ListIsOwn ==
  ASSUME NoNameContinues, NEW c \in Clusters
  PROVE  List(c) \subseteq NodesOf(c)
  BY Zenon, RowsAreOwn DEF List

\* Of a cluster on one backend, List shows all or fails, and fails only when
\* apple/container is down and krunkit has nothing of it.
LEMMA ListSees ==
  ASSUME NoNameContinues, NEW c \in Clusters, OnOne(c), c \notin blind
  PROVE  /\ ~ListFails(c) => \A n \in NodesOf(c), b \in Backends :
                               Exists(n, b) => n \in List(c) /\ Reaches(b)
         /\ ListFails(c) => ~service /\ \A n \in NodesOf(c) : ~Exists(n, "krunkit")
  <1>1. /\ Rows(c, "krunkit") = {n \in NodesOf(c) : Exists(n, "krunkit")}
        /\ Rows(c, "container") = {n \in NodesOf(c) : Exists(n, "container") /\ service}
    BY Zenon, RowsAreOwn
  <1>2. ASSUME ~ListFails(c), NEW n \in NodesOf(c), NEW b \in Backends, Exists(n, b)
        PROVE  n \in List(c) /\ Reaches(b)
    <2>1. CASE b = "krunkit"
      BY Zenon, <1>1, <1>2, <2>1 DEF List, Reaches
    <2>2. CASE b = "container"
      <3>1. service
        BY Zenon, <1>1, <1>2, <2>2 DEF ListFails, OnOne
      <3> QED
        BY Zenon, <1>1, <1>2, <2>2, <3>1 DEF List, Reaches
    <2> QED
      BY Zenon, <2>1, <2>2 DEF Backends
  <1>3. ListFails(c) => ~service /\ \A n \in NodesOf(c) : ~Exists(n, "krunkit")
    BY Zenon, <1>1 DEF ListFails, OnOne
  <1> QED
    BY Zenon, <1>2, <1>3

\* A Create that goes on after its check, and is not blind, begins with nothing.
LEMMA CheckSees ==
  ASSUME NoNameContinues, NEW c \in Clusters, OnOne(c), c \notin blind, ~Hidden(c),
         ensureGPUClusterAbsent(c) \/ ListFails(c) \/ List(c) = {}
  PROVE  NodesGone(c)
  <1>1. /\ Rows(c, "krunkit") = {n \in NodesOf(c) : Exists(n, "krunkit")}
        /\ Rows(c, "container") = {n \in NodesOf(c) : Exists(n, "container") /\ service}
    BY Zenon, RowsAreOwn
  <1>2. service \/ \A n \in NodesOf(c) : ~Exists(n, "container")
    BY Zenon, MatchingIsOwn DEF Hidden
  <1>3. ASSUME ensureGPUClusterAbsent(c) PROVE NodesGone(c)
    BY Zenon, <1>1, <1>2, <1>3 DEF ensureGPUClusterAbsent, NodesGone, Backends
  <1>4. ASSUME ListFails(c) PROVE NodesGone(c)
    BY Zenon, <1>2, <1>4, ListSees DEF NodesGone, Backends
  <1>5. ASSUME List(c) = {} PROVE NodesGone(c)
    BY Zenon, <1>1, <1>2, <1>5 DEF List, NodesGone, Backends
  <1> QED
    BY Zenon, <1>3, <1>4, <1>5

\* Set makes no node appear, and changes its nodes only.
LEMMA SetKeeps ==
  ASSUME TypeOK, NEW S, NEW s \in {"absent", "running", "stopped"}, Set(Removable(S), s)
  PROVE  /\ vm' \in [Nodes -> [Backends -> {"absent", "running", "stopped"}]]
         /\ \A n \in Nodes, b \in Backends : Exists(n, b)' => Exists(n, b)
         /\ \A n \in Nodes : n \notin S => vm'[n] = vm[n]
         /\ \A n \in Nodes : n \in Removable(S) => vm'[n][backendFor(n)] = s
         /\ \A n \in Nodes : vm'[n] # vm[n] => Exists(n, backendFor(n))
  <1> DEFINE R == Removable(S)
  <1>b. \A n : backendFor(n) \in Backends
    BY Zenon DEF backendFor, Backends
  <1>r. R \subseteq S /\ \A n \in R : Exists(n, backendFor(n))
    BY Zenon DEF Removable
  <1>v. vm \in [Nodes -> [Backends -> {"absent", "running", "stopped"}]]
    BY Zenon DEF TypeOK
  <1>1. vm' = [n \in Nodes |-> IF n \in R THEN [vm[n] EXCEPT ![backendFor(n)] = s] ELSE vm[n]]
    BY Zenon DEF Set
  <1> HIDE DEF R
  <1>2. ASSUME NEW n \in Nodes
        PROVE  vm'[n] = IF n \in R THEN [vm[n] EXCEPT ![backendFor(n)] = s] ELSE vm[n]
    BY Zenon, <1>1
  <1>3. ASSUME NEW n \in Nodes, n \in R
        PROVE  /\ vm'[n] \in [Backends -> {"absent", "running", "stopped"}]
               /\ vm'[n][backendFor(n)] = s
               /\ \A b \in Backends : b # backendFor(n) => vm'[n][b] = vm[n][b]
    <2>1. vm'[n] = [vm[n] EXCEPT ![backendFor(n)] = s]
      BY Zenon, <1>2, <1>3
    <2>2. PICK b \in Backends : b = backendFor(n)
      BY Zenon, <1>b
    <2>3. vm[n] \in [Backends -> {"absent", "running", "stopped"}]
      BY Zenon, <1>v
    <2> QED
      BY Zenon, <2>1, <2>2, <2>3
  <1>4. vm' \in [Nodes -> [Backends -> {"absent", "running", "stopped"}]]
    <2>1. ASSUME NEW n \in Nodes
          PROVE  vm'[n] \in [Backends -> {"absent", "running", "stopped"}]
      BY Zenon, <1>2, <1>3, <1>v
    <2> QED
      BY Zenon, <1>1, <2>1
  <1>5. \A n \in Nodes, b \in Backends : Exists(n, b)' => Exists(n, b)
    BY ZenonT(60), <1>2, <1>3, <1>r DEF Exists
  <1> QED
    BY Zenon, <1>2, <1>3, <1>4, <1>5, <1>r DEF R

\* Removing all that was found, when all that exists was found and is reached, leaves
\* nothing.
LEMMA RemoveAll ==
  ASSUME TypeOK, NEW c \in Clusters, OnOne(c), c \notin blind, NEW S,
         \A n \in NodesOf(c), b \in Backends : Exists(n, b) => n \in S /\ Reaches(b),
         Set(Removable(S), "absent")
  PROVE  NodesGone(c)'
  <1> SUFFICES ASSUME NEW n \in NodesOf(c), NEW b \in Backends, Exists(n, b)' PROVE FALSE
    BY Zenon DEF NodesGone
  <1>1. n \in Nodes
    BY Zenon, NodeCluster
  <1>2. Exists(n, b)
    BY Zenon, <1>1, SetKeeps
  <1>3. b = backendFor(n)
    BY Zenon, <1>2 DEF backendFor, OnOne, Backends
  <1>4. n \in Removable(S)
    BY Zenon, <1>2, <1>3 DEF Removable
  <1>5. vm'[n][b] = "absent"
    BY Zenon, <1>1, <1>3, <1>4, SetKeeps
  <1> QED
    BY Zenon, <1>5 DEF Exists

-----------------------------------------------------------------------------
(* The processes' own variables.                                           *)

Steps == {"idle", "check", "preflight", "stage", "cleanupList", "cleanupRemove",
          "list", "remove", "forget", "act"}

Operators == {"none", "create", "delete", "stop", "start"}

ProcTypes ==
  /\ pc \in [Procs -> Steps]
  /\ \A p \in Procs : op[p].name \in Operators
  /\ \A p \in Procs : at[p] \in 0 .. (IF op[p].name = "create" THEN Len(Stages[op[p].kind]) ELSE 0)
  /\ todo \in [Procs -> SUBSET Roles]
  /\ found \in [Procs -> SUBSET Nodes] /\ own \in [Procs -> SUBSET Nodes]

HostTypes ==
  /\ vm \in [Nodes -> [Backends -> {"absent", "running", "stopped"}]]
  /\ service \in BOOLEAN
  /\ contexts \subseteq Clusters
  /\ dirty \subseteq Clusters /\ deleted \subseteq Clusters /\ condemned \subseteq Clusters
  /\ blind \subseteq Clusters /\ unforgotten \subseteq Clusters
  /\ faults \in 0 .. MaxFaults /\ reboots \in 0 .. MaxReboots

LEMMA Types == TypeOK <=> ProcTypes /\ HostTypes
  BY Zenon DEF TypeOK, ProcTypes, HostTypes, Steps, Operators

LEMMA TypesNext == ProcTypes' /\ HostTypes' => TypeOK'
  BY Zenon DEF TypeOK, ProcTypes, HostTypes, Steps, Operators

LEMMA NothingToDo == NoOp.name = "none" /\ NoOp.cluster = None
  BY DEF NoOp

\* What a process relies on when it is idle: nothing.
LEMMA ReturnLocal ==
  ASSUME IInv, NEW p \in Procs, Return(p)
  PROVE  /\ ProcTypes' /\ (\A q \in Procs \ {p} : Same(q))
         /\ DOMAIN op' = Procs /\ DOMAIN at' = Procs
         /\ op'[p] = NoOp /\ pc'[p] = "idle" /\ Operation(p)' /\ Staged(p)'
         /\ Builder(p)' /\ Remover(p)' /\ Finder(p)'
  <1>t. ProcTypes /\ DOMAIN op = Procs /\ DOMAIN at = Procs
    BY Zenon, Types DEF IInv, Operations
  <1>d. DOMAIN pc = Procs /\ DOMAIN todo = Procs /\ DOMAIN found = Procs /\ DOMAIN own = Procs
    BY Zenon, <1>t DEF ProcTypes
  <1>1. /\ pc'[p] = "idle" /\ op'[p] = NoOp /\ at'[p] = 0
        /\ todo'[p] = {} /\ found'[p] = {} /\ own'[p] = {}
    BY Zenon, <1>t, <1>d DEF Return
  <1>2. \A q \in Procs \ {p} : Same(q) /\ todo'[q] = todo[q]
    BY Zenon, <1>t, <1>d DEF Return, Same
  <1>3. DOMAIN op' = Procs /\ DOMAIN at' = Procs
    BY Zenon, <1>t DEF Return
  <1>4. ProcTypes'
    <2>1. pc' \in [Procs -> Steps]
      BY Zenon, <1>t DEF ProcTypes, Return, Steps
    <2>2. /\ todo' \in [Procs -> SUBSET Roles] /\ found' \in [Procs -> SUBSET Nodes]
          /\ own' \in [Procs -> SUBSET Nodes]
      BY Zenon, <1>t DEF ProcTypes, Return
    <2>3. \A q \in Procs : op'[q].name \in Operators
      BY Zenon, <1>1, <1>2, <1>t, NothingToDo DEF ProcTypes, Same, Operators
    <2>4. \A q \in Procs :
            at'[q] \in 0 .. (IF op'[q].name = "create" THEN Len(Stages[op'[q].kind]) ELSE 0)
      <3>1. 0 \in 0 .. 0
        OBVIOUS
      <3> QED
        BY Zenon, <1>1, <1>2, <1>t, <3>1, NothingToDo DEF ProcTypes, Same
    <2> QED
      BY Zenon, <2>1, <2>2, <2>3, <2>4 DEF ProcTypes
  <1>5. Operation(p)' /\ Staged(p)'
    BY Zenon, <1>1 DEF Operation, Staged
  <1>6. Builder(p)' /\ Remover(p)' /\ Finder(p)'
    BY Zenon, <1>1 DEF Builder, Remover, Finder, Building, Cleaning
  <1> QED
    BY Zenon, <1>1, <1>2, <1>3, <1>4, <1>5, <1>6

\* A step to l that may set what was found.
LEMMA GotoLocal ==
  ASSUME IInv, NEW p \in Procs, NEW l \in Steps, NEW F \in SUBSET Nodes, NEW W \in SUBSET Nodes,
         pc' = [pc EXCEPT ![p] = l], found' = [found EXCEPT ![p] = F],
         own' = [own EXCEPT ![p] = W], UNCHANGED <<op, at, todo>>
  PROVE  /\ ProcTypes' /\ (\A q \in Procs \ {p} : Same(q))
         /\ DOMAIN op' = Procs /\ DOMAIN at' = Procs
         /\ pc'[p] = l /\ op'[p] = op[p] /\ at'[p] = at[p] /\ found'[p] = F /\ own'[p] = W
  <1>t. ProcTypes /\ DOMAIN op = Procs /\ DOMAIN at = Procs
    BY Zenon, Types DEF IInv, Operations
  <1>d. DOMAIN pc = Procs /\ DOMAIN found = Procs /\ DOMAIN own = Procs
    BY Zenon, <1>t DEF ProcTypes
  <1>1. pc'[p] = l /\ op'[p] = op[p] /\ at'[p] = at[p] /\ found'[p] = F /\ own'[p] = W
    BY Zenon, <1>d
  <1>2. \A q \in Procs \ {p} : Same(q)
    BY Zenon, <1>d DEF Same
  <1>3. pc' \in [Procs -> Steps] /\ found' \in [Procs -> SUBSET Nodes]
        /\ own' \in [Procs -> SUBSET Nodes]
    BY Zenon, <1>t DEF ProcTypes
  <1>4. ProcTypes'
    BY Zenon, <1>3, <1>t DEF ProcTypes
  <1> QED
    BY Zenon, <1>1, <1>2, <1>4, <1>t

\* Entry into a stage of the path.
LEMMA EnterLocal ==
  ASSUME IInv, NEW p \in Procs, op[p].name = "create", op[p].kind \in AllKinds,
         NEW i \in 1 .. Len(Stages[op[p].kind]), Enter(p, i), NEW W \in SUBSET Nodes,
         own' = [own EXCEPT ![p] = W], UNCHANGED <<op, found>>
  PROVE  /\ ProcTypes' /\ (\A q \in Procs \ {p} : Same(q))
         /\ DOMAIN op' = Procs /\ DOMAIN at' = Procs
         /\ pc'[p] = "stage" /\ op'[p] = op[p] /\ at'[p] = i /\ own'[p] = W
         /\ todo'[p] = IF Stages[op[p].kind][i].do = "boot" THEN Stages[op[p].kind][i].on ELSE {}
  <1>t. ProcTypes /\ DOMAIN op = Procs /\ DOMAIN at = Procs
    BY Zenon, Types DEF IInv, Operations
  <1>d. DOMAIN pc = Procs /\ DOMAIN todo = Procs /\ DOMAIN found = Procs /\ DOMAIN own = Procs
    BY Zenon, <1>t DEF ProcTypes
  <1>p. PICK T : /\ T = IF Stages[op[p].kind][i].do = "boot" THEN Stages[op[p].kind][i].on ELSE {}
                 /\ todo' = [todo EXCEPT ![p] = T]
                 /\ pc' = [pc EXCEPT ![p] = "stage"] /\ at' = [at EXCEPT ![p] = i]
    BY Zenon DEF Enter
  <1>s. T \in SUBSET Roles /\ i \in 0 .. Len(Stages[op[p].kind])
    <2>1. Path(Stages[op[p].kind])
      BY Zenon, Paths
    <2>2. i \in 0 .. Len(Stages[op[p].kind])
      BY <2>1 DEF Path
    <2> QED
      BY Zenon, <1>p, <2>1, <2>2 DEF Path
  <1>1. /\ pc'[p] = "stage" /\ op'[p] = op[p] /\ at'[p] = i /\ own'[p] = W /\ todo'[p] = T
    BY Zenon, <1>d, <1>p, <1>t
  <1>2. \A q \in Procs \ {p} : Same(q)
    BY Zenon, <1>d, <1>p, <1>t DEF Same
  <1>3. /\ pc' \in [Procs -> Steps] /\ found' \in [Procs -> SUBSET Nodes]
        /\ own' \in [Procs -> SUBSET Nodes] /\ todo' \in [Procs -> SUBSET Roles]
    BY Zenon, <1>t, <1>p, <1>s DEF ProcTypes, Steps
  <1>4. \A q \in Procs :
          at'[q] \in 0 .. (IF op'[q].name = "create" THEN Len(Stages[op'[q].kind]) ELSE 0)
    BY Zenon, <1>1, <1>2, <1>s, <1>t DEF ProcTypes, Same
  <1>5. ProcTypes'
    BY Zenon, <1>3, <1>4, <1>t DEF ProcTypes
  <1> QED
    BY Zenon, <1>1, <1>2, <1>5, <1>p, <1>t

\* A process that returns, having made nothing of any cluster appear, and whose
\* clean-up, if it was in one, left nothing.
LEMMA ReturnStep ==
  ASSUME IInv, NEW p \in Procs, Return(p), service => service',
         \A n \in Nodes, b \in Backends : Exists(n, b)' => Exists(n, b),
         UNCHANGED <<contexts, dirty, deleted, blind>>,
         pc[p] \in Cleaning => \A c \in Clusters \ blind : c = op[p].cluster => NodesGone(c)'
  PROVE  ProcTypes' /\ Operations' /\ Exclusive' /\ Locals' /\ Clean'
  <1>1. /\ ProcTypes' /\ (\A q \in Procs \ {p} : Same(q))
        /\ DOMAIN op' = Procs /\ DOMAIN at' = Procs
        /\ op'[p] = NoOp /\ Operation(p)' /\ Staged(p)'
        /\ Builder(p)' /\ Remover(p)' /\ Finder(p)'
    BY Zenon, ReturnLocal
  <1>2. \A c \in Clusters : Quiet(c)
    BY Zenon, NodeCluster DEF Quiet, Fewer
  <1>c. op[p].cluster \in Clusters \/ op[p] = NoOp
    BY Zenon DEF IInv, Operations, Operation
  <1>3. op[p].name # "none" => Quiet(op[p].cluster)
    BY Zenon, <1>2, <1>c, NothingToDo
  <1>4. ASSUME NEW c \in Clusters, c = op[p].cluster PROVE OnOne(c)' /\ Neat(c)' /\ Gone(c)'
    <2>1. OnOne(c) /\ Neat(c) /\ Gone(c) /\ Quiet(c)
      BY Zenon, <1>2 DEF IInv, Clean
    <2>2. NodesGone(c) => NodesGone(c)'
      BY Zenon, <2>1 DEF NodesGone, Quiet, Fewer
    <2>3. OnOne(c)' /\ Gone(c)'
      BY Zenon, <2>1, <2>2 DEF OnOne, Gone, Quiet, Fewer, Backends
    <2>4. Neat(c)'
      <3>1. CASE pc[p] \in Cleaning
        BY Zenon, <3>1, <1>4 DEF Neat
      <3>2. CASE pc[p] \notin Cleaning
        BY Zenon, <3>2, <2>1, <2>2, <1>1 DEF Neat, Same
      <3> QED
        BY Zenon, <3>1, <3>2
    <2> QED
      BY Zenon, <2>3, <2>4
  <1>5. op[p].name = "delete" => Fewer(op[p].cluster)
    BY Zenon, <1>3 DEF Quiet
  <1> QED
    BY Zenon, <1>1, <1>2, <1>3, <1>4, <1>5, StepOf

-----------------------------------------------------------------------------
(* The steps of a Create.                                                  *)

LEMMA FaultBound ==
  ASSUME TypeOK, Fault
  PROVE  faults' \in 0 .. MaxFaults /\ reboots' \in 0 .. MaxReboots
  BY LifecycleAssumption DEF TypeOK, Fault

\* The operation of a process by its step.
LEMMA OperationOf ==
  ASSUME IInv, NEW p \in Procs
  PROVE  /\ pc[p] \in {"check"} \cup Building =>
              op[p].name = "create" /\ op[p].cluster \in Clusters /\ op[p].kind \in AllKinds
         /\ pc[p] \in {"list", "remove", "forget"} => op[p].name = "delete" /\ op[p].cluster \in Clusters
         /\ pc[p] = "act" => /\ op[p].name \in {"stop", "start"} /\ op[p].cluster \in Clusters
                             /\ op[p].node \in NodesOf(op[p].cluster)
  BY Zenon DEF IInv, Operations, Operation, Building, Cleaning

LEMMA RefuseStep ==
  ASSUME IInv, NEW p \in Procs, RefuseConfig(p) PROVE IInv'
  <1>1. ProcTypes' /\ Operations' /\ Exclusive' /\ Locals' /\ Clean'
    <2>1. pc[p] \notin Cleaning
      BY Zenon DEF RefuseConfig, Cleaning
    <2> QED
      BY Zenon, <2>1, ReturnStep DEF RefuseConfig, ghosts, Exists
  <1>2. HostTypes'
    BY Zenon, Types DEF IInv, HostTypes, RefuseConfig, ghosts, bounds
  <1> QED
    BY Zenon, <1>1, <1>2, TypesNext DEF IInv

LEMMA CheckStep ==
  ASSUME NoNameContinues, IInv, NEW p \in Procs, CheckAbsent(p) PROVE IInv'
  <1>o. /\ pc[p] = "check" /\ pc[p] \notin Cleaning /\ op[p].name = "create"
        /\ op[p].cluster \in Clusters /\ op[p].kind \in AllKinds
    BY Zenon, OperationOf DEF CheckAbsent, ProceedIf, Cleaning
  <1>c. PICK c \in Clusters : c = op[p].cluster
    BY Zenon, <1>o
  <1>h. UNCHANGED <<vm, service, contexts, bounds>>
    BY Zenon DEF CheckAbsent, ProceedIf
  <1>t. HostTypes /\ ProcTypes
    BY Zenon, Types DEF IInv
  <1>1. CASE Return(p) /\ UNCHANGED ghosts
    <2>1. ProcTypes' /\ Operations' /\ Exclusive' /\ Locals' /\ Clean'
      BY Zenon, <1>o, <1>h, <1>1, ReturnStep DEF ghosts, Exists
    <2>2. HostTypes'
      BY Zenon, <1>t, <1>h, <1>1 DEF HostTypes, ghosts, bounds
    <2> QED
      BY Zenon, <2>1, <2>2, TypesNext DEF IInv
  <1>2. ASSUME ensureGPUClusterAbsent(c) \/ ListFails(c) \/ List(c) = {}, Goto(p, "preflight"),
               dirty' = dirty \ {c}, deleted' = deleted \ {c}, condemned' = condemned \ {c},
               blind' = (blind \ {d \in {c} : NodesGone(d) /\ d \notin contexts})
                        \cup {d \in {c} : Hidden(d)},
               UNCHANGED unforgotten
        PROVE  IInv'
    <2>1. /\ ProcTypes' /\ (\A q \in Procs \ {p} : Same(q))
          /\ DOMAIN op' = Procs /\ DOMAIN at' = Procs
          /\ pc'[p] = "preflight" /\ op'[p] = op[p]
      <3>1. found' = [found EXCEPT ![p] = found[p]] /\ own' = [own EXCEPT ![p] = own[p]]
        BY Zenon, <1>2, <1>t DEF Goto, ProcTypes
      <3>2. found[p] \in SUBSET Nodes /\ own[p] \in SUBSET Nodes
        BY Zenon, <1>t DEF ProcTypes
      <3>3. pc' = [pc EXCEPT ![p] = "preflight"] /\ UNCHANGED <<op, at, todo>>
        BY Zenon, <1>2 DEF Goto
      <3>4. "preflight" \in Steps
        BY Zenon DEF Steps
      <3> QED
        BY Zenon, <3>1, <3>2, <3>3, <3>4, GotoLocal
    <2>2. c \notin blind' => NodesGone(c)
      <3>1. OnOne(c)
        BY Zenon DEF IInv, Clean
      <3>2. c \notin blind' => ~Hidden(c) /\ (c \notin blind \/ NodesGone(c))
        BY Zenon, <1>2
      <3> QED
        BY Zenon, <1>2, <3>1, <3>2, CheckSees
    <2>3. \A n, b : Exists(n, b)' <=> Exists(n, b)
      BY Zenon, <1>h DEF Exists
    <2>4. \A d \in Clusters \ {c} : Quiet(d) /\ (d \in contexts' => d \in contexts)
      BY Zenon, <1>2, <1>h, <2>3 DEF Quiet, Fewer
    <2>5. Operation(p)' /\ Staged(p)'
      BY Zenon, <1>o, <2>1 DEF Operation, Staged, Building
    <2>6. Builder(p)' /\ Remover(p)' /\ Finder(p)'
      <3>1. c \notin deleted' /\ c \notin dirty'
        BY Zenon, <1>2
      <3>2. Builder(p)'
        BY Zenon, <1>c, <2>1, <2>2, <2>3, <3>1 DEF Builder, NodesGone
      <3> QED
        BY Zenon, <2>1, <3>2 DEF Remover, Finder
    <2>7. OnOne(c)' /\ Neat(c)' /\ Gone(c)'
      BY Zenon, <1>2, <2>2, <2>3 DEF OnOne, Neat, Gone, NodesGone, Backends
    <2>8. Operations' /\ Exclusive' /\ Locals' /\ Clean'
      BY Zenon, <1>c, <1>h, <1>o, <2>1, <2>4, <2>5, <2>6, <2>7, StepOf
    <2>9. HostTypes'
      BY Zenon, <1>t, <1>h, <1>2 DEF HostTypes, bounds
    <2> QED
      BY Zenon, <2>1, <2>8, <2>9, TypesNext DEF IInv
  <1> QED
    <2>1. CASE IsGPU(op[p].kind)
      <3>1. (IF IsGPU(op[p].kind) THEN ensureGPUClusterAbsent(c) ELSE ListFails(c) \/ List(c) = {})
            = ensureGPUClusterAbsent(c)
        BY Zenon, <2>1
      <3>2. ProceedIf(p, ensureGPUClusterAbsent(c))
        BY Zenon, <1>c, <3>1 DEF CheckAbsent
      <3> QED
        BY Zenon, <1>1, <1>2, <1>c, <3>2 DEF ProceedIf
    <2>2. CASE ~IsGPU(op[p].kind)
      <3>1. (IF IsGPU(op[p].kind) THEN ensureGPUClusterAbsent(c) ELSE ListFails(c) \/ List(c) = {})
            = (ListFails(c) \/ List(c) = {})
        BY Zenon, <2>2
      <3>2. ProceedIf(p, ListFails(c) \/ List(c) = {})
        BY Zenon, <1>c, <3>1 DEF CheckAbsent
      <3> QED
        BY Zenon, <1>1, <1>2, <1>c, <3>2 DEF ProceedIf
    <2> QED
      BY Zenon, <2>1, <2>2

\* A step of a Create that works on or turns to its clean-up: what appears, it booted.
LEMMA BuildStep ==
  ASSUME IInv, NEW p \in Procs, pc[p] \in {"preflight", "stage"}, NEW c, c = op[p].cluster,
         \A q \in Procs \ {p} : Same(q), DOMAIN op' = Procs, DOMAIN at' = Procs,
         pc'[p] \in {"stage", "cleanupList"}, op'[p] = op[p], Staged(p)',
         UNCHANGED <<blind, deleted, contexts>>, service => service',
         Home(p) = "krunkit" \/ service',
         pc'[p] = "stage" => dirty' = dirty, dirty' \subseteq dirty \cup {c},
         own[p] \subseteq own'[p],
         \A n \in Nodes, b \in Backends : Exists(n, b)' =>
           Exists(n, b) \/ (n \in NodesOf(c) /\ n \in own'[p] /\ b = Home(p))
  PROVE  Operations' /\ Exclusive' /\ Locals' /\ Clean'
  <1>o. op[p].name = "create" /\ c \in Clusters /\ op[p].kind \in AllKinds /\ pc[p] \in Building
    BY Zenon, OperationOf DEF Building
  <1>b. Builder(p)
    BY Zenon DEF IInv, Locals
  <1>1. Operation(p)'
    BY Zenon, <1>o DEF Operation, Building, Cleaning
  <1>2. Home(p)' = Home(p)
    BY Zenon DEF Home
  <1>3. Reaches(Home(p))'
    BY Zenon, <1>2 DEF Reaches
  <1>4. c \notin deleted /\ c \notin dirty
    BY Zenon, <1>b, <1>o DEF Builder, Cleaning
  <1>5. ASSUME c \notin blind, NEW n \in NodesOf(c), NEW b \in Backends, Exists(n, b)'
        PROVE  b = Home(p) /\ n \in own'[p]
    <2>1. n \in Nodes
      BY Zenon, <1>o, NodeCluster
    <2>2. Exists(n, b) => b = Home(p) /\ n \in own[p]
      BY Zenon, <1>5, <1>b, <1>o DEF Builder
    <2> QED
      BY Zenon, <1>5, <2>1, <2>2
  <1>6. Builder(p)'
    <2>1. pc'[p] # "cleanupRemove" /\ (pc'[p] \notin Cleaning => dirty' = dirty)
      BY Zenon DEF Cleaning
    <2>2. op'[p].cluster = c
      BY Zenon
    <2> QED
      BY Zenon, <2>1, <2>2, <1>2, <1>3, <1>4, <1>5 DEF Builder
  <1>7. Remover(p)' /\ Finder(p)'
    BY Zenon DEF Remover, Finder
  <1>8. \A d \in Clusters \ {c} : Quiet(d) /\ (d \in contexts' => d \in contexts)
    <2> TAKE d \in Clusters \ {c}
    <2>1. \A n \in NodesOf(d) : n \in Nodes /\ n \notin NodesOf(c)
      BY Zenon, <1>o, NodeCluster
    <2> QED
      BY Zenon, <2>1 DEF Quiet, Fewer
  <1>9. OnOne(c)' /\ Neat(c)' /\ Gone(c)'
    <2>1. OnOne(c)'
      BY Zenon, <1>5 DEF OnOne, Backends
    <2>2. Neat(c)'
      BY Zenon, <1>4 DEF Neat, Cleaning
    <2>3. Gone(c)'
      BY Zenon, <1>4 DEF Gone
    <2> QED
      BY Zenon, <2>1, <2>2, <2>3
  <1> QED
    BY Zenon, <1>o, <1>1, <1>6, <1>7, <1>8, <1>9, StepOf

\* The place of a process in its path.
LEMMA InPath ==
  ASSUME IInv, NEW p \in Procs, pc[p] = "stage"
  PROVE  /\ at[p] \in 1 .. Len(Stages[op[p].kind])
         /\ Stage(p).on \subseteq Roles
         /\ Stage(p).do # "config" => at[p] + 1 \in 1 .. Len(Stages[op[p].kind])
         /\ Stage(p).do = "boot" => Stages[op[p].kind][at[p] + 1].do # "boot"
  <1>1. op[p].name = "create" /\ op[p].kind \in AllKinds
    BY Zenon, OperationOf DEF Building
  <1>2. Path(Stages[op[p].kind])
    BY Zenon, <1>1, Paths
  <1>3. at[p] \in 0 .. Len(Stages[op[p].kind]) /\ at[p] # 0
    BY Zenon, <1>1 DEF IInv, TypeOK, Operations, Staged
  <1>4. at[p] \in 1 .. Len(Stages[op[p].kind])
    BY <1>2, <1>3 DEF Path
  <1> QED
    BY Zenon, <1>2, <1>4 DEF Path, Stage

\* A stage fails, and its error is returned or the clean-up begun.
LEMMA FailsStep ==
  ASSUME IInv, NEW p \in Procs, pc[p] = "stage", Fails(p), UNCHANGED <<vm, service, contexts>>
  PROVE  /\ ProcTypes' /\ Operations' /\ Exclusive' /\ Locals' /\ Clean'
         /\ dirty' \subseteq Clusters
  <1>t. ProcTypes /\ HostTypes
    BY Zenon, Types DEF IInv
  <1>o. op[p].cluster \in Clusters /\ pc[p] \notin Cleaning /\ pc[p] \in Building
    BY Zenon, OperationOf DEF Building, Cleaning
  <1>e. \A n, b : Exists(n, b)' <=> Exists(n, b)
    BY Zenon DEF Exists
  <1>1. CASE Stage(p).cleans
    <2>1. /\ pc' = [pc EXCEPT ![p] = "cleanupList"] /\ UNCHANGED <<op, at, todo, found, own>>
          /\ dirty' = dirty \cup {op[p].cluster} /\ UNCHANGED <<deleted, blind>>
      BY Zenon, <1>1 DEF Fails, Goto
    <2>2. /\ ProcTypes' /\ (\A q \in Procs \ {p} : Same(q))
          /\ DOMAIN op' = Procs /\ DOMAIN at' = Procs
          /\ pc'[p] = "cleanupList" /\ op'[p] = op[p] /\ own'[p] = own[p]
      <3>1. found' = [found EXCEPT ![p] = found[p]] /\ own' = [own EXCEPT ![p] = own[p]]
        BY Zenon, <2>1, <1>t DEF ProcTypes
      <3>2. found[p] \in SUBSET Nodes /\ own[p] \in SUBSET Nodes /\ "cleanupList" \in Steps
        BY Zenon, <1>t DEF ProcTypes, Steps
      <3> QED
        BY ZenonT(30), <2>1, <3>1, <3>2, GotoLocal
    <2>3. Staged(p)'
      BY Zenon, <2>2 DEF Staged
    <2>4. Home(p) = "krunkit" \/ service'
      <3>1. Reaches(Home(p))
        BY Zenon, <1>o DEF IInv, Locals, Builder
      <3> QED
        BY Zenon, <3>1 DEF Reaches
    <2>5. Operations' /\ Exclusive' /\ Locals' /\ Clean'
      BY Zenon, <1>e, <2>1, <2>2, <2>3, <2>4, BuildStep
    <2> QED
      BY Zenon, <1>t, <1>o, <2>1, <2>2, <2>5 DEF HostTypes
  <1>2. CASE ~Stage(p).cleans
    <2>1. Return(p) /\ UNCHANGED <<dirty, deleted, blind>>
      BY Zenon, <1>2 DEF Fails
    <2>2. ProcTypes' /\ Operations' /\ Exclusive' /\ Locals' /\ Clean'
      BY Zenon, <1>o, <1>e, <2>1, ReturnStep
    <2> QED
      BY Zenon, <1>t, <2>1, <2>2 DEF HostTypes
  <1> QED
    BY Zenon, <1>1, <1>2

LEMMA PreflightStep ==
  ASSUME IInv, NEW p \in Procs, Preflight(p) PROVE IInv'
  <1>t. ProcTypes /\ HostTypes
    BY Zenon, Types DEF IInv
  <1>o. /\ pc[p] = "preflight" /\ op[p].name = "create" /\ op[p].kind \in AllKinds
        /\ pc[p] \notin Cleaning /\ pc[p] \in Building
    BY Zenon, OperationOf DEF Preflight, Building, Cleaning
  <1>u. UNCHANGED <<vm, contexts, dirty, deleted, condemned, blind, unforgotten>>
    BY Zenon DEF Preflight, ghosts
  <1>e. \A n, b : Exists(n, b)' <=> Exists(n, b)
    BY Zenon, <1>u DEF Exists
  <1>s. service' \in BOOLEAN /\ (service => service')
    BY Zenon, <1>t DEF Preflight, HostTypes
  <1>1. CASE Fault /\ Return(p)
    <2>1. ProcTypes' /\ Operations' /\ Exclusive' /\ Locals' /\ Clean'
      BY Zenon, <1>o, <1>u, <1>e, <1>s, <1>1, ReturnStep
    <2>2. HostTypes'
      BY Zenon, <1>t, <1>u, <1>s, <1>1, FaultBound DEF HostTypes, IInv
    <2> QED
      BY Zenon, <2>1, <2>2, TypesNext DEF IInv
  <1>2. CASE service' = (service \/ ~IsGPU(op[p].kind)) /\ Enter(p, 1) /\ UNCHANGED <<op, found, own, bounds>>
    <2>1. 1 \in 1 .. Len(Stages[op[p].kind])
      <3>1. Path(Stages[op[p].kind])
        BY Zenon, <1>o, Paths
      <3> QED
        BY <3>1 DEF Path
    <2>2. own[p] \in SUBSET Nodes /\ own' = [own EXCEPT ![p] = own[p]]
      BY Zenon, <1>t, <1>2 DEF ProcTypes
    <2>3. /\ ProcTypes' /\ (\A q \in Procs \ {p} : Same(q))
          /\ DOMAIN op' = Procs /\ DOMAIN at' = Procs
          /\ pc'[p] = "stage" /\ op'[p] = op[p] /\ at'[p] = 1 /\ own'[p] = own[p]
      BY ZenonT(60), <1>o, <1>2, <2>1, <2>2, EnterLocal
    <2>4. Staged(p)'
      BY <2>3 DEF Staged
    <2>5. Home(p) = "krunkit" \/ service'
      BY Zenon, <1>2 DEF Home
    <2>6. Operations' /\ Exclusive' /\ Locals' /\ Clean'
      BY Zenon, <1>o, <1>u, <1>e, <1>s, <2>3, <2>4, <2>5, BuildStep
    <2>7. HostTypes'
      BY Zenon, <1>t, <1>u, <1>s, <1>2 DEF HostTypes, bounds
    <2> QED
      BY Zenon, <2>3, <2>6, <2>7, TypesNext DEF IInv
  <1> QED
    BY Zenon, <1>1, <1>2 DEF Preflight

\* A boot makes one node appear, on the backend of its path.
LEMMA Booted ==
  ASSUME TypeOK, NEW p \in Procs, NEW n \in Nodes, NEW b,
         b = (IF IsGPU(op[p].kind) THEN "krunkit" ELSE backendFor(n)), CanBoot(n, b),
         vm' \in {vm, [vm EXCEPT ![n][b] = "running"]}
  PROVE  /\ b = Home(p)
         /\ vm' \in [Nodes -> [Backends -> {"absent", "running", "stopped"}]]
         /\ \A m \in Nodes, d \in Backends : Exists(m, d)' => Exists(m, d) \/ (m = n /\ d = b)
         /\ \A m \in Nodes : vm'[m] # vm[m] => m = n
  <1>1. b = Home(p) /\ b \in Backends
    BY Zenon DEF Home, backendFor, CanBoot, Backends
  <1>v. vm \in [Nodes -> [Backends -> {"absent", "running", "stopped"}]]
    BY Zenon DEF TypeOK
  <1>2. CASE vm' = vm
    BY Zenon, <1>1, <1>2, <1>v DEF Exists
  <1>3. CASE vm' = [vm EXCEPT ![n][b] = "running"]
    <2>1. PICK v : v = [vm[n] EXCEPT ![b] = "running"] /\ vm' = [vm EXCEPT ![n] = v]
      BY Zenon, <1>3
    <2>2. v \in [Backends -> {"absent", "running", "stopped"}] /\ \A d \in Backends : d # b => v[d] = vm[n][d]
      BY Zenon, <1>1, <1>v, <2>1
    <2>3. vm'[n] = v /\ \A m \in Nodes : m # n => vm'[m] = vm[m]
      BY Zenon, <1>v, <2>1
    <2>4. vm' \in [Nodes -> [Backends -> {"absent", "running", "stopped"}]]
      BY Zenon, <1>v, <2>1, <2>2
    <2> QED
      BY Zenon, <1>1, <2>2, <2>3, <2>4 DEF Exists
  <1> QED
    BY Zenon, <1>2, <1>3

LEMMA BootStep ==
  ASSUME IInv, NEW p \in Procs, NEW r \in Roles, BootNode(p, r) PROVE IInv'
  <1>t. ProcTypes /\ HostTypes /\ TypeOK
    BY Zenon, Types DEF IInv
  <1>o. /\ pc[p] = "stage" /\ op[p].name = "create" /\ op[p].kind \in AllKinds
        /\ pc[p] \in Building /\ Stage(p).do = "boot" /\ r \in todo[p]
    BY Zenon, OperationOf DEF BootNode, Building
  <1>c. PICK c \in Clusters : c = op[p].cluster
    BY Zenon, <1>o, OperationOf
  <1>n. PICK n \in Nodes : n = node(c, r) /\ n \in NodesOf(c)
    BY Zenon, NodeNames
  <1>b. PICK b : b = (IF IsGPU(op[p].kind) THEN "krunkit" ELSE backendFor(n))
    BY Zenon
  <1>h. Home(p) = "krunkit" \/ service
    BY Zenon, <1>o DEF IInv, Locals, Builder, Reaches
  <1>u. UNCHANGED <<service, contexts>>
    BY Zenon DEF BootNode
  <1>w. PICK W \in SUBSET Nodes : W = own[p] \cup {n}
    <2>1. own[p] \cup {n} \in SUBSET Nodes
      BY Zenon, <1>t DEF ProcTypes
    <2> QED
      BY Zenon, <2>1
  <1>1. ASSUME CanBoot(n, b), vm' = [vm EXCEPT ![n][b] = "running"],
               own' = [own EXCEPT ![p] = @ \cup {n}],
               \/ todo[p] = {r} /\ Enter(p, at[p] + 1)
               \/ todo' = [todo EXCEPT ![p] = @ \ {r}] /\ UNCHANGED <<pc, at>>,
               UNCHANGED <<op, found, ghosts, bounds>>
        PROVE  IInv'
    <2>1. /\ vm' \in [Nodes -> [Backends -> {"absent", "running", "stopped"}]]
          /\ \A m \in Nodes, d \in Backends :
               Exists(m, d)' => Exists(m, d) \/ (m = n /\ d = Home(p))
      BY Zenon, <1>1, <1>b, <1>t, Booted
    <2>2. /\ ProcTypes' /\ (\A q \in Procs \ {p} : Same(q))
          /\ DOMAIN op' = Procs /\ DOMAIN at' = Procs
          /\ pc'[p] = "stage" /\ op'[p] = op[p] /\ own'[p] = W /\ Staged(p)'
      <3>1. CASE Enter(p, at[p] + 1)
        <4>1. at[p] + 1 \in 1 .. Len(Stages[op[p].kind])
          BY Zenon, <1>o, InPath
        <4>2. PICK i \in 1 .. Len(Stages[op[p].kind]) : i = at[p] + 1
          BY Zenon, <4>1
        <4>3. own' = [own EXCEPT ![p] = W] /\ UNCHANGED <<op, found>> /\ Enter(p, i)
          BY Zenon, <1>1, <1>w, <3>1, <4>2
        <4>4. /\ ProcTypes' /\ (\A q \in Procs \ {p} : Same(q))
              /\ DOMAIN op' = Procs /\ DOMAIN at' = Procs
              /\ pc'[p] = "stage" /\ op'[p] = op[p] /\ at'[p] = i /\ own'[p] = W
          BY Zenon, <1>o, <4>3, EnterLocal
        <4>5. i # 0
          OBVIOUS
        <4> QED
          BY Zenon, <4>4, <4>5 DEF Staged
      <3>2. CASE todo' = [todo EXCEPT ![p] = @ \ {r}] /\ UNCHANGED <<pc, at>>
        <4>1. DOMAIN op = Procs /\ DOMAIN at = Procs /\ Staged(p)
          BY Zenon DEF IInv, Operations
        <4>2. /\ todo' \in [Procs -> SUBSET Roles]
              /\ own' \in [Procs -> SUBSET Nodes]
          <5>1. todo[p] \ {r} \in SUBSET Roles
            BY Zenon, <1>t DEF ProcTypes
          <5>2. todo' = [todo EXCEPT ![p] = todo[p] \ {r}] /\ own' = [own EXCEPT ![p] = W]
            BY Zenon, <3>2, <1>1, <1>w
          <5> QED
            BY Zenon, <1>t, <5>1, <5>2 DEF ProcTypes
        <4>3. ProcTypes'
          BY Zenon, <1>t, <1>1, <3>2, <4>2 DEF ProcTypes
        <4>4. own'[p] = W /\ \A q \in Procs \ {p} : own'[q] = own[q]
          BY Zenon, <1>t, <1>1, <1>w DEF ProcTypes
        <4> QED
          BY Zenon, <1>o, <1>1, <3>2, <4>1, <4>3, <4>4 DEF Same, Staged
      <3> QED
        BY Zenon, <1>1, <3>1, <3>2
    <2>3. /\ \A m \in Nodes, d \in Backends : Exists(m, d)' =>
               Exists(m, d) \/ (m \in NodesOf(c) /\ m \in own'[p] /\ d = Home(p))
          /\ own[p] \subseteq own'[p]
      BY Zenon, <1>n, <1>w, <2>1, <2>2
    <2>4. Operations' /\ Exclusive' /\ Locals' /\ Clean'
      <3>1. /\ UNCHANGED <<blind, deleted, contexts>> /\ dirty' = dirty
            /\ dirty' \subseteq dirty \cup {c} /\ (service => service')
            /\ (Home(p) = "krunkit" \/ service')
        BY Zenon, <1>h, <1>u, <1>1 DEF ghosts
      <3>2. pc[p] \in {"preflight", "stage"} /\ pc'[p] \in {"stage", "cleanupList"}
        BY Zenon, <1>o, <2>2
      <3> QED
        BY <1>c, <2>2, <2>3, <3>1, <3>2, BuildStep
    <2>5. HostTypes'
      BY Zenon, <1>t, <1>u, <1>1, <2>1 DEF HostTypes, ghosts, bounds
    <2> QED
      BY Zenon, <2>2, <2>4, <2>5, TypesNext DEF IInv
  <1>2. ASSUME CanBoot(n, b), Fault, vm' \in {vm, [vm EXCEPT ![n][b] = "running"]},
               pc' = [pc EXCEPT ![p] = "cleanupList"], own' = [own EXCEPT ![p] = @ \cup {n}],
               dirty' = dirty \cup {c},
               UNCHANGED <<op, at, todo, found, deleted, condemned, blind, unforgotten>>
        PROVE  IInv'
    <2>1. /\ vm' \in [Nodes -> [Backends -> {"absent", "running", "stopped"}]]
          /\ \A m \in Nodes, d \in Backends :
               Exists(m, d)' => Exists(m, d) \/ (m = n /\ d = Home(p))
      BY Zenon, <1>2, <1>b, <1>t, Booted
    <2>2. /\ ProcTypes' /\ (\A q \in Procs \ {p} : Same(q))
          /\ DOMAIN op' = Procs /\ DOMAIN at' = Procs
          /\ pc'[p] = "cleanupList" /\ op'[p] = op[p] /\ own'[p] = W
      <3>1. /\ found' = [found EXCEPT ![p] = found[p]] /\ own' = [own EXCEPT ![p] = W]
            /\ pc' = [pc EXCEPT ![p] = "cleanupList"] /\ UNCHANGED <<op, at, todo>>
        BY Zenon, <1>2, <1>t, <1>w DEF ProcTypes
      <3>2. found[p] \in SUBSET Nodes /\ "cleanupList" \in Steps
        BY Zenon, <1>t DEF ProcTypes, Steps
      <3> QED
        BY ZenonT(30), <3>1, <3>2, GotoLocal
    <2>3. /\ \A m \in Nodes, d \in Backends : Exists(m, d)' =>
               Exists(m, d) \/ (m \in NodesOf(c) /\ m \in own'[p] /\ d = Home(p))
          /\ own[p] \subseteq own'[p] /\ Staged(p)'
      BY Zenon, <1>n, <1>w, <2>1, <2>2 DEF Staged
    <2>4. Operations' /\ Exclusive' /\ Locals' /\ Clean'
      <3>1. /\ UNCHANGED <<blind, deleted, contexts>> /\ dirty' \subseteq dirty \cup {c}
            /\ (service => service') /\ (Home(p) = "krunkit" \/ service')
        BY Zenon, <1>h, <1>u, <1>2
      <3>2. /\ pc[p] \in {"preflight", "stage"} /\ pc'[p] \in {"stage", "cleanupList"}
            /\ (pc'[p] = "stage" => dirty' = dirty)
        BY Zenon, <1>o, <2>2
      <3> QED
        BY <1>c, <2>2, <2>3, <3>1, <3>2, BuildStep
    <2>5. HostTypes'
      BY Zenon, <1>t, <1>u, <1>2, <2>1, FaultBound DEF HostTypes
    <2> QED
      BY Zenon, <2>2, <2>4, <2>5, TypesNext DEF IInv
  <1>3. ASSUME Fails(p), UNCHANGED <<vm, bounds>> PROVE IInv'
    <2>1. /\ ProcTypes' /\ Operations' /\ Exclusive' /\ Locals' /\ Clean' /\ dirty' \subseteq Clusters
      BY Zenon, <1>o, <1>u, <1>3, FailsStep
    <2>2. HostTypes'
      BY Zenon, <1>t, <1>u, <1>3, <2>1 DEF HostTypes, bounds, Fails
    <2> QED
      BY Zenon, <2>1, <2>2, TypesNext DEF IInv
  <1> QED
    BY ZenonT(30), <1>1, <1>2, <1>3, <1>b, <1>c, <1>n DEF BootNode

LEMMA UseStep ==
  ASSUME IInv, NEW p \in Procs, UseNodes(p) PROVE IInv'
  <1>t. ProcTypes /\ HostTypes /\ TypeOK
    BY Zenon, Types DEF IInv
  <1>o. /\ pc[p] = "stage" /\ op[p].name = "create" /\ op[p].kind \in AllKinds
        /\ pc[p] \in Building /\ Stage(p).do # "config"
    BY Zenon, OperationOf DEF UseNodes, Building
  <1>u. UNCHANGED <<vm, service, contexts>>
    BY Zenon DEF UseNodes
  <1>e. \A n, b : Exists(n, b)' <=> Exists(n, b)
    BY Zenon, <1>u DEF Exists
  <1>1. CASE Enter(p, at[p] + 1) /\ UNCHANGED <<op, found, own, ghosts, bounds>>
    <2>1. PICK i \in 1 .. Len(Stages[op[p].kind]) : i = at[p] + 1
      BY Zenon, <1>o, InPath
    <2>2. own[p] \in SUBSET Nodes /\ own' = [own EXCEPT ![p] = own[p]]
      BY Zenon, <1>t, <1>1 DEF ProcTypes
    <2>3. /\ ProcTypes' /\ (\A q \in Procs \ {p} : Same(q))
          /\ DOMAIN op' = Procs /\ DOMAIN at' = Procs
          /\ pc'[p] = "stage" /\ op'[p] = op[p] /\ at'[p] = i /\ own'[p] = own[p]
      BY ZenonT(60), <1>o, <1>1, <2>1, <2>2, EnterLocal
    <2>4. Staged(p)'
      <3>1. i # 0
        OBVIOUS
      <3> QED
        BY Zenon, <2>3, <3>1 DEF Staged
    <2>5. Home(p) = "krunkit" \/ service'
      BY Zenon, <1>o, <1>u DEF IInv, Locals, Builder, Reaches
    <2>6. Operations' /\ Exclusive' /\ Locals' /\ Clean'
      BY Zenon, <1>o, <1>u, <1>e, <1>1, <2>3, <2>4, <2>5, BuildStep DEF ghosts
    <2>7. HostTypes'
      BY Zenon, <1>t, <1>u, <1>1 DEF HostTypes, ghosts, bounds
    <2> QED
      BY Zenon, <2>3, <2>6, <2>7, TypesNext DEF IInv
  <1>2. CASE Fails(p) /\ (UNCHANGED bounds \/ Fault)
    <2>1. /\ ProcTypes' /\ Operations' /\ Exclusive' /\ Locals' /\ Clean' /\ dirty' \subseteq Clusters
      BY Zenon, <1>o, <1>u, <1>2, FailsStep
    <2>b. faults' \in 0 .. MaxFaults /\ reboots' \in 0 .. MaxReboots
      BY Zenon, <1>t, <1>2, FaultBound DEF HostTypes, bounds
    <2>2. HostTypes'
      BY Zenon, <1>t, <1>u, <1>2, <2>1, <2>b DEF HostTypes, Fails
    <2> QED
      BY Zenon, <2>1, <2>2, TypesNext DEF IInv
  <1> QED
    BY Zenon, <1>1, <1>2 DEF UseNodes

LEMMA ConfigStep ==
  ASSUME IInv, NEW p \in Procs, WriteKubeconfig(p) PROVE IInv'
  <1>t. ProcTypes /\ HostTypes /\ TypeOK
    BY Zenon, Types DEF IInv
  <1>o. /\ pc[p] = "stage" /\ op[p].name = "create" /\ pc[p] \in Building /\ pc[p] \notin Cleaning
    BY Zenon, OperationOf DEF WriteKubeconfig, Building, Cleaning
  <1>c. PICK c \in Clusters : c = op[p].cluster
    BY Zenon, <1>o, OperationOf
  <1>u. UNCHANGED <<vm, service>>
    BY Zenon DEF WriteKubeconfig
  <1>e. \A n, b : Exists(n, b)' <=> Exists(n, b)
    BY Zenon, <1>u DEF Exists
  <1>1. CASE contexts' = contexts \cup {c} /\ Return(p) /\ UNCHANGED <<ghosts, bounds>>
    <2>1. /\ ProcTypes' /\ (\A q \in Procs \ {p} : Same(q))
          /\ DOMAIN op' = Procs /\ DOMAIN at' = Procs
          /\ op'[p] = NoOp /\ Operation(p)' /\ Staged(p)'
          /\ Builder(p)' /\ Remover(p)' /\ Finder(p)'
      BY Zenon, <1>1, ReturnLocal
    <2>2. c \notin deleted /\ c \notin dirty
      BY Zenon, <1>c, <1>o DEF IInv, Locals, Builder
    <2>3. OnOne(c)' /\ Neat(c)' /\ Gone(c)'
      BY Zenon, <1>1, <1>e, <2>2 DEF OnOne, Neat, Gone, ghosts, IInv, Clean
    <2>4. \A d \in Clusters \ {c} : Quiet(d) /\ (d \in contexts' => d \in contexts)
      BY Zenon, <1>1, <1>e DEF Quiet, Fewer, ghosts
    <2>5. Operations' /\ Exclusive' /\ Locals' /\ Clean'
      BY Zenon, <1>c, <1>o, <1>u, <2>1, <2>3, <2>4, StepOf
    <2>6. HostTypes'
      BY Zenon, <1>t, <1>u, <1>1 DEF HostTypes, ghosts, bounds
    <2> QED
      BY Zenon, <2>1, <2>5, <2>6, TypesNext DEF IInv
  <1>2. CASE Fails(p) /\ UNCHANGED contexts /\ (UNCHANGED bounds \/ Fault)
    <2>1. /\ ProcTypes' /\ Operations' /\ Exclusive' /\ Locals' /\ Clean' /\ dirty' \subseteq Clusters
      BY Zenon, <1>o, <1>u, <1>2, FailsStep
    <2>b. faults' \in 0 .. MaxFaults /\ reboots' \in 0 .. MaxReboots
      BY Zenon, <1>t, <1>2, FaultBound DEF HostTypes, bounds
    <2>2. HostTypes'
      BY Zenon, <1>t, <1>u, <1>2, <2>1, <2>b DEF HostTypes, Fails
    <2> QED
      BY Zenon, <2>1, <2>2, TypesNext DEF IInv
  <1> QED
    BY Zenon, <1>1, <1>2, <1>c DEF WriteKubeconfig

LEMMA CleanupListStep ==
  ASSUME NoNameContinues, IInv, NEW p \in Procs, CleanupList(p) PROVE IInv'
  <1>t. ProcTypes /\ HostTypes /\ TypeOK
    BY Zenon, Types DEF IInv
  <1>o. /\ pc[p] = "cleanupList" /\ op[p].name = "create" /\ op[p].kind \in AllKinds
        /\ pc[p] \in Building /\ pc[p] \in Cleaning
    BY Zenon, OperationOf DEF CleanupList, Building, Cleaning
  <1>c. PICK c \in Clusters : c = op[p].cluster
    BY Zenon, <1>o, OperationOf
  <1>u. UNCHANGED <<vm, service, contexts, ghosts, bounds>>
    BY Zenon DEF CleanupList
  <1>e. \A n, b : Exists(n, b)' <=> Exists(n, b)
    BY Zenon, <1>u DEF Exists
  <1>h. HostTypes'
    BY Zenon, <1>t, <1>u DEF HostTypes, ghosts, bounds
  <1>i. OnOne(c) /\ Neat(c) /\ Gone(c) /\ Builder(p)
    BY Zenon DEF IInv, Clean, Locals
  <1>b. /\ c \notin deleted /\ Reaches(Home(p))
        /\ c \notin blind => \A n \in NodesOf(c), b \in Backends :
             Exists(n, b) => b = Home(p) /\ n \in own[p]
    BY Zenon, <1>c, <1>i, <1>o DEF Builder
  <1>1. CASE ListFails(c)
    <2>1. Return(p)
      BY Zenon, <1>1, <1>c DEF CleanupList
    <2>2. c \notin blind => NodesGone(c)
      <3>1. c \notin blind => ~service /\ \A n \in NodesOf(c) : ~Exists(n, "krunkit")
        BY Zenon, <1>1, <1>i, ListSees
      <3>2. c \notin blind /\ Home(p) = "krunkit" => NodesGone(c)
        BY Zenon, <1>b, <3>1 DEF NodesGone, Backends
      <3> QED
        BY Zenon, <1>b, <3>1, <3>2 DEF Reaches
    <2>3. c \notin blind => NodesGone(c)'
      BY Zenon, <2>2, <1>e DEF NodesGone
    <2>4. ProcTypes' /\ Operations' /\ Exclusive' /\ Locals' /\ Clean'
      BY Zenon, <1>c, <1>u, <1>e, <2>1, <2>3, ReturnStep DEF ghosts
    <2> QED
      BY Zenon, <1>h, <2>4, TypesNext DEF IInv
  <1>2. CASE ~ListFails(c)
    <2>f. PICK F \in SUBSET Nodes : F = List(c) /\ F \subseteq NodesOf(c)
      BY Zenon, ListIsOwn, NodeCluster
    <2>1. /\ pc' = [pc EXCEPT ![p] = "cleanupRemove"] /\ found' = [found EXCEPT ![p] = F]
          /\ UNCHANGED <<op, at, todo, own>>
      BY Zenon, <1>2, <1>c, <2>f DEF CleanupList
    <2>2. /\ ProcTypes' /\ (\A q \in Procs \ {p} : Same(q))
          /\ DOMAIN op' = Procs /\ DOMAIN at' = Procs
          /\ pc'[p] = "cleanupRemove" /\ op'[p] = op[p] /\ found'[p] = F /\ own'[p] = own[p]
      <3>1. own' = [own EXCEPT ![p] = own[p]]
        BY Zenon, <2>1, <1>t DEF ProcTypes
      <3>2. own[p] \in SUBSET Nodes /\ "cleanupRemove" \in Steps
        BY Zenon, <1>t DEF ProcTypes, Steps
      <3> QED
        BY ZenonT(30), <2>1, <3>1, <3>2, GotoLocal
    <2>3. Operation(p)' /\ Staged(p)'
      BY Zenon, <1>c, <1>o, <2>2 DEF Operation, Staged, Building, Cleaning
    <2>4. c \notin blind => \A n \in NodesOf(c), b \in Backends : Exists(n, b) => n \in F
      BY Zenon, <1>2, <1>i, <2>f, ListSees
    <2>5. Builder(p)'
      <3>1. Home(p)' = Home(p) /\ Reaches(Home(p))'
        BY Zenon, <1>b, <1>u, <2>2 DEF Home, Reaches
      <3>2. op'[p].cluster = c /\ pc'[p] \in Cleaning /\ blind' = blind /\ deleted' = deleted
        BY Zenon, <1>c, <1>u, <2>2 DEF Cleaning, ghosts
      <3> QED
        BY Zenon, <1>b, <1>e, <2>2, <2>4, <3>1, <3>2 DEF Builder
    <2>6. Remover(p)' /\ Finder(p)'
      BY Zenon, <1>c, <2>2, <2>f DEF Remover, Finder
    <2>7. OnOne(c)' /\ Neat(c)' /\ Gone(c)'
      BY Zenon, <1>i, <1>e, <1>u, <1>c, <2>2 DEF OnOne, Neat, Gone, NodesGone, ghosts, Cleaning
    <2>8. \A d \in Clusters : Quiet(d) /\ (d \in contexts' => d \in contexts)
      BY Zenon, <1>u, <1>e DEF Quiet, Fewer, ghosts
    <2>9. Operations' /\ Exclusive' /\ Locals' /\ Clean'
      BY Zenon, <1>c, <1>o, <1>u, <2>2, <2>3, <2>5, <2>6, <2>7, <2>8, StepOf
    <2> QED
      BY Zenon, <1>h, <2>2, <2>9, TypesNext DEF IInv
  <1> QED
    BY Zenon, <1>1, <1>2

LEMMA CleanupRemoveStep ==
  ASSUME IInv, NEW p \in Procs, CleanupRemove(p) PROVE IInv'
  <1>t. ProcTypes /\ HostTypes /\ TypeOK
    BY Zenon, Types DEF IInv
  <1>o. pc[p] = "cleanupRemove" /\ pc[p] \in Building
    BY Zenon DEF CleanupRemove, Building, Cleaning
  <1>c. PICK c \in Clusters : c = op[p].cluster
    BY Zenon, <1>o, OperationOf
  <1>u. /\ UNCHANGED <<service, contexts, ghosts, bounds>> /\ Return(p)
        /\ Set(Removable(found[p]), "absent")
    BY Zenon DEF CleanupRemove
  <1>1. /\ vm' \in [Nodes -> [Backends -> {"absent", "running", "stopped"}]]
        /\ \A n \in Nodes, b \in Backends : Exists(n, b)' => Exists(n, b)
    BY Zenon, <1>t, <1>u, SetKeeps
  <1>2. c \notin blind => NodesGone(c)'
    <2>1. OnOne(c) /\ Builder(p)
      BY Zenon DEF IInv, Clean, Locals
    <2>2. c \notin blind => \A n \in NodesOf(c), b \in Backends :
                              Exists(n, b) => n \in found[p] /\ Reaches(b)
      BY Zenon, <1>c, <1>o, <2>1 DEF Builder
    <2> QED
      BY Zenon, <1>t, <1>u, <2>1, <2>2, RemoveAll
  <1>3. ProcTypes' /\ Operations' /\ Exclusive' /\ Locals' /\ Clean'
    BY Zenon, <1>c, <1>u, <1>1, <1>2, ReturnStep DEF ghosts
  <1>4. HostTypes'
    BY Zenon, <1>t, <1>u, <1>1 DEF HostTypes, ghosts, bounds
  <1> QED
    BY Zenon, <1>3, <1>4, TypesNext DEF IInv

-----------------------------------------------------------------------------
(* The steps of Delete, StopNode and StartNode.                            *)

LEMMA DeleteListStep ==
  ASSUME NoNameContinues, IInv, NEW p \in Procs, DeleteList(p) PROVE IInv'
  <1>t. ProcTypes /\ HostTypes /\ TypeOK
    BY Zenon, Types DEF IInv
  <1>o. pc[p] = "list" /\ op[p].name = "delete" /\ pc[p] \notin Cleaning
    BY Zenon, OperationOf DEF DeleteList, Cleaning
  <1>c. PICK c \in Clusters : c = op[p].cluster
    BY Zenon, <1>o, OperationOf
  <1>u. UNCHANGED <<vm, service, contexts, ghosts, bounds>>
    BY Zenon DEF DeleteList
  <1>e. \A n, b : Exists(n, b)' <=> Exists(n, b)
    BY Zenon, <1>u DEF Exists
  <1>h. HostTypes'
    BY Zenon, <1>t, <1>u DEF HostTypes, ghosts, bounds
  <1>1. CASE Return(p)
    <2>1. ProcTypes' /\ Operations' /\ Exclusive' /\ Locals' /\ Clean'
      BY Zenon, <1>1, <1>o, <1>u, <1>e, ReturnStep DEF ghosts
    <2> QED
      BY Zenon, <1>h, <2>1, TypesNext DEF IInv
  <1>2. ASSUME ~ListFails(c), pc' = [pc EXCEPT ![p] = "remove"],
               found' = [found EXCEPT ![p] = List(c)], UNCHANGED <<op, at, todo, own>>
        PROVE  IInv'
    <2>f. PICK F \in SUBSET Nodes : F = List(c) /\ F \subseteq NodesOf(c)
      BY Zenon, ListIsOwn, NodeCluster
    <2>1. /\ ProcTypes' /\ (\A q \in Procs \ {p} : Same(q))
          /\ DOMAIN op' = Procs /\ DOMAIN at' = Procs
          /\ pc'[p] = "remove" /\ op'[p] = op[p] /\ found'[p] = F
      <3>0. PICK W \in SUBSET Nodes : W = own[p]
        BY Zenon, <1>t DEF ProcTypes
      <3>1. own' = [own EXCEPT ![p] = W] /\ found' = [found EXCEPT ![p] = F]
        BY Zenon, <1>2, <1>t, <2>f, <3>0 DEF ProcTypes
      <3>2. "remove" \in Steps /\ pc' = [pc EXCEPT ![p] = "remove"] /\ UNCHANGED <<op, at, todo>>
        BY Zenon, <1>2 DEF Steps
      <3> QED
        BY ZenonT(60), <3>1, <3>2, GotoLocal
    <2>2. Operation(p)' /\ Staged(p)'
      BY Zenon, <1>c, <1>o, <2>1 DEF Operation, Staged
    <2>i. OnOne(c) /\ Neat(c) /\ Gone(c)
      BY Zenon DEF IInv, Clean
    <2>3. c \notin blind =>
            \A n \in NodesOf(c), b \in Backends : Exists(n, b) => n \in F /\ Reaches(b)
      BY Zenon, <1>2, <2>i, <2>f, ListSees
    <2>4. Builder(p)' /\ Remover(p)' /\ Finder(p)'
      <3>1. op'[p].cluster = c /\ blind' = blind /\ \A b : Reaches(b)' <=> Reaches(b)
        BY Zenon, <1>c, <1>u, <2>1 DEF ghosts, Reaches
      <3>2. Remover(p)'
        BY Zenon, <1>e, <2>1, <2>3, <3>1 DEF Remover
      <3> QED
        BY Zenon, <2>1, <2>f, <3>1, <3>2 DEF Builder, Building, Cleaning, Finder
    <2>5. OnOne(c)' /\ Neat(c)' /\ Gone(c)'
      BY Zenon, <1>o, <1>e, <1>u, <2>1, <2>i DEF OnOne, Neat, Gone, NodesGone, ghosts, Same
    <2>6. \A d \in Clusters : Quiet(d) /\ (d \in contexts' => d \in contexts)
      BY Zenon, <1>u, <1>e DEF Quiet, Fewer, ghosts
    <2>7. Fewer(op[p].cluster) /\ op'[p] \in {op[p], NoOp} /\ (service => service')
      BY Zenon, <1>c, <1>u, <2>1, <2>6 DEF Quiet
    <2>8. Operations' /\ Exclusive' /\ Locals' /\ Clean'
      BY Zenon, <1>c, <1>o, <2>1, <2>2, <2>4, <2>5, <2>6, <2>7, StepOf
    <2> QED
      BY Zenon, <1>h, <2>1, <2>8, TypesNext DEF IInv
  <1> QED
    BY Zenon, <1>1, <1>2, <1>c DEF DeleteList

LEMMA DeleteRemoveStep ==
  ASSUME IInv, NEW p \in Procs, DeleteRemove(p) PROVE IInv'
  <1>t. ProcTypes /\ HostTypes /\ TypeOK
    BY Zenon, Types DEF IInv
  <1>o. pc[p] = "remove" /\ op[p].name = "delete" /\ pc[p] \notin Cleaning
    BY Zenon, OperationOf DEF DeleteRemove, Cleaning
  <1>c. PICK c \in Clusters : c = op[p].cluster
    BY Zenon, <1>o, OperationOf
  <1>u. UNCHANGED <<service, contexts, ghosts>>
    BY Zenon DEF DeleteRemove
  <1>1. ASSUME Set(Removable(found[p]), "absent"), Goto(p, "forget"), UNCHANGED bounds
        PROVE  IInv'
    <2>v. /\ vm' \in [Nodes -> [Backends -> {"absent", "running", "stopped"}]]
          /\ \A n \in Nodes, b \in Backends : Exists(n, b)' => Exists(n, b)
      BY Zenon, <1>t, <1>1, SetKeeps
    <2>1. /\ ProcTypes' /\ (\A q \in Procs \ {p} : Same(q))
          /\ DOMAIN op' = Procs /\ DOMAIN at' = Procs
          /\ pc'[p] = "forget" /\ op'[p] = op[p]
      <3>1. /\ pc' = [pc EXCEPT ![p] = "forget"] /\ UNCHANGED <<op, at, todo>>
            /\ found' = [found EXCEPT ![p] = found[p]] /\ own' = [own EXCEPT ![p] = own[p]]
        BY Zenon, <1>1, <1>t DEF Goto, ProcTypes
      <3>2. found[p] \in SUBSET Nodes /\ own[p] \in SUBSET Nodes /\ "forget" \in Steps
        BY Zenon, <1>t DEF ProcTypes, Steps
      <3> QED
        BY ZenonT(30), <3>1, <3>2, GotoLocal
    <2>2. Operation(p)' /\ Staged(p)'
      BY Zenon, <1>c, <1>o, <2>1 DEF Operation, Staged
    <2>i. OnOne(c) /\ Neat(c) /\ Gone(c) /\ Remover(p)
      BY Zenon DEF IInv, Clean, Locals
    <2>3. c \notin blind => NodesGone(c)'
      <3>1. c \notin blind => \A n \in NodesOf(c), b \in Backends :
                                Exists(n, b) => n \in found[p] /\ Reaches(b)
        BY Zenon, <1>c, <1>o, <2>i DEF Remover
      <3> QED
        BY Zenon, <1>t, <1>1, <2>i, <3>1, RemoveAll
    <2>g. blind' = blind /\ deleted' = deleted /\ dirty' = dirty /\ contexts' = contexts
      BY Zenon, <1>u DEF ghosts
    <2>4. Builder(p)' /\ Remover(p)' /\ Finder(p)'
      <3>1. op'[p].cluster = c
        BY Zenon, <1>c, <2>1
      <3> QED
        BY Zenon, <2>1, <2>3, <2>g, <3>1 DEF Builder, Remover, Building, Cleaning, Finder
    <2>6. \A d \in Clusters : Quiet(d) /\ (d \in contexts' => d \in contexts)
      BY Zenon, <2>v, <2>g, NodeCluster DEF Quiet, Fewer
    <2>5. OnOne(c)' /\ Neat(c)' /\ Gone(c)'
      <3>1. NodesGone(c) => NodesGone(c)'
        BY Zenon, <2>6 DEF NodesGone, Quiet, Fewer
      <3> QED
        BY Zenon, <1>o, <2>1, <2>6, <2>g, <2>i, <3>1
           DEF OnOne, Neat, Gone, Same, Quiet, Fewer, Backends
    <2>7. Fewer(op[p].cluster) /\ op'[p] \in {op[p], NoOp} /\ (service => service')
      BY Zenon, <1>c, <1>u, <2>1, <2>6 DEF Quiet
    <2>8. Operations' /\ Exclusive' /\ Locals' /\ Clean'
      BY Zenon, <1>c, <1>o, <2>1, <2>2, <2>4, <2>5, <2>6, <2>7, StepOf
    <2>h. HostTypes'
      BY Zenon, <1>t, <1>u, <1>1, <2>v DEF HostTypes, ghosts, bounds
    <2> QED
      BY Zenon, <2>1, <2>8, <2>h, TypesNext DEF IInv
  <1>2. ASSUME Fault, Return(p), NEW S \in SUBSET Removable(found[p]), Set(S, "absent")
        PROVE  IInv'
    <2>1. Removable(S) = S
      BY Zenon DEF Removable
    <2>2. /\ vm' \in [Nodes -> [Backends -> {"absent", "running", "stopped"}]]
          /\ \A n \in Nodes, b \in Backends : Exists(n, b)' => Exists(n, b)
      BY Zenon, <1>t, <1>2, <2>1, SetKeeps
    <2>3. ProcTypes' /\ Operations' /\ Exclusive' /\ Locals' /\ Clean'
      BY Zenon, <1>o, <1>u, <1>2, <2>2, ReturnStep DEF ghosts
    <2>4. HostTypes'
      BY Zenon, <1>t, <1>u, <1>2, <2>2, FaultBound DEF HostTypes, ghosts
    <2> QED
      BY Zenon, <2>3, <2>4, TypesNext DEF IInv
  <1> QED
    BY Zenon, <1>1, <1>2 DEF DeleteRemove

LEMMA DeleteForgetStep ==
  ASSUME IInv, NEW p \in Procs, DeleteForget(p) PROVE IInv'
  <1>t. ProcTypes /\ HostTypes /\ TypeOK
    BY Zenon, Types DEF IInv
  <1>o. pc[p] = "forget" /\ op[p].name = "delete" /\ pc[p] \notin Cleaning
    BY Zenon, OperationOf DEF DeleteForget, Cleaning
  <1>c. PICK c \in Clusters : c = op[p].cluster
    BY Zenon, <1>o, OperationOf
  <1>u. UNCHANGED <<vm, service>> /\ Return(p)
    BY Zenon DEF DeleteForget
  <1>e. \A n, b : Exists(n, b)' <=> Exists(n, b)
    BY Zenon, <1>u DEF Exists
  <1>1. ASSUME contexts' = contexts \ {c}, deleted' = deleted \cup {c}, dirty' = dirty \ {c},
               unforgotten' = unforgotten \ {c}, UNCHANGED <<condemned, blind, bounds>>
        PROVE  IInv'
    <2>1. /\ ProcTypes' /\ (\A q \in Procs \ {p} : Same(q))
          /\ DOMAIN op' = Procs /\ DOMAIN at' = Procs
          /\ op'[p] = NoOp /\ Operation(p)' /\ Staged(p)'
          /\ Builder(p)' /\ Remover(p)' /\ Finder(p)'
      BY Zenon, <1>u, ReturnLocal
    <2>2. OnOne(c) /\ (c \notin blind => NodesGone(c))
      BY Zenon, <1>c, <1>o DEF IInv, Clean, Locals, Remover
    <2>3. OnOne(c)' /\ Neat(c)' /\ Gone(c)'
      BY Zenon, <1>1, <1>e, <2>2 DEF OnOne, Neat, Gone, NodesGone
    <2>4. /\ \A d \in Clusters \ {c} : Quiet(d) /\ (d \in contexts' => d \in contexts)
          /\ Fewer(c)
      BY Zenon, <1>1, <1>e DEF Quiet, Fewer
    <2>5. Operations' /\ Exclusive' /\ Locals' /\ Clean'
      BY Zenon, <1>c, <1>o, <1>u, <2>1, <2>3, <2>4, StepOf
    <2>6. HostTypes'
      BY Zenon, <1>t, <1>u, <1>1 DEF HostTypes, bounds
    <2> QED
      BY Zenon, <2>1, <2>5, <2>6, TypesNext DEF IInv
  <1>2. ASSUME Fault, unforgotten' = unforgotten \cup {c},
               UNCHANGED <<contexts, dirty, deleted, condemned, blind>>
        PROVE  IInv'
    <2>1. ProcTypes' /\ Operations' /\ Exclusive' /\ Locals' /\ Clean'
      BY Zenon, <1>o, <1>u, <1>e, <1>2, ReturnStep
    <2>2. HostTypes'
      BY Zenon, <1>t, <1>u, <1>2, FaultBound DEF HostTypes
    <2> QED
      BY Zenon, <2>1, <2>2, TypesNext DEF IInv
  <1> QED
    BY Zenon, <1>1, <1>2, <1>c DEF DeleteForget

LEMMA TurnStep ==
  ASSUME IInv, NEW p \in Procs, pc[p] = "act", NEW S, NEW s \in {"running", "stopped"},
         Turn(p, S, s)
  PROVE  IInv'
  <1>t. ProcTypes /\ HostTypes /\ TypeOK
    BY Zenon, Types DEF IInv
  <1>u. UNCHANGED <<service, contexts, ghosts>> /\ Return(p) /\ pc[p] \notin Cleaning
    BY Zenon DEF Turn, Cleaning
  <1>1. /\ vm' \in [Nodes -> [Backends -> {"absent", "running", "stopped"}]]
        /\ \A n \in Nodes, b \in Backends : Exists(n, b)' => Exists(n, b)
    <2>1. CASE Set(Removable(S), s)
      BY Zenon, <1>t, <2>1, SetKeeps
    <2>2. CASE vm' = vm
      BY Zenon, <1>t, <2>2 DEF TypeOK, Exists
    <2> QED
      BY Zenon, <2>1, <2>2 DEF Turn
  <1>2. faults' \in 0 .. MaxFaults /\ reboots' \in 0 .. MaxReboots
    BY Zenon, <1>t, FaultBound DEF Turn, bounds, HostTypes
  <1>3. ProcTypes' /\ Operations' /\ Exclusive' /\ Locals' /\ Clean'
    BY Zenon, <1>u, <1>1, ReturnStep DEF ghosts
  <1>4. HostTypes'
    BY Zenon, <1>t, <1>u, <1>1, <1>2 DEF HostTypes, ghosts
  <1> QED
    BY Zenon, <1>3, <1>4, TypesNext DEF IInv

-----------------------------------------------------------------------------
(* Calls, and the host.                                                    *)

LEMMA BeginStep ==
  ASSUME IInv, NEW p \in Procs, NEW o, NEW l \in {"check", "list", "act"}, Begin(p, o, l),
         o.name \in {"create", "delete", "stop", "start"}, o.cluster \in Clusters,
         o.name = "create" => o.kind \in AllKinds, Operation(p)',
         UNCHANGED <<dirty, deleted, blind, unforgotten>>, condemned' \subseteq Clusters
  PROVE  IInv'
  <1>t. ProcTypes /\ HostTypes /\ DOMAIN op = Procs /\ DOMAIN at = Procs
    BY Zenon, Types DEF IInv, Operations
  <1>i. pc[p] = "idle" /\ op[p] = NoOp
    BY Zenon DEF Begin, IInv, Operations, Operation, Building, Cleaning
  <1>u. /\ UNCHANGED <<vm, service, contexts, at, todo, found, own, bounds>>
        /\ pc' = [pc EXCEPT ![p] = l] /\ op' = [op EXCEPT ![p] = o]
    BY Zenon DEF Begin
  <1>1. /\ pc'[p] = l /\ op'[p] = o /\ (\A q \in Procs \ {p} : Same(q))
        /\ DOMAIN op' = Procs /\ DOMAIN at' = Procs
    BY Zenon, <1>t, <1>u DEF Same, ProcTypes
  <1>e. \A n, b : Exists(n, b)' <=> Exists(n, b)
    BY Zenon, <1>u DEF Exists
  <1>2. ProcTypes'
    <2>1. pc' \in [Procs -> Steps]
      BY Zenon, <1>t, <1>u DEF ProcTypes, Steps
    <2>2. \A q \in Procs : op'[q].name \in Operators
      BY Zenon, <1>t, <1>1 DEF ProcTypes, Same, Operators
    <2>3. at[p] = 0
      <3>1. at[p] \in 0 .. 0
        BY Zenon, <1>t, <1>i, NothingToDo DEF ProcTypes
      <3> QED
        BY <3>1
    <2>4. 0 \in 0 .. (IF o.name = "create" THEN Len(Stages[o.kind]) ELSE 0)
      <3>1. o.name = "create" => Len(Stages[o.kind]) \in Nat
        BY Zenon, Paths DEF Path
      <3> QED
        BY <3>1
    <2>5. \A q \in Procs :
            at'[q] \in 0 .. (IF op'[q].name = "create" THEN Len(Stages[op'[q].kind]) ELSE 0)
      BY Zenon, <1>t, <1>u, <1>1, <2>3, <2>4 DEF ProcTypes, Same
    <2> QED
      BY Zenon, <1>t, <1>u, <2>1, <2>2, <2>5 DEF ProcTypes
  <1>3. HostTypes'
    BY Zenon, <1>t, <1>u DEF HostTypes, bounds
  <1>4. Operations'
    <2>1. \A q \in Procs \ {p} : Operation(q)' /\ Staged(q)'
      <3> TAKE q \in Procs \ {p}
      <3>1. Operation(q) /\ Staged(q) /\ Same(q)
        BY Zenon, <1>1 DEF IInv, Operations
      <3>2. Operation(q)'
        BY ZenonT(30), <3>1 DEF Operation, Same
      <3> QED
        BY Zenon, <3>1, <3>2 DEF Staged, Same
    <2>2. Staged(p)'
      BY Zenon, <1>1 DEF Staged
    <2> QED
      BY Zenon, <1>1, <2>1, <2>2 DEF Operations
  <1>5. Exclusive'
    <2> SUFFICES ASSUME NEW q \in Procs, NEW r \in Procs, q # r,
                        op'[q].name = "create", op'[r].cluster = op'[q].cluster
                 PROVE  op'[r].name \in {"stop", "start"}
      BY Zenon DEF Exclusive
    <2>c. \A s \in Procs : op[s].cluster = o.cluster => Compatible(o.name, op[s].name)
      BY Zenon DEF Begin
    <2>1. CASE q = p
      <3>1. op'[r] = op[r] /\ op[r].cluster = o.cluster /\ o.name = "create"
        BY Zenon, <1>1, <2>1 DEF Same
      <3>2. Compatible("create", op[r].name)
        BY Zenon, <2>c, <3>1
      <3> QED
        BY Zenon, <3>1, <3>2 DEF Compatible
    <2>2. CASE r = p
      <3>1. op'[q] = op[q] /\ op[q].cluster = o.cluster /\ op[q].name = "create" /\ op'[r] = o
        BY Zenon, <1>1, <2>2 DEF Same
      <3>2. Compatible(o.name, "create")
        BY Zenon, <2>c, <3>1
      <3> QED
        BY Zenon, <3>1, <3>2 DEF Compatible
    <2>3. CASE q # p /\ r # p
      BY ZenonT(30), <1>1, <2>3 DEF IInv, Exclusive, Same
    <2> QED
      BY Zenon, <2>1, <2>2, <2>3
  <1>6. \A c : Quiet(c)
    BY Zenon, <1>e DEF Quiet, Fewer
  <1>7. Locals'
    <2> SUFFICES ASSUME NEW q \in Procs PROVE Builder(q)' /\ Remover(q)' /\ Finder(q)'
      BY Zenon DEF Locals
    <2>1. CASE q = p
      BY Zenon, <1>1, <2>1 DEF Builder, Remover, Finder, Building, Cleaning
    <2>2. CASE q # p
      <3>1. Same(q) /\ (service => service') /\ Builder(q) /\ Remover(q) /\ Finder(q)
        BY Zenon, <1>1, <1>u, <2>2 DEF IInv, Locals
      <3>2. Quiet(op[q].cluster) /\ Fewer(op[q].cluster)
        BY Zenon, <1>6 DEF Quiet
      <3> QED
        BY Zenon, <3>1, <3>2, LocalsKept
    <2> QED
      BY Zenon, <2>1, <2>2
  <1>8. Clean'
    <2> SUFFICES ASSUME NEW c \in Clusters PROVE OnOne(c)' /\ Neat(c)' /\ Gone(c)'
      BY Zenon DEF Clean
    <2>1. OnOne(c) /\ Neat(c) /\ Gone(c) /\ op[p].cluster # c
      BY Zenon, <1>i, NothingToDo, LifecycleAssumption DEF IInv, Clean
    <2>2. Quiet(c) /\ (c \in contexts' => c \in contexts)
      BY Zenon, <1>6, <1>u
    <2> QED
      BY Zenon, <1>1, <2>1, <2>2, ClusterKept
  <1> QED
    BY Zenon, <1>2, <1>3, <1>4, <1>5, <1>7, <1>8, TypesNext DEF IInv

LEMMA CallStep ==
  ASSUME NoNameContinues, IInv, NEW p \in Procs, NEW c \in Clusters, Call(p, c) PROVE IInv'
  <1>t. HostTypes /\ DOMAIN pc = Procs /\ DOMAIN op = Procs
    BY Zenon, Types DEF IInv, ProcTypes, Operations
  <1>1. ASSUME NEW k \in Kinds[c], Create(p, c, k) PROVE IInv'
    <2>k. k \in AllKinds
      BY Zenon, LifecycleAssumption
    <2>1. PICK o : o = [name |-> "create", cluster |-> c, kind |-> k, node |-> None]
      BY Zenon
    <2>2. o.name = "create" /\ o.cluster = c /\ o.kind = k
      BY <2>1
    <2>3. Begin(p, o, "check") /\ UNCHANGED ghosts
      BY Zenon, <1>1, <2>1 DEF Create
    <2>4. pc'[p] = "check" /\ op'[p] = o
      BY Zenon, <1>t, <2>3 DEF Begin
    <2>5. Operation(p)'
      BY Zenon, <2>2, <2>4, <2>k DEF Operation
    <2>6. UNCHANGED <<dirty, deleted, blind, unforgotten>> /\ condemned' \subseteq Clusters
      BY Zenon, <1>t, <2>3 DEF ghosts, HostTypes
    <2> QED
      BY Zenon, <2>2, <2>3, <2>5, <2>6, <2>k, BeginStep
  <1>2. ASSUME Delete(p, c) PROVE IInv'
    <2>1. PICK o : o = [name |-> "delete", cluster |-> c, kind |-> None, node |-> None]
      BY Zenon
    <2>2. o.name = "delete" /\ o.cluster = c
      BY <2>1
    <2>3. Begin(p, o, "list")
      BY Zenon, <1>2, <2>1 DEF Delete
    <2>4. pc'[p] = "list" /\ op'[p] = o
      BY Zenon, <1>t, <2>3 DEF Begin
    <2>5. Operation(p)'
      BY Zenon, <2>2, <2>4 DEF Operation
    <2>6. UNCHANGED <<dirty, deleted, blind, unforgotten>> /\ condemned' \subseteq Clusters
      BY Zenon, <1>t, <1>2 DEF Delete, HostTypes
    <2> QED
      BY Zenon, <2>2, <2>3, <2>5, <2>6, BeginStep
  <1>3. ASSUME NEW s \in {"stop", "start"}, NEW n \in Nodes, Change(p, s, c, n) PROVE IInv'
    <2>n. n \in NodesOf(c)
      BY Zenon, <1>3, ListIsOwn DEF Change
    <2>1. PICK o : o = [name |-> s, cluster |-> c, kind |-> None, node |-> n]
      BY Zenon
    <2>2. o.name = s /\ o.cluster = c /\ o.node = n
      BY <2>1
    <2>3. Begin(p, o, "act") /\ UNCHANGED ghosts
      BY Zenon, <1>3, <2>1 DEF Change
    <2>4. pc'[p] = "act" /\ op'[p] = o
      BY Zenon, <1>t, <2>3 DEF Begin
    <2>5. Operation(p)'
      BY Zenon, <2>2, <2>4, <2>n DEF Operation
    <2>6. UNCHANGED <<dirty, deleted, blind, unforgotten>> /\ condemned' \subseteq Clusters
      BY Zenon, <1>t, <2>3 DEF ghosts, HostTypes
    <2>7. o.name \in {"create", "delete", "stop", "start"} /\ o.name # "create"
      BY Zenon, <2>2
    <2> QED
      BY Zenon, <2>2, <2>3, <2>5, <2>6, <2>7, BeginStep
  <1> QED
    BY Zenon, <1>1, <1>2, <1>3 DEF Call

LEMMA RebootStep ==
  ASSUME IInv, Reboot PROVE IInv'
  <1>t. ProcTypes /\ HostTypes
    BY Zenon, Types DEF IInv
  <1>1. \A p \in Procs : /\ pc'[p] = "idle" /\ op'[p] = NoOp /\ at'[p] = 0
    BY Zenon DEF Reboot
  <1>e. /\ vm' \in [Nodes -> [Backends -> {"absent", "running", "stopped"}]]
        /\ \A n \in Nodes, b \in Backends : Exists(n, b)' <=> Exists(n, b)
    <2>1. vm' = [n \in Nodes |-> [b \in Backends |-> IF Exists(n, b) THEN "stopped" ELSE "absent"]]
      BY Zenon DEF Reboot
    <2>2. \A n \in Nodes, b \in Backends : vm'[n][b] = IF Exists(n, b) THEN "stopped" ELSE "absent"
      BY Zenon, <2>1
    <2>3. ASSUME NEW n \in Nodes
          PROVE  [b \in Backends |-> IF Exists(n, b) THEN "stopped" ELSE "absent"]
                 \in [Backends -> {"absent", "running", "stopped"}]
      BY Zenon
    <2> QED
      BY Zenon, <2>1, <2>2, <2>3 DEF Exists
  <1>2. ProcTypes'
    <2>1. /\ pc' \in [Procs -> Steps] /\ todo' \in [Procs -> SUBSET Roles]
          /\ found' \in [Procs -> SUBSET Nodes] /\ own' \in [Procs -> SUBSET Nodes]
      BY Zenon DEF Reboot, Steps
    <2>2. 0 \in 0 .. 0
      OBVIOUS
    <2> QED
      BY Zenon, <1>1, <2>1, <2>2, NothingToDo DEF ProcTypes, Operators
  <1>3. HostTypes'
    <2>1. reboots' \in 0 .. MaxReboots /\ faults' \in 0 .. MaxFaults
      BY <1>t, LifecycleAssumption DEF Reboot, HostTypes
    <2>2. unforgotten' \subseteq Clusters
      <3>1. \A p \in Procs : pc[p] \in {"forget"} => op[p].cluster \in Clusters
        BY Zenon, OperationOf
      <3>2. Busy({"forget"}) \subseteq Clusters
        BY <3>1 DEF Busy
      <3> QED
        BY Zenon, <1>t, <3>2 DEF Reboot, HostTypes
    <2> QED
      BY Zenon, <1>t, <1>e, <2>1, <2>2 DEF Reboot, HostTypes
  <1>4. Operations' /\ Exclusive' /\ Locals'
    <2>1. DOMAIN op' = Procs /\ DOMAIN at' = Procs
      BY Zenon DEF Reboot
    <2>2. Operations'
      BY Zenon, <1>1, <2>1 DEF Operations, Operation, Staged
    <2>3. Exclusive'
      BY Zenon, <1>1, NothingToDo DEF Exclusive
    <2>4. Locals'
      BY Zenon, <1>1 DEF Locals, Builder, Remover, Finder, Building, Cleaning
    <2> QED
      BY Zenon, <2>2, <2>3, <2>4
  <1>5. Clean'
    <2> SUFFICES ASSUME NEW c \in Clusters PROVE OnOne(c)' /\ Neat(c)' /\ Gone(c)'
      BY Zenon DEF Clean
    <2>1. OnOne(c) /\ Neat(c) /\ Gone(c) /\ \A n \in NodesOf(c) : n \in Nodes
      BY Zenon, NodeCluster DEF IInv, Clean
    <2>2. (NodesGone(c) => NodesGone(c)') /\ OnOne(c)'
      <3>1. blind' = blind
        BY Zenon DEF Reboot
      <3> QED
        BY Zenon, <1>e, <2>1, <3>1 DEF NodesGone, OnOne, Backends
    <2>3. Gone(c)'
      BY Zenon, <2>1, <2>2 DEF Gone, Reboot
    <2>4. Neat(c)'
      <3>1. dirty' = dirty \ Busy(Cleaning) /\ blind' = blind
        BY Zenon DEF Reboot, Cleaning
      <3>2. \A p \in Procs : pc[p] \in Cleaning => op[p].cluster \in Busy(Cleaning)
        BY DEF Busy
      <3> QED
        BY Zenon, <2>1, <2>2, <3>1, <3>2 DEF Neat
    <2> QED
      BY Zenon, <2>2, <2>3, <2>4
  <1> QED
    BY Zenon, <1>2, <1>3, <1>4, <1>5, TypesNext DEF IInv

LEMMA InitInv == Init => IInv
  <1> SUFFICES ASSUME Init PROVE IInv
    BY Zenon
  <1>1. \A p \in Procs : pc[p] = "idle" /\ op[p] = NoOp /\ at[p] = 0
    BY Zenon DEF Init
  <1>2. ProcTypes
    <2>1. /\ pc \in [Procs -> Steps] /\ todo \in [Procs -> SUBSET Roles]
          /\ found \in [Procs -> SUBSET Nodes] /\ own \in [Procs -> SUBSET Nodes]
      BY Zenon DEF Init, Steps
    <2>2. 0 \in 0 .. 0
      OBVIOUS
    <2> QED
      BY Zenon, <1>1, <2>1, <2>2, NothingToDo DEF ProcTypes, Operators
  <1>e. /\ vm \in [Nodes -> [Backends -> {"absent", "running", "stopped"}]]
        /\ \A n \in Nodes, b \in Backends : ~Exists(n, b)
    <2>1. vm = [n \in Nodes |-> [b \in Backends |-> "absent"]]
      BY Zenon DEF Init
    <2> QED
      BY Zenon, <2>1 DEF Exists
  <1>3. HostTypes
    <2>1. 0 \in 0 .. MaxFaults /\ 0 \in 0 .. MaxReboots
      BY LifecycleAssumption
    <2> QED
      BY Zenon, <1>e, <2>1 DEF Init, HostTypes
  <1>4. Operations /\ Exclusive /\ Locals
    <2>1. DOMAIN op = Procs /\ DOMAIN at = Procs
      BY Zenon DEF Init
    <2>2. Operations
      BY Zenon, <1>1, <2>1 DEF Operations, Operation, Staged
    <2>3. Exclusive
      BY Zenon, <1>1, NothingToDo DEF Exclusive
    <2>4. Locals
      BY Zenon, <1>1 DEF Locals, Builder, Remover, Finder, Building, Cleaning
    <2> QED
      BY Zenon, <2>2, <2>3, <2>4
  <1>5. Clean
    BY Zenon, <1>e, NodeCluster DEF Clean, OnOne, Neat, Gone, Init, Backends
  <1> QED
    BY Zenon, <1>2, <1>3, <1>4, <1>5, Types DEF IInv

LEMMA NextInv ==
  ASSUME NoNameContinues
  PROVE  IInv /\ [Next]_vars => IInv'
  <1> SUFFICES ASSUME IInv, [Next]_vars PROVE IInv'
    BY Zenon
  <1>1. ASSUME UNCHANGED vars PROVE IInv'
    <2>1. /\ UNCHANGED <<vm, service, contexts, pc, op, at, todo, found, own>>
          /\ UNCHANGED <<dirty, deleted, condemned, blind, unforgotten, faults, reboots>>
      BY Zenon, <1>1 DEF vars, procs, ghosts, bounds
    <2>e. \A n, b : (Exists(n, b)' <=> Exists(n, b)) /\ (Reaches(b)' <=> Reaches(b))
      BY Zenon, <2>1 DEF Exists, Reaches
    <2>g. \A c : NodesGone(c)' <=> NodesGone(c)
      BY Zenon, <2>e DEF NodesGone
    <2>2. TypeOK'
      BY Zenon, <2>1 DEF IInv, TypeOK
    <2>3. Operations' /\ Exclusive'
      BY ZenonT(30), <2>1 DEF IInv, Operations, Operation, Staged, Exclusive
    <2>4. Locals'
      <3> SUFFICES ASSUME NEW p \in Procs PROVE Builder(p)' /\ Remover(p)' /\ Finder(p)'
        BY Zenon DEF Locals
      <3>1. /\ Same(p) /\ (service => service') /\ Builder(p) /\ Remover(p) /\ Finder(p)
            /\ Quiet(op[p].cluster) /\ Fewer(op[p].cluster)
        BY Zenon, <2>1, <2>e DEF IInv, Locals, Same, Quiet, Fewer
      <3> QED
        BY Zenon, <3>1, LocalsKept
    <2>5. Clean'
      BY Zenon, <2>1, <2>e, <2>g DEF IInv, Clean, OnOne, Neat, Gone
    <2> QED
      BY Zenon, <2>2, <2>3, <2>4, <2>5 DEF IInv
  <1>2. ASSUME NEW p \in Procs, Step(p) PROVE IInv'
    <2>1. StopNode(p) => IInv'
      BY Zenon, TurnStep DEF StopNode
    <2>2. StartNode(p) => IInv'
      BY Zenon, TurnStep DEF StartNode
    <2> QED
      BY Zenon, <1>2, <2>1, <2>2, CheckStep, PreflightStep, BootStep, UseStep, ConfigStep,
         CleanupListStep, CleanupRemoveStep, DeleteListStep, DeleteRemoveStep, DeleteForgetStep
         DEF Step
  <1>3. ASSUME NEW p \in Procs, RefuseConfig(p) PROVE IInv'
    BY Zenon, <1>3, RefuseStep
  <1>4. ASSUME NEW p \in Procs, NEW c \in Clusters, Call(p, c) PROVE IInv'
    BY Zenon, <1>4, CallStep
  <1> QED
    BY Zenon, <1>1, <1>2, <1>3, <1>4, RebootStep DEF Next

-----------------------------------------------------------------------------
(* The theorems.                                                           *)

LEMMA SpecInv == ASSUME NoNameContinues PROVE Spec => []IInv
  BY InitInv, NextInv, PTL DEF Spec

\* Types hold of every behaviour of Create, Delete, StopNode and StartNode.
THEOREM LifecycleTypes == ASSUME NoNameContinues PROVE Spec => []TypeOK
  <1>1. IInv => TypeOK
    BY Zenon DEF IInv
  <1> QED
    BY <1>1, SpecInv, PTL

\* cleanupOnFailure leaves nothing of a failed Create, for any number of processes that
\* stop, start, delete and create, of faults and of reboots.
THEOREM CreateCleansUp == ASSUME NoNameContinues PROVE Spec => []FailedCreateClean
  <1>1. IInv => FailedCreateClean
    <2> SUFFICES ASSUME IInv, NEW c \in dirty \ blind, \A p \in Procs : op[p].cluster # c
                 PROVE  NodesGone(c)
      BY Zenon DEF FailedCreateClean
    <2>1. c \in Clusters
      BY Zenon DEF IInv, TypeOK
    <2> QED
      BY Zenon, <2>1 DEF IInv, Clean, Neat
  <1> QED
    BY <1>1, SpecInv, PTL

\* A Delete that reported success left no node and no kubeconfig entry.
THEOREM DeleteDeletes == ASSUME NoNameContinues PROVE Spec => []DeletedMeansGone
  <1>1. IInv => DeletedMeansGone
    <2> SUFFICES ASSUME IInv, NEW c \in deleted \ blind PROVE c \notin contexts /\ NodesGone(c)
      BY Zenon DEF DeletedMeansGone
    <2>1. c \in Clusters
      BY Zenon DEF IInv, TypeOK
    <2> QED
      BY Zenon, <2>1 DEF IInv, Clean, Gone
  <1> QED
    BY <1>1, SpecInv, PTL

\* RoutedRuntime.List never meets a name in both backends, but for a cluster that a
\* Create was blind to.
THEOREM NamesAreUnique == ASSUME NoNameContinues PROVE Spec => []NoDuplicateNode
  <1>1. IInv => NoDuplicateNode
    <2> SUFFICES ASSUME IInv, NEW n \in Nodes, clusterNameFromNode(n) \notin blind
                 PROVE  ~(Exists(n, "container") /\ Exists(n, "krunkit"))
      BY Zenon DEF NoDuplicateNode
    <2>1. PICK c \in Clusters : c = clusterNameFromNode(n) /\ n \in NodesOf(c)
      BY Zenon, NodeCluster
    <2> QED
      BY Zenon, <2>1 DEF IInv, Clean, OnOne
  <1> QED
    BY <1>1, SpecInv, PTL

\* A step of one process leaves the program counters of the others alone.
LEMMA OneMoves ==
  ASSUME IInv, NEW q \in Procs, Step(q) \/ RefuseConfig(q) \/ \E c \in Clusters : Call(q, c)
  PROVE  \A p \in Procs \ {q} : pc'[p] = pc[p]
  <1>1. \E l : pc' = [pc EXCEPT ![q] = l]
    <2>f. pc = [pc EXCEPT ![q] = pc[q]]
      BY Zenon DEF IInv, TypeOK
    <2>r. Return(q) => \E l : pc' = [pc EXCEPT ![q] = l]
      BY Zenon DEF Return
    <2>g. \A l : Goto(q, l) => pc' = [pc EXCEPT ![q] = l]
      BY Zenon DEF Goto
    <2>e. \A i : Enter(q, i) => pc' = [pc EXCEPT ![q] = "stage"]
      BY Zenon DEF Enter
    <2>l. Fails(q) => \E l : pc' = [pc EXCEPT ![q] = l]
      BY Zenon, <2>r, <2>g DEF Fails
    <2>1. RefuseConfig(q) => \E l : pc' = [pc EXCEPT ![q] = l]
      BY Zenon, <2>r DEF RefuseConfig
    <2>2. CheckAbsent(q) => \E l : pc' = [pc EXCEPT ![q] = l]
      BY Zenon, <2>r, <2>g DEF CheckAbsent, ProceedIf
    <2>3. Preflight(q) => \E l : pc' = [pc EXCEPT ![q] = l]
      BY Zenon, <2>r, <2>e DEF Preflight
    <2>4. ASSUME NEW r \in Roles, BootNode(q, r) PROVE \E l : pc' = [pc EXCEPT ![q] = l]
      BY Zenon, <2>4, <2>l, <2>e, <2>f DEF BootNode
    <2>5. UseNodes(q) => \E l : pc' = [pc EXCEPT ![q] = l]
      BY Zenon, <2>l, <2>e DEF UseNodes
    <2>6. WriteKubeconfig(q) => \E l : pc' = [pc EXCEPT ![q] = l]
      BY Zenon, <2>l, <2>r DEF WriteKubeconfig
    <2>7. CleanupList(q) \/ CleanupRemove(q) => \E l : pc' = [pc EXCEPT ![q] = l]
      BY Zenon, <2>r DEF CleanupList, CleanupRemove
    <2>8. DeleteList(q) \/ DeleteRemove(q) \/ DeleteForget(q) => \E l : pc' = [pc EXCEPT ![q] = l]
      BY Zenon, <2>r, <2>g DEF DeleteList, DeleteRemove, DeleteForget
    <2>9. StopNode(q) \/ StartNode(q) => \E l : pc' = [pc EXCEPT ![q] = l]
      BY Zenon, <2>r DEF StopNode, StartNode, Turn
    <2>10. ASSUME NEW c \in Clusters, Call(q, c) PROVE \E l : pc' = [pc EXCEPT ![q] = l]
      BY Zenon, <2>10 DEF Call, Create, Delete, Change, Begin
    <2> QED
      BY Zenon, <2>1, <2>2, <2>3, <2>4, <2>5, <2>6, <2>7, <2>8, <2>9, <2>10 DEF Step
  <1> QED
    BY Zenon, <1>1 DEF IInv, TypeOK

\* cleanupOnFailure removes what its own Create booted and nothing else, unless that
\* Create was blind.
THEOREM CleansItsOwn == ASSUME NoNameContinues PROVE Spec => CleansOnlyItsOwn
  <1>1. ASSUME IInv, [Next]_vars
        PROVE  [\A p \in Procs :
                  pc[p] = "cleanupRemove" /\ pc'[p] = "idle" /\ reboots' = reboots =>
                    \A n \in Nodes : vm'[n] # vm[n] => n \in own[p] \/ op[p].cluster \in blind]_vars
    <2> SUFFICES ASSUME Next, NEW p \in Procs, pc[p] = "cleanupRemove", pc'[p] = "idle",
                        reboots' = reboots, NEW n \in Nodes, vm'[n] # vm[n]
                 PROVE  n \in own[p] \/ op[p].cluster \in blind
      BY Zenon, <1>1
    <2>r. ~Reboot
      BY <1>1 DEF Reboot, IInv, TypeOK
    <2>q. PICK q \in Procs : Step(q) \/ RefuseConfig(q) \/ \E c \in Clusters : Call(q, c)
      BY Zenon, <2>r DEF Next
    <2>1. q = p
      BY Zenon, <1>1, <2>q, OneMoves
    <2>2. CleanupRemove(p)
      BY ZenonT(60), <2>q, <2>1 DEF Step, RefuseConfig, CheckAbsent, ProceedIf, Preflight, BootNode,
         UseNodes, WriteKubeconfig, CleanupList, DeleteList, DeleteRemove, DeleteForget, StopNode,
         StartNode, Call, Create, Delete, Change, Begin
    <2>3. n \in found[p] /\ Exists(n, backendFor(n)) /\ backendFor(n) \in Backends
      BY Zenon, <1>1, <2>2, SetKeeps DEF CleanupRemove, IInv, backendFor, Backends
    <2>4. n \in NodesOf(op[p].cluster) /\ Builder(p) /\ pc[p] \in Building
      BY Zenon, <1>1, <2>3 DEF IInv, Locals, Finder, Building, Cleaning
    <2> QED
      BY Zenon, <2>3, <2>4 DEF Builder
  <1> QED
    BY <1>1, SpecInv, PTL DEF Spec, CleansOnlyItsOwn

\* Every operation acts on nodes of the cluster it was called for: what findNode says of
\* stop and start ("never touch containers outside the named cluster"), and of Create,
\* its clean-up and Delete too, once no name continues another.
THEOREM ActsOnItsCluster == ASSUME NoNameContinues PROVE Spec => OnlyItsCluster
  <1>1. ASSUME IInv, [Next]_vars
        PROVE  [reboots' = reboots =>
                  \A n \in Nodes : vm'[n] # vm[n] =>
                    \E p \in Procs : /\ <<pc'[p], todo'[p]>> # <<pc[p], todo[p]>>
                                     /\ op[p].cluster = clusterNameFromNode(n)]_vars
    <2> SUFFICES ASSUME Next, reboots' = reboots, NEW n \in Nodes, vm'[n] # vm[n]
                 PROVE  \E p \in Procs : /\ <<pc'[p], todo'[p]>> # <<pc[p], todo[p]>>
                                         /\ op[p].cluster = clusterNameFromNode(n)
      BY Zenon, <1>1
    <2>r. ~Reboot
      BY <1>1 DEF Reboot, IInv, TypeOK
    <2>q. PICK q \in Procs : Step(q) \/ RefuseConfig(q) \/ \E c \in Clusters : Call(q, c)
      BY Zenon, <2>r DEF Next
    <2>w. ASSUME pc'[q] # pc[q] \/ todo'[q] # todo[q], NEW c \in Clusters, c = op[q].cluster,
                 n \in NodesOf(c)
          PROVE  \E p \in Procs : /\ <<pc'[p], todo'[p]>> # <<pc[p], todo[p]>>
                                  /\ op[p].cluster = clusterNameFromNode(n)
      <3>1. clusterNameFromNode(n) = op[q].cluster
        BY Zenon, <2>w, NodeCluster
      <3>2. <<pc'[q], todo'[q]>> # <<pc[q], todo[q]>>
        BY <2>w
      <3> QED
        BY Zenon, <3>1, <3>2
    <2>t. ProcTypes
      BY Zenon, <1>1, Types DEF IInv
    <2>v. \/ \E r \in Roles : BootNode(q, r)
          \/ CleanupRemove(q) \/ DeleteRemove(q) \/ StopNode(q) \/ StartNode(q)
      <3>1. ~RefuseConfig(q) /\ ~CheckAbsent(q) /\ ~Preflight(q) /\ ~UseNodes(q)
            /\ ~WriteKubeconfig(q) /\ ~CleanupList(q) /\ ~DeleteList(q) /\ ~DeleteForget(q)
        BY ZenonT(30) DEF RefuseConfig, CheckAbsent, ProceedIf, Preflight, UseNodes, WriteKubeconfig,
           CleanupList, DeleteList, DeleteForget
      <3>2. \A c \in Clusters : ~Call(q, c)
        BY ZenonT(30) DEF Call, Create, Delete, Change, Begin
      <3> QED
        BY Zenon, <2>q, <3>1, <3>2 DEF Step
    <2>1. ASSUME NEW r \in Roles, BootNode(q, r) PROVE pc'[q] # pc[q] \/ todo'[q] # todo[q]
      <3>1. pc[q] = "stage" /\ r \in todo[q] /\ Stage(q).do = "boot"
        BY Zenon, <2>1 DEF BootNode
      <3>2. CASE Enter(q, at[q] + 1)
        <4>1. Stages[op[q].kind][at[q] + 1].do # "boot"
          BY Zenon, <1>1, <3>1, InPath
        <4>2. todo'[q] = {}
          BY Zenon, <2>t, <3>2, <4>1 DEF Enter, ProcTypes
        <4> QED
          BY Zenon, <3>1, <4>2
      <3>3. CASE todo' = [todo EXCEPT ![q] = @ \ {r}]
        <4>1. todo'[q] = todo[q] \ {r}
          BY Zenon, <2>t, <3>3 DEF ProcTypes
        <4> QED
          BY Zenon, <3>1, <4>1
      <3>4. CASE pc' = [pc EXCEPT ![q] = "cleanupList"]
        BY Zenon, <2>t, <3>1, <3>4 DEF ProcTypes
      <3> QED
        BY Zenon, <2>1, <3>2, <3>3, <3>4 DEF BootNode
    <2>2. ASSUME NEW r \in Roles, BootNode(q, r)
          PROVE  \E c \in Clusters : c = op[q].cluster /\ n \in NodesOf(c)
      <3>1. PICK c \in Clusters : c = op[q].cluster
        BY Zenon, <1>1, <2>2, OperationOf DEF BootNode, Building
      <3>2. PICK m \in Nodes : m = node(c, r) /\ m \in NodesOf(c)
        BY Zenon, NodeNames
      <3>3. PICK b : b = (IF IsGPU(op[q].kind) THEN "krunkit" ELSE backendFor(m))
        BY Zenon
      <3>4. CanBoot(m, b) /\ vm' \in {vm, [vm EXCEPT ![m][b] = "running"]}
        BY Zenon, <2>2, <3>1, <3>2, <3>3 DEF BootNode
      <3>5. n = m
        BY Zenon, <1>1, <3>3, <3>4, Booted DEF IInv
      <3> QED
        BY Zenon, <3>1, <3>2, <3>5
    <2>3. ASSUME CleanupRemove(q) \/ DeleteRemove(q)
          PROVE  /\ pc'[q] # pc[q]
                 /\ \E c \in Clusters : c = op[q].cluster /\ n \in NodesOf(c)
      <3>1. pc[q] \in {"cleanupRemove", "remove"} /\ pc'[q] \in {"idle", "forget"}
        BY Zenon, <2>3, <2>t DEF CleanupRemove, DeleteRemove, Return, Goto, ProcTypes
      <3>2. n \in found[q]
        <4>1. \E S \in SUBSET Removable(found[q]) : Set(S, "absent")
          BY Zenon, <2>3 DEF CleanupRemove, DeleteRemove
        <4>2. PICK S \in SUBSET Removable(found[q]) : Set(S, "absent")
          BY Zenon, <4>1
        <4>3. Removable(S) = S /\ S \subseteq found[q]
          BY Zenon DEF Removable
        <4>4. Set(Removable(S), "absent") /\ TypeOK
          BY Zenon, <1>1, <4>2, <4>3 DEF IInv
        <4>5. n \in S
          BY ZenonT(30), <4>4, SetKeeps
        <4> QED
          BY Zenon, <4>3, <4>5
      <3>3. op[q].cluster \in Clusters /\ n \in NodesOf(op[q].cluster)
        BY Zenon, <1>1, <3>1, <3>2, OperationOf DEF IInv, Locals, Finder, Building, Cleaning
      <3> QED
        BY Zenon, <3>1, <3>3
    <2>4. ASSUME StopNode(q) \/ StartNode(q)
          PROVE  /\ pc'[q] # pc[q]
                 /\ \E c \in Clusters : c = op[q].cluster /\ n \in NodesOf(c)
      <3>1. pc[q] = "act" /\ pc'[q] = "idle"
        BY ZenonT(30), <2>4, <2>t DEF StopNode, StartNode, Turn, Return, ProcTypes
      <3>2. PICK c \in Clusters : c = op[q].cluster /\ op[q].node \in NodesOf(c)
        BY Zenon, <1>1, <3>1, OperationOf
      <3>3. List(c) \subseteq NodesOf(c)
        BY Zenon, ListIsOwn
      <3>4. PICK S \in SUBSET NodesOf(c), s \in {"running", "stopped"} : Turn(q, S, s)
        <4>1. CASE StopNode(q)
          <5>1. Turn(q, {op[q].node}, "stopped") /\ {op[q].node} \subseteq NodesOf(c)
            BY Zenon, <4>1, <3>2 DEF StopNode
          <5> QED
            BY Zenon, <5>1
        <4>2. CASE StartNode(q)
          <5>1. {op[q].node} \subseteq NodesOf(c) /\ Stopped(c) \subseteq NodesOf(c)
            BY Zenon, <3>2, <3>3 DEF Stopped
          <5>2. {} \subseteq NodesOf(c)
            BY Zenon
          <5>3. \E S \in {{op[q].node}, {}, Stopped(c)} : Turn(q, S, "running")
            BY Zenon, <4>2, <3>2 DEF StartNode
          <5> QED
            BY Zenon, <5>1, <5>2, <5>3
        <4> QED
          BY Zenon, <2>4, <4>1, <4>2
      <3>5. Set(Removable(S), s)
        BY Zenon, <3>4 DEF Turn
      <3>6. n \in S
        BY Zenon, <1>1, <3>5, SetKeeps DEF IInv
      <3> QED
        BY Zenon, <3>1, <3>2, <3>4, <3>6
    <2> QED
      BY Zenon, <2>v, <2>w, <2>1, <2>2, <2>3, <2>4
  <1> QED
    BY <1>1, SpecInv, PTL DEF Spec, OnlyItsCluster
=============================================================================
