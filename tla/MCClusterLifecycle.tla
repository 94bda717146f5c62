------------------------- MODULE MCClusterLifecycle -------------------------
(* Cluster names for ClusterLifecycle: one that may be on either backend,  *)
(* and two of which one is the other with a dash and more.                 *)
EXTENDS ClusterLifecycle

CONSTANTS p1, p2

Single == {<<"dev">>}
Nested == {<<"dev">>, <<"dev", "2">>}

EveryKind == [c \in Single |-> AllKinds]
OnlyKubeadm == [c \in Nested |-> {"kubeadm"}]
=============================================================================
