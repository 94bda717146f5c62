--------------------------- MODULE MCKrunkitStore ---------------------------
(* Instances of KrunkitStore for TLC. *)
EXTENDS KrunkitStore, TLC

\* One cluster, or two whose IDs hash alike and the second of which has two nodes.
SharedNet == [n \in Nodes |-> 1]
PairNet   == [n \in Nodes |-> IF n = 1 THEN 1 ELSE 2]
SameHash  == [i \in NetIDs |-> 0]

ClientSymmetry == Permutations(Clients)
=============================================================================
