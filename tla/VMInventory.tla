---------------------------- MODULE VMInventory -----------------------------
(***************************************************************************)
(* What the krunkit store promises its callers: a VM is created stopped,   *)
(* boots and halts any number of times, halts by itself when it crashes or *)
(* the host goes down, and is discarded only while it is stopped.          *)
(***************************************************************************)
CONSTANT Nodes
VARIABLE phase

Init == phase \in [Nodes -> {"absent", "running"}]

Create(n) == phase[n] = "absent"  /\ phase' = [phase EXCEPT ![n] = "stopped"]
Boot(n)   == phase[n] = "stopped" /\ phase' = [phase EXCEPT ![n] = "running"]
Discard(n) == phase[n] = "stopped" /\ phase' = [phase EXCEPT ![n] = "absent"]

Halt(S) ==
  /\ S # {} /\ \A n \in S : phase[n] = "running"
  /\ phase' = [n \in Nodes |-> IF n \in S THEN "stopped" ELSE phase[n]]

Next ==
  \/ \E n \in Nodes : Create(n) \/ Boot(n) \/ Discard(n)
  \/ \E S \in SUBSET Nodes : Halt(S)

Spec == Init /\ [][Next]_phase
=============================================================================
