-------------------------- MODULE MCWeighbridgeTickets -------------------------
(* WeighbridgeTickets on small sets, for TLC. *)
EXTENDS WeighbridgeTickets

\* A whole 0.001, two ties (a half and one and a half), and a weight that rounds to 0.
SmallWeights == {1, 2, 4, 6}
================================================================================
