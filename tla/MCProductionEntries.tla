--------------------------- MODULE MCProductionEntries -------------------------
(* ProductionEntries on small sets, for TLC. *)
EXTENDS ProductionEntries, TLC

Interchangeable == Permutations(Entries) \cup Permutations(Requests)
================================================================================
