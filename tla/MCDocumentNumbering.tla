-------------------------- MODULE MCDocumentNumbering --------------------------
(* DocumentNumbering on small sets, for TLC. *)
EXTENDS DocumentNumbering, TLC

\* Requests are interchangeable, and so are years; NULL and the plants are not.
Interchangeable == Permutations(Requests) \cup Permutations(Years)
================================================================================
