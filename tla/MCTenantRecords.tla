---------------------------- MODULE MCTenantRecords ----------------------------
(* Small instances of TenantRecords for TLC. *)
EXTENDS TenantRecords, TLC

CONSTANTS v1, v2

Plant == [tenant |-> TRUE, unit |-> TRUE, module |-> FALSE]
Module == [tenant |-> TRUE, unit |-> FALSE, module |-> TRUE]
Both == [tenant |-> TRUE, unit |-> TRUE, module |-> TRUE]

MCScopes == {Plant, Module, Both}

\* The third shares its code with one and its slug with the other.
MCTenants == {[code |-> 1, slug |-> 1], [code |-> 2, slug |-> 2], [code |-> 1, slug |-> 2]}

Interchangeable == Permutations(Requests) \cup Permutations(Values) \cup Permutations(Emails)
================================================================================
