---------------------------- MODULE NumberDispenser ----------------------------
(***************************************************************************)
(* What document numbering promises to its callers: one dispenser per      *)
(* scope, handing out 1, 2, 3, ... in order, each number to one request    *)
(* and never again, whatever fails later.                                  *)
(***************************************************************************)
EXTENDS Naturals

CONSTANTS Requests, Scopes

VARIABLES
  next,     \* next[s]: how many numbers scope s has handed out
  given     \* given[r]: the number request r was handed, 0 while it has none

vars == <<next, given>>

Init ==
  /\ next = [s \in Scopes |-> 0]
  /\ given = [r \in Requests |-> 0]

\* Request r takes the next number of scope s.
Dispense(r, s) ==
  /\ given[r] = 0
  /\ next' = [next EXCEPT ![s] = @ + 1]
  /\ given' = [given EXCEPT ![r] = next[s] + 1]

Next == \E r \in Requests, s \in Scopes : Dispense(r, s)

Spec == Init /\ [][Next]_vars
================================================================================
