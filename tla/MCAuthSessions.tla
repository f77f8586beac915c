---------------------------- MODULE MCAuthSessions -----------------------------
(* AuthSessions on small sets, for TLC. *)
EXTENDS AuthSessions, TLC

Interchangeable == Permutations(Requests) \cup Permutations(Passwords)
================================================================================
