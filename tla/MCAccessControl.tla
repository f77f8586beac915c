---------------------------- MODULE MCAccessControl ----------------------------
(* Small instances of AccessControl for TLC. *)
EXTENDS AccessControl

CONSTANT yard

MCPermissions == {1, 2}

\* 3 is no seeded permission.
MCPayloads == {{2}, {1, 2, 3}}

MCNeeds == {<<1, yard>>}
================================================================================
