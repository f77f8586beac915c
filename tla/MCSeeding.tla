------------------------------- MODULE MCSeeding -------------------------------
(* Small instances of Seeding for TLC. *)
EXTENDS Seeding, TLC

\* Everything; a permission, a role and its user, every link of a role, the year, the tenant with
\* what hangs on it, a unit, or nothing lacking.
MCAbsences ==
  {{s.key : s \in ToSet(Plan)}, {"users.view"}, {"VIEWER", "demo.viewer"}, {"links"},
   {"active_year"}, {"DEMO", "active_year", "demo.viewer"}, {"ton"}, {}}


================================================================================
