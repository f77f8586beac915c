-------------------------------- MODULE MCScreens ------------------------------
(* ScreenRouter on small sets, for TLC. *)
EXTENDS ScreenRouter

CONSTANTS n1, n2, d1, p1, k1, k2, v1

\* Every two differ in a field, one clears the description, and none is another's subset.
MCTexts ==
  {[name |-> n1, description |-> d1, permissions |-> {}],
   [name |-> n1, description |-> NoText, permissions |-> {p1}],
   [name |-> n2, description |-> d1, permissions |-> {p1}]}

\* One initial state is enough of each screen that is not shown.
MCInit ==
  /\ ScreensInit
  /\ route # "list" => screen = AuditList /\ present = {} /\ matching = Records
  /\ route # "roles" => role = Roles!NoRole
  /\ route # "settings" => key = k1 /\ \A k \in SettingKeys : settings[k] = NoValue

MCSpec == MCInit /\ [][ScreensNext]_screensVars
================================================================================
