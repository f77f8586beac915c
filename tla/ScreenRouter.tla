------------------------------- MODULE ScreenRouter -----------------------------
(***************************************************************************)
(* The frontend's screens together: a list screen, the roles screen or the *)
(* settings screen.  The router shows one of them at a time, and they      *)
(* share no state of the browser's.                                        *)
(***************************************************************************)
EXTENDS ListPages

CONSTANTS
  RoleTexts, NoText,                        \* what the roles form may hold
  MaxRoleSaves, MaxRoleLoads, MaxRoleOthers,
  SettingKeys, SettingValues, NoValue, BadJson,
  MaxGets, MaxPuts

ASSUME RouterAssumption ==
  /\ MaxRoleSaves \in Nat /\ MaxRoleLoads \in Nat \ {0} /\ MaxRoleOthers \in Nat
  /\ MaxGets \in Nat /\ MaxPuts \in Nat

VARIABLES
  route,
  role, ids, roleRows, rolesLoading, roleLoads, roleDialog, roleSaves, others, behind, rolesShown,
  settings, key, text, loaded, gets, put, retyped, origin

rolesVars == <<role, ids, roleRows, rolesLoading, roleLoads, roleDialog, roleSaves, others,
               behind, rolesShown>>
settingsVars == <<settings, key, text, loaded, gets, put, retyped, origin>>
screensVars == <<route, vars, rolesVars, settingsVars>>

Roles == INSTANCE RoleDialog WITH
  Texts <- RoleTexts, MaxSaves <- MaxRoleSaves, MaxLoads <- MaxRoleLoads, MaxOthers <- MaxRoleOthers,
  rows <- roleRows, loading <- rolesLoading, loads <- roleLoads,
  dialog <- roleDialog, saves <- roleSaves, shown <- rolesShown

Settings == INSTANCE SettingsForm WITH
  Keys <- SettingKeys, Values <- SettingValues, MaxLoads <- MaxGets, MaxSaves <- MaxPuts

ScreensInit ==
  /\ route \in {"list", "roles", "settings"}
  /\ Init /\ Roles!Init /\ Settings!Init

\* The screens that are not shown keep still.
ScreensNext ==
  \/ route = "list" /\ Next /\ UNCHANGED <<route, rolesVars, settingsVars>>
  \/ route = "roles" /\ Roles!Next /\ UNCHANGED <<route, vars, settingsVars>>
  \/ route = "settings" /\ Settings!Next /\ UNCHANGED <<route, vars, rolesVars>>

ScreensSpec == ScreensInit /\ [][ScreensNext]_screensVars

--------------------------------------------------------------------------------
(* Properties. *)

\* The types of the three screens' state.
ScreensTypeOK == TypeOK /\ Roles!TypeOK /\ Settings!TypeOK

\* RoleDialog: the two requests of an edit, role-form-dialog.component.ts submit().
ToastMeansSaved == Roles!ToastMeansSaved

\* RoleDialog: saving() and its error handlers, role-form-dialog.component.ts submit().
WaitsForARequest == Roles!WaitsForARequest

\* RoleDialog: roles-list.component.ts openDialog() reloads what was saved.
EditStartsFromCommitted == Roles!EditStartsFromCommitted

\* SettingsForm: settings.component.ts load() and save().
StoredWhereItWasLoaded == Settings!StoredWhereItWasLoaded
================================================================================
