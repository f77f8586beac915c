------------------------------- MODULE RoleDialog ------------------------------
(***************************************************************************)
(* The roles screen of the frontend, for one administrator and one role    *)
(* code: the list, the confirmation that deletes a role, and the dialog    *)
(* that creates or edits one.  An edit is saved by two requests, PATCH for *)
(* the name and then PUT for the permissions; either may fail, its answer  *)
(* may be lost while it is still to be processed or after it was, and the  *)
(* dialog may be dismissed in between.  A request's transaction is one     *)
(* step here; AccessControl overlaps them.                                 *)
(***************************************************************************)
EXTENDS Naturals, FiniteSets

CONSTANTS
  Texts,    \* what the form may hold: [name, description, permissions]
  NoText,   \* an empty description, and the NULL it stands for
  MaxSaves, MaxLoads, MaxOthers   \* bounds: own saves, loads of the list, changes by others

VARIABLES
  role,     \* the committed row, [id, ...], or NoRole; a role created anew has a new id
  ids,      \* how many ids were given
  rows,     \* the list's row for the role, NoRole if the list shows none
  loading,  \* whether the spinner covers the list
  loads,    \* the GETs of the list
  dialog,   \* the open dialog: its mode, its form and the save it waits for
  saves,    \* the chains of requests, one per submission or deletion; a lost one was given up
  others,   \* how often others changed the role
  behind,   \* history: the list may lack a change that was not reported as saved
  shown     \* history: the load whose answer is shown

server == <<role, ids, others>>
list == <<rows, loading, loads, shown>>
vars == <<server, list, dialog, saves, behind>>

Loads == 1..MaxLoads
Saves == 1..MaxSaves

--------------------------------------------------------------------------------
NoRole == [id |-> 0]
RoleOf(i, text, system) ==
  [id |-> i, name |-> text.name, description |-> text.description,
   permissions |-> text.permissions, system |-> system]

There == role.id # 0

NoLoad == [step |-> "none"]
NoDialog == [mode |-> "none"]
NoSave == [step |-> "none"]

\* The requests of a chain: before and after their transaction, which the browser cannot tell apart.
Before == {"patch", "put", "post", "delete"}
After == {"patched", "replaced", "posted", "deleted"}
UnderWay(s) == saves[s].step \in Before \cup After
\* The browser still waits for the answer.
Pending(s) == UnderWay(s) /\ ~saves[s].lost
Sent == Cardinality({l \in Loads : loads[l].step # "none"})
Unused(slots) == {i \in DOMAIN slots : slots[i].step = "none"}
First(set) == CHOOSE i \in set : \A j \in set : i <= j

\* saving(): the Save button is disabled.
Saving == dialog.mode # "none" /\ dialog.save # 0

Init ==
  /\ \E text \in Texts, system \in BOOLEAN : role \in {NoRole, RoleOf(1, text, system)}
  /\ ids = role.id
  /\ rows = NoRole
  /\ loading = TRUE
  /\ loads = [l \in Loads |-> IF l = 1 THEN [step |-> "sent"] ELSE NoLoad]
  /\ dialog = NoDialog
  /\ saves = [s \in Saves |-> NoSave]
  /\ others = 0
  /\ behind = FALSE
  /\ shown = 0

--------------------------------------------------------------------------------
(* The list. *)

\* load(): the first unused slot is the next GET; the bound ends a behaviour's loads.
Load ==
  /\ Unused(loads) # {}
  /\ loads' = [loads EXCEPT ![First(Unused(loads))] = [step |-> "sent"]]
  /\ loading' = TRUE
  /\ UNCHANGED <<rows, shown>>

Read(l) ==
  /\ loads[l].step = "sent"
  /\ loads' = [loads EXCEPT ![l] = [step |-> "read", role |-> role]]
  /\ UNCHANGED <<server, rows, loading, shown, dialog, saves, behind>>

Show(l) ==
  /\ loads[l].step = "read"
  /\ loads' = [loads EXCEPT ![l] = [step |-> "done"]]
  /\ rows' = loads[l].role
  /\ shown' = l
  /\ loading' = FALSE
  /\ UNCHANGED <<server, dialog, saves, behind>>

LoadFails(l) ==
  /\ loads[l].step \in {"sent", "read"}
  /\ loads' = [loads EXCEPT ![l] = [step |-> "done"]]
  /\ loading' = FALSE
  /\ behind' = TRUE
  /\ UNCHANGED <<server, rows, shown, dialog, saves>>

\* A row can be clicked while no spinner covers it.
Clickable == ~loading /\ rows.id # 0 /\ dialog.mode = "none"

FormOf(r) == [name |-> r.name, description |-> r.description, permissions |-> r.permissions]

OpenEditDialog ==
  /\ Clickable
  /\ dialog' = [mode |-> "edit", id |-> rows.id, form |-> FormOf(rows), save |-> 0]
  /\ UNCHANGED <<server, list, saves, behind>>

\* The form of a new role is empty and has to be filled in before it is valid.  The code of a system
\* role may be typed too, but makes another role, which this module does not follow.
OpenCreateDialog ==
  /\ dialog.mode = "none"
  /\ There => ~role.system
  /\ \E text \in Texts : dialog' = [mode |-> "create", id |-> 0, form |-> text, save |-> 0]
  /\ UNCHANGED <<server, list, saves, behind>>

--------------------------------------------------------------------------------
(* The dialog. *)

\* toggle() and the text fields: they stay editable while saving.
Edit ==
  /\ dialog.mode # "none"
  /\ \E text \in Texts : text # dialog.form /\ dialog' = [dialog EXCEPT !.form = text]
  /\ UNCHANGED <<server, list, saves, behind>>

\* Cancel, Escape or a click beside the dialog: afterClosed() gives no true, the list is not
\* loaded, and requests under way go on.
Dismiss ==
  /\ dialog.mode # "none"
  /\ dialog' = NoDialog
  /\ behind' = (behind \/ Saving)
  /\ UNCHANGED <<server, list, saves>>

\* submit(): the form is read once, for both requests; Save is disabled while saving.
Submit ==
  /\ dialog.mode # "none" /\ ~Saving
  /\ Unused(saves) # {}
  /\ LET s == First(Unused(saves))
     IN /\ saves' = [saves EXCEPT ![s] =
                       [step |-> IF dialog.mode = "edit" THEN "patch" ELSE "post",
                        id |-> dialog.id, text |-> dialog.form, touched |-> FALSE, lost |-> FALSE]]
        /\ dialog' = [dialog EXCEPT !.save = s]
  /\ UNCHANGED <<server, list, behind>>

\* delete(): system roles have no button; the row is confirmed first.
Delete ==
  /\ Clickable /\ ~rows.system
  /\ Unused(saves) # {}
  /\ saves' = [saves EXCEPT ![First(Unused(saves))] =
                 [step |-> "delete", id |-> rows.id, text |-> FormOf(rows), touched |-> FALSE,
                  lost |-> FALSE]]
  /\ UNCHANGED <<server, list, dialog, behind>>

--------------------------------------------------------------------------------
(* The backend: one transaction per request. *)

\* get_role() and its guard: another id is not found, a system role is refused.
Modifiable(s) == role.id = saves[s].id /\ There /\ ~role.system

\* Request s is committed: every other chain learns that the role is no longer only its own.  If
\* the browser gave it up, nobody hears of it and its chain ends here.
Committed(s, step) ==
  /\ saves' = [t \in Saves |->
       IF t = s THEN [saves[s] EXCEPT !.step = IF saves[s].lost THEN "failed" ELSE step]
       ELSE IF saves[t].step = "none" THEN saves[t]
       ELSE [saves[t] EXCEPT !.touched = TRUE]]
  /\ behind' = (behind \/ saves[s].lost)

\* update_role(): a description the form left empty arrives as null and is not written.
Patch(s) ==
  /\ saves[s].step = "patch" /\ Modifiable(s)
  /\ role' = [role EXCEPT !.name = saves[s].text.name,
                          !.description = IF saves[s].text.description = NoText THEN @
                                          ELSE saves[s].text.description]
  /\ Committed(s, "patched")
  /\ UNCHANGED <<ids, others, list, dialog>>

\* Mutation: the permissions are read from the form when the second request is sent.
PutOfForm(s) ==
  /\ saves[s].step = "put" /\ Modifiable(s)
  /\ role' = [role EXCEPT !.permissions = IF Saving /\ dialog.save = s THEN dialog.form.permissions
                                          ELSE saves[s].text.permissions]
  /\ Committed(s, "replaced")
  /\ UNCHANGED <<ids, others, list, dialog>>

\* update_role_permissions().
Put(s) ==
  /\ saves[s].step = "put" /\ Modifiable(s)
  /\ role' = [role EXCEPT !.permissions = saves[s].text.permissions]
  /\ Committed(s, "replaced")
  /\ UNCHANGED <<ids, others, list, dialog>>

\* create_role(): the code is taken while the role is there.
Post(s) ==
  /\ saves[s].step = "post" /\ ~There
  /\ ids' = ids + 1
  /\ role' = RoleOf(ids + 1, saves[s].text, FALSE)
  /\ Committed(s, "posted")
  /\ UNCHANGED <<others, list, dialog>>

\* delete_role().
Remove(s) ==
  /\ saves[s].step = "delete" /\ Modifiable(s)
  /\ role' = NoRole
  /\ Committed(s, "deleted")
  /\ UNCHANGED <<ids, others, list, dialog>>

\* Another administrator renames the role, replaces its permissions, deletes or creates it.
SomeoneElse ==
  /\ others < MaxOthers
  /\ others' = others + 1
  /\ \/ /\ There /\ ~role.system
        /\ \E text \in Texts : role' \in {NoRole, [role EXCEPT !.name = text.name],
                                          [role EXCEPT !.permissions = text.permissions]}
        /\ ids' = ids
     \/ /\ ~There
        /\ \E text \in Texts : role' = RoleOf(ids + 1, text, FALSE)
        /\ ids' = ids + 1
  /\ saves' = [t \in Saves |-> IF saves[t].step = "none" THEN saves[t]
                               ELSE [saves[t] EXCEPT !.touched = TRUE]]
  /\ behind' = TRUE
  /\ UNCHANGED <<list, dialog>>

--------------------------------------------------------------------------------
(* The answers. *)

\* updatePermissions() is called with the answer to update().
Patched(s) ==
  /\ saves[s].step = "patched"
  /\ saves' = [saves EXCEPT ![s].step = "put"]
  /\ UNCHANGED <<server, list, dialog, behind>>

\* The list is loaded for a change that was reported; what was not, may still be missing from it.
Reload(s) ==
  /\ Load
  /\ behind' = (behind /\ \E t \in Saves \ {s} : UnderWay(t))

\* Mutation: the dialog closes without a result.
SavedWithoutResult(s) ==
  /\ saves[s].step \in {"replaced", "posted"}
  /\ saves' = [saves EXCEPT ![s].step = "saved"]
  /\ dialog' = IF Saving /\ dialog.save = s THEN NoDialog ELSE dialog
  /\ UNCHANGED <<server, list, behind>>

\* The toast, and dialogRef.close(true): only if that dialog is still open is the list loaded.
Saved(s) ==
  /\ saves[s].step \in {"replaced", "posted"}
  /\ saves' = [saves EXCEPT ![s].step = "saved"]
  /\ \/ /\ Saving /\ dialog.save = s
        /\ dialog' = NoDialog
        /\ Reload(s)
     \/ /\ ~(Saving /\ dialog.save = s)
        /\ UNCHANGED <<dialog, list, behind>>
  /\ UNCHANGED server

Deleted(s) ==
  /\ saves[s].step = "deleted"
  /\ saves' = [saves EXCEPT ![s].step = "saved"]
  /\ Reload(s)
  /\ UNCHANGED <<server, dialog>>

\* Mutation: the second request has no error handler.
FailOfPutUnhandled(s) ==
  /\ Pending(s)
  /\ \/ saves' = [saves EXCEPT ![s].step = "failed"]
     \/ saves[s].step \in Before /\ saves' = [saves EXCEPT ![s].lost = TRUE]
  /\ dialog' = IF Saving /\ dialog.save = s /\ saves[s].step \notin {"put", "replaced"}
               THEN [dialog EXCEPT !.save = 0] ELSE dialog
  /\ behind' = TRUE
  /\ UNCHANGED <<server, list>>

\* An error, from the backend or the network: the dialog may be submitted again.  The transaction
\* was committed, or never will be, or is lost on the network and may still be committed.
Fail(s) ==
  /\ Pending(s)
  /\ \/ saves' = [saves EXCEPT ![s].step = "failed"]
     \/ saves[s].step \in Before /\ saves' = [saves EXCEPT ![s].lost = TRUE]
  /\ dialog' = IF Saving /\ dialog.save = s THEN [dialog EXCEPT !.save = 0] ELSE dialog
  /\ behind' = TRUE
  /\ UNCHANGED <<server, list>>

Backend == SomeoneElse \/ \E s \in Saves : Patch(s) \/ Put(s) \/ Post(s) \/ Remove(s)
Answers == \E s \in Saves : Patched(s) \/ Saved(s) \/ Deleted(s) \/ Fail(s)
Listing == \E l \in Loads : Read(l) \/ Show(l) \/ LoadFails(l)
User == OpenEditDialog \/ OpenCreateDialog \/ Edit \/ Dismiss \/ Submit \/ Delete

Next == Backend \/ Answers \/ Listing \/ User

Spec == Init /\ [][Next]_vars

--------------------------------------------------------------------------------
TypeOK ==
  /\ role.id \in 0..ids /\ ids \in 0..(1 + MaxSaves + MaxOthers)
  /\ rows.id \in 0..ids
  /\ loading \in BOOLEAN /\ behind \in BOOLEAN /\ shown \in 0..MaxLoads
  /\ dialog.mode \in {"none", "edit", "create"}
  /\ dialog.mode # "none" => dialog.save \in 0..MaxSaves
  /\ \A s \in Saves : saves[s].step \in {"none", "saved", "failed"} \cup Before \cup After

\* "Role updated." and "Role created." are true of the whole form as it was when Save was pressed,
\* name and permissions, though two requests carried them and the form stays editable meanwhile,
\* until another request changes the role.  A description is saved unless it was cleared.
ToastMeansSaved ==
  \A s \in Saves :
    saves[s].step = "saved" /\ ~saves[s].touched /\ There
    => /\ role.name = saves[s].text.name
       /\ role.permissions = saves[s].text.permissions
       /\ saves[s].text.description \in {role.description, NoText}

\* The dialog never waits for nothing: while Save is disabled a request of this very dialog is
\* under way, whichever of the two failed before; so a half-saved role can be saved again.
WaitsForARequest == Saving => Pending(dialog.save)

\* The edit dialog opens on the role as it is committed, not on what the list showed before an own
\* save: unless others changed it, a save failed or was dismissed half way, an earlier load
\* answered last, or a deletion is under way.  A form opened on an old row would write the old
\* permissions back.
EditStartsFromCommitted ==
  [][dialog.mode = "none" /\ dialog'.mode = "edit"
     => \/ behind \/ shown # Sent \/ \E s \in Saves : Pending(s)
        \/ rows = role]_vars
================================================================================
