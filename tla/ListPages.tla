-------------------------------- MODULE ListPages ------------------------------
(***************************************************************************)
(* A list screen of the frontend: users, weighbridge tickets, production   *)
(* entries, tenants or the audit log.  Searching, paging and saved dialogs *)
(* load the list again; nothing cancels the load before, so answers come   *)
(* in any order.  The backend answers a load with two statements, a count  *)
(* and a page, while others create and change the records.                 *)
(***************************************************************************)
EXTENDS Naturals, FiniteSets

CONSTANTS
  MaxRecords, MaxLoads, MaxSaves,  \* bounds of an instance
  MaxAtOnce,                       \* how many loads may be unanswered in it
  PageSizes, FirstSize             \* the sizes the paginator offers, in rows, and the one it starts with

ASSUME BoundsAssumption == MaxRecords \in Nat \ {0} /\ MaxLoads \in Nat \ {0} /\ MaxAtOnce \in Nat
                           /\ MaxSaves \in Nat
ASSUME SizesAssumption == PageSizes \subseteq Nat \ {0} /\ FirstSize \in PageSizes

VARIABLES
  present,   \* the committed records; a record's number is its place by created_at
  matching,  \* the records that meet the filter
  version,   \* version[i]: the changes committed to record i
  screen,    \* the list that is open
  page, pageSize, loading,
  filtered,  \* whether the search term or the filter form is filled in
  rows,      \* the records shown, with the version read
  totalItems,
  loads,     \* the GETs of the screen
  dialog,    \* the open dialog
  saves,     \* the POSTs, PATCHes and DELETEs of the screen
  shown,     \* history: the load whose answer is shown
  counted,   \* history: whether totalItems counts the filtered list
  astray,    \* history: the page number may have been chosen for another list
  narrowed,  \* history: a record was renamed out of the filtered list
  acked      \* history: acked[i]: the own change of record i that was answered last

table == <<rows, totalItems, shown, counted>>
paging == <<page, pageSize, filtered, astray>>
server == <<present, matching, version, narrowed>>
vars == <<server, screen, paging, loading, table, loads, dialog, saves, acked>>

Records == 1..MaxRecords
Loads == 1..MaxLoads
Saves == 1..MaxSaves

--------------------------------------------------------------------------------
(* What the screens offer: "search" loads on every term, "form" when applied; "create" *)
(* and "edit" open dialogs, "confirm" asks before it changes a row, "change" does not. *)

UsersList == {"search", "create", "edit", "confirm"}
WeighbridgeList == {"create", "edit", "confirm"}
ProductionList == {"create", "confirm", "change"}
TenantsList == {"create", "confirm"}
AuditList == {"form"}

Screens == {UsersList, WeighbridgeList, ProductionList, TenantsList, AuditList}

NoLoad == [step |-> "none"]
LoadOf(p, k, f) == [step |-> "sent", page |-> p, size |-> k, filtered |-> f]
NoDialog == [kind |-> "none"]
NoSave == [step |-> "none"]

InFlight(l) == loads[l].step \in {"sent", "counted", "read"}
Sent == Cardinality({l \in Loads : loads[l].step # "none"})

\* The last load that was sent is the one that is shown.
Settled == shown = Sent /\ \A l \in Loads : ~InFlight(l)

TypeOK ==
  /\ present \subseteq Records /\ matching \subseteq Records
  /\ version \in [Records -> 0..MaxSaves]
  /\ screen \in Screens
  /\ page \in 1..MaxRecords /\ pageSize \in PageSizes
  /\ loading \in BOOLEAN /\ filtered \in BOOLEAN
  /\ totalItems \in 0..MaxRecords
  /\ DOMAIN rows \subseteq Records /\ \A i \in DOMAIN rows : rows[i] \in 0..MaxSaves
  /\ \A l \in Loads : loads[l].step \in {"none", "sent", "counted", "read", "done"}
  /\ dialog.kind \in {"none", "create", "edit", "confirm"}
  /\ \A s \in Saves : saves[s].step \in {"none", "sent", "committed", "done"}
  /\ shown \in 0..MaxLoads /\ counted \in BOOLEAN
  /\ astray \in BOOLEAN /\ narrowed \in BOOLEAN
  /\ acked \in [Records -> 0..MaxSaves]

\* load(): the list as the component's signals say it is now.  That there
\* is room for one more is a bound of the instance.
Load(p, k, f) ==
  /\ Sent < MaxLoads /\ Cardinality({l \in Loads : InFlight(l)}) < MaxAtOnce
  /\ loads' = [loads EXCEPT ![Sent + 1] = LoadOf(p, k, f)]
  /\ loading' = TRUE

\* The constructor loads page 1 over what the table already holds.
Init ==
  /\ screen \in Screens
  /\ \E n \in 0..MaxRecords : present = 1..n
  /\ matching \in IF {"search", "form"} \cap screen = {} THEN {Records}
                 ELSE SUBSET Records \ {{}}
  /\ version = [i \in Records |-> 0]
  /\ page = 1 /\ pageSize = FirstSize /\ filtered = FALSE
  /\ rows = <<>> /\ totalItems = 0 /\ loading = TRUE
  /\ loads = [l \in Loads |-> IF l = 1 THEN LoadOf(1, FirstSize, FALSE) ELSE NoLoad]
  /\ dialog = NoDialog
  /\ saves = [s \in Saves |-> NoSave]
  /\ shown = 0 /\ counted = FALSE /\ astray = FALSE /\ narrowed = FALSE
  /\ acked = [i \in Records |-> 0]

--------------------------------------------------------------------------------
(* The backend: a load's two statements, each in a snapshot of its own. *)

Matching(f) == IF f THEN present \cap matching ELSE present

\* ORDER BY created_at DESC OFFSET (p - 1) * k LIMIT k.
PageOf(S, p, k) ==
  {i \in S : LET newer == Cardinality({j \in S : j > i}) IN (p - 1) * k <= newer /\ newer < p * k}

CountRows(l) ==
  /\ loads[l].step = "sent"
  /\ loads' = [loads EXCEPT ![l] = [step |-> "counted", page |-> @.page, size |-> @.size,
                 filtered |-> @.filtered, total |-> Cardinality(Matching(@.filtered))]]
  /\ UNCHANGED <<server, screen, paging, loading, table, dialog, saves, acked>>

ReadPage(l) ==
  /\ loads[l].step = "counted"
  /\ LET q == loads[l] IN
     loads' = [loads EXCEPT ![l] = [step |-> "read", filtered |-> q.filtered, total |-> q.total,
                 rows |-> [i \in PageOf(Matching(q.filtered), q.page, q.size) |-> version[i]]]]
  /\ UNCHANGED <<server, screen, paging, loading, table, dialog, saves, acked>>

\* Somebody else's record: the server's clock orders it, its COMMIT may come later.
OtherCreates(i) ==
  /\ i \notin present
  /\ present' = present \cup {i}
  /\ UNCHANGED <<matching, version, narrowed, screen, paging, loading, table, loads, dialog, saves,
                 acked>>

--------------------------------------------------------------------------------
(* The table. *)

\* next: rows, total and loading are those of this answer, whichever was asked last.
ReceivePage(l) ==
  /\ loads[l].step = "read"
  /\ rows' = loads[l].rows
  /\ totalItems' = loads[l].total
  /\ loading' = FALSE
  /\ shown' = l
  /\ counted' = loads[l].filtered
  /\ loads' = [loads EXCEPT ![l] = [step |-> "done"]]
  /\ UNCHANGED <<server, screen, paging, dialog, saves, acked>>

\* error: the table keeps its rows.
ReceiveLoadError(l) ==
  /\ InFlight(l)
  /\ loading' = FALSE
  /\ loads' = [loads EXCEPT ![l] = [step |-> "done"]]
  /\ UNCHANGED <<server, screen, paging, table, dialog, saves, acked>>

\* Mutation of OnSearch: the page number of the list before is kept.
OnSearchKeepingPage(f) ==
  /\ "search" \in screen
  /\ filtered' = f /\ astray' = FALSE
  /\ Load(page, pageSize, f)
  /\ UNCHANGED <<server, screen, page, pageSize, table, dialog, saves, acked>>

\* The search box sends a term 300 ms after the last key, with a dialog open by then
\* perhaps: page 1 of the new list.
OnSearch(f) ==
  /\ "search" \in screen
  /\ filtered' = f /\ page' = 1 /\ astray' = FALSE
  /\ Load(1, pageSize, f)
  /\ UNCHANGED <<server, screen, pageSize, table, dialog, saves, acked>>

\* Typing in the audit log's filter form loads nothing, but every later load reads it.
TypeFilter ==
  /\ "form" \in screen
  /\ filtered' = ~filtered /\ astray' = TRUE
  /\ UNCHANGED <<server, screen, page, pageSize, loading, table, loads, dialog, saves, acked>>

\* The filter form is applied.
ApplyFilters ==
  /\ "form" \in screen
  /\ page' = 1 /\ astray' = FALSE
  /\ Load(1, pageSize, filtered)
  /\ UNCHANGED <<server, screen, pageSize, filtered, table, dialog, saves, acked>>

\* Mutation of Paginate: the paginator's index, which starts at 0, is the page number.
PaginateIndex(p, k) ==
  \/ k = pageSize /\ p = page /\ page * pageSize < totalItems
  \/ k = pageSize /\ page > 1 /\ p = page - 2
  \/ k # pageSize /\ p = ((page - 1) * pageSize) \div k

\* The paginator's buttons stop at the total it was given; a new page size keeps the
\* first row on the page.
Paginate(p, k) ==
  \/ k = pageSize /\ p = page + 1 /\ page * pageSize < totalItems
  \/ k = pageSize /\ page > 1 /\ p = page - 1
  \/ k # pageSize /\ p = ((page - 1) * pageSize) \div k + 1

OnPageChange(p, k) ==
  /\ dialog.kind = "none"
  /\ Paginate(p, k)
  /\ page' = p /\ pageSize' = k
  /\ astray' = (astray \/ counted # filtered)
  /\ Load(p, k, filtered)
  /\ UNCHANGED <<server, screen, filtered, table, dialog, saves, acked>>

--------------------------------------------------------------------------------
(* Dialogs: modal, about a row of the table or a new record. *)

OpenCreate ==
  /\ "create" \in screen /\ dialog.kind = "none"
  /\ dialog' = [kind |-> "create", id |-> 0, saving |-> FALSE]
  /\ UNCHANGED <<server, screen, paging, loading, table, loads, saves, acked>>

\* A loading table shows no rows to click.
OpenOnRow(kind, i) ==
  /\ kind \in {"edit", "confirm"} \cap screen /\ dialog.kind = "none"
  /\ ~loading /\ i \in DOMAIN rows
  /\ dialog' = [kind |-> kind, id |-> i, saving |-> FALSE]
  /\ UNCHANGED <<server, screen, paging, loading, table, loads, saves, acked>>

\* Escape, the backdrop and Cancel close a dialog even while it saves.
Dismiss ==
  /\ dialog.kind # "none"
  /\ dialog' = NoDialog
  /\ saves' = [s \in Saves |-> IF saves[s].step \in {"sent", "committed"}
                               THEN [saves[s] EXCEPT !.closes = FALSE] ELSE saves[s]]
  /\ UNCHANGED <<server, screen, paging, loading, table, loads, acked>>

\* A request that changes record i, or makes one when i = 0.  closes: its answer closes
\* the dialog that sent it.  heard: the client still waits for the answer.
SendSave(i, closes, reloads) ==
  \E s \in Saves :
    /\ saves[s].step = "none" /\ \A q \in 1..(s - 1) : saves[q].step # "none"
    /\ saves' = [saves EXCEPT ![s] = [step |-> "sent", id |-> i, closes |-> closes,
                                      reloads |-> reloads, heard |-> TRUE, version |-> 0]]

\* submit() of a dialog, once at a time.
SubmitDialog ==
  /\ dialog.kind \in {"create", "edit"} /\ ~dialog.saving
  /\ dialog' = [dialog EXCEPT !.saving = TRUE]
  /\ SendSave(dialog.id, TRUE, FALSE)
  /\ UNCHANGED <<server, screen, paging, loading, table, loads, acked>>

\* The confirmation closes first, then the request goes out.
Confirm ==
  /\ dialog.kind = "confirm"
  /\ dialog' = NoDialog
  /\ SendSave(dialog.id, FALSE, TRUE)
  /\ UNCHANGED <<server, screen, paging, loading, table, loads, acked>>

ChangeRow(i) ==
  /\ "change" \in screen /\ dialog.kind = "none" /\ ~loading /\ i \in DOMAIN rows
  /\ SendSave(i, FALSE, TRUE)
  /\ UNCHANGED <<server, screen, paging, loading, table, loads, dialog, acked>>

--------------------------------------------------------------------------------
(* The answers to a save. *)

\* The backend commits it: a new record, or a change, which may take a renamed user
\* out of the filtered list.  (One renamed into it is like a new one there.)
CommitSave(s) ==
  /\ saves[s].step = "sent"
  /\ \E i \in Records :
       /\ IF saves[s].id = 0
          THEN /\ i \notin present
               /\ present' = present \cup {i}
               /\ UNCHANGED <<matching, version, narrowed>>
          ELSE /\ i = saves[s].id
               /\ version' = [version EXCEPT ![i] = @ + 1]
               /\ matching' \in IF "search" \in screen /\ ~saves[s].reloads
                                THEN {matching, matching \ {i}} ELSE {matching}
               /\ narrowed' = (narrowed \/ matching' # matching)
               /\ UNCHANGED present
       /\ saves' = [saves EXCEPT ![s] = IF @.heard
            THEN [@ EXCEPT !.step = "committed", !.id = i, !.version = version'[i]]
            ELSE [step |-> "done"]]
  /\ UNCHANGED <<screen, paging, loading, table, loads, dialog, acked>>

\* Mutation of ReceiveSaved: a confirmed change does not load the list again.
ReceiveSavedQuietly(s) ==
  /\ saves[s].step = "committed"
  /\ saves' = [saves EXCEPT ![s] = [step |-> "done"]]
  /\ dialog' = IF saves[s].closes THEN NoDialog ELSE dialog
  /\ acked' = [acked EXCEPT ![saves[s].id] = IF @ < saves[s].version THEN saves[s].version ELSE @]
  /\ IF saves[s].closes THEN Load(page, pageSize, filtered) ELSE UNCHANGED <<loads, loading>>
  /\ UNCHANGED <<server, screen, paging, table>>

\* next: the dialog that is still open closes with true, and the list is loaded again;
\* so it is after a confirmed change.  A dialog dismissed meanwhile reports nothing.
ReceiveSaved(s) ==
  /\ saves[s].step = "committed"
  /\ saves' = [saves EXCEPT ![s] = [step |-> "done"]]
  /\ dialog' = IF saves[s].closes THEN NoDialog ELSE dialog
  /\ IF saves[s].closes \/ saves[s].reloads
     THEN /\ acked' = [acked EXCEPT ![saves[s].id] =
                         IF @ < saves[s].version THEN saves[s].version ELSE @]
          /\ Load(page, pageSize, filtered)
     ELSE UNCHANGED <<acked, loads, loading>>
  /\ UNCHANGED <<server, screen, paging, table>>

\* error: refused by the backend, or no answer; a request without an answer may still
\* be committed later.  The dialog may be submitted again.
ReceiveSaveError(s) ==
  /\ saves[s].step \in {"sent", "committed"} /\ saves[s].heard
  /\ dialog' = IF saves[s].closes THEN [dialog EXCEPT !.saving = FALSE] ELSE dialog
  /\ \/ saves' = [saves EXCEPT ![s] = [step |-> "done"]]
     \/ /\ saves[s].step = "sent"
        /\ saves' = [saves EXCEPT ![s].heard = FALSE, ![s].closes = FALSE]
  /\ UNCHANGED <<server, screen, paging, loading, table, loads, acked>>

Next ==
  \/ \E l \in Loads : CountRows(l) \/ ReadPage(l) \/ ReceivePage(l) \/ ReceiveLoadError(l)
  \/ \E i \in Records : OtherCreates(i) \/ ChangeRow(i) \/ \E kind \in {"edit", "confirm"} : OpenOnRow(kind, i)
  \/ \E f \in BOOLEAN : OnSearch(f)
  \/ TypeFilter \/ ApplyFilters
  \/ \E p \in 0..MaxRecords, k \in PageSizes : OnPageChange(p, k)
  \/ OpenCreate \/ Dismiss \/ SubmitDialog \/ Confirm
  \/ \E s \in Saves : CommitSave(s) \/ ReceiveSaved(s) \/ ReceiveSaveError(s)

Spec == Init /\ [][Next]_vars

--------------------------------------------------------------------------------
(* Properties. *)

\* When the load sent last is shown, the table holds every change of the user's own that
\* was answered while its dialog was open: the reload after a save reads the row as saved.
OwnChangesShow == Settled => \A i \in DOMAIN rows : rows[i] >= acked[i]

\* The page that was loaded last has rows if its list has any, as long as the page was
\* chosen for that list and no record was ever renamed out of it: onSearch() and
\* applyFilters() go back to page 1, the paginator stops at the total.
NeverPastTheEnd == Settled /\ ~astray /\ ~narrowed /\ totalItems > 0 => DOMAIN rows # {}
================================================================================
