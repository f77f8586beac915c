----------------------- MODULE ProductionAndSeedingProofs ----------------------
(***************************************************************************)
(* Two parts of the backend that share no state: what holds of             *)
(* ProductionEntries for every set of entries and requests, and of Seeding *)
(* for every set of runs and whatever the databases lack at first.         *)
(***************************************************************************)
EXTENDS ProductionEntries, Seeding, SequenceTheorems, FiniteSetTheorems, WellFoundedInduction, TLAPS

--------------------------------------------------------------------------------
(* Production entries. *)

WorksOn(r, e) == pc[r] \in Working /\ task[r].entry = e

\* On an entry that was never contested one request works at most, and the status it
\* read is still there when it commits.
CheckStillValid ==
  \A e \in Entries \ contested, r \in Requests : WorksOn(r, e) =>
    /\ task[r].op \in Operations
    /\ status[e] \in Accepts(task[r].op)
    /\ \A q \in Requests : WorksOn(q, e) => q = r

\* A request that works has an entry, which exists.
WorkHasEntry ==
  \A r \in Requests : pc[r] \in Working =>
    /\ task[r].op \in Operations
    /\ task[r].entry \in Entries
    /\ status[task[r].entry] # "NONE"

\* The last event of an entry is its status.
IInv ==
  /\ TypeOK
  /\ WorkHasEntry
  /\ CheckStillValid
  /\ LastEventNamesStatus

--------------------------------------------------------------------------------
LEMMA LastOfAppend ==
  ASSUME NEW S, NEW s \in Seq(S), NEW x \in S
  PROVE  /\ Append(s, x) \in Seq(S)
         /\ Append(s, x) # <<>>
         /\ Last(Append(s, x)) = x
  BY DEF Last

LEMMA InitIInv == Init => IInv
  BY NoEntryAssumption DEF Init, IInv, TypeOK, WorkHasEntry, CheckStillValid, LastEventNamesStatus,
     WorksOn, Working, Operations

LEMMA CreateKeepsIInv ==
  ASSUME IInv, NEW e \in Entries, CreateEntry(e)
  PROVE  IInv'
  <1> USE DEF IInv, CreateEntry
  <1>1. TypeOK'
    BY LastOfAppend DEF TypeOK, Statuses
  <1>2. WorkHasEntry'
    BY DEF WorkHasEntry
  <1>3. CheckStillValid'
    BY DEF CheckStillValid, WorkHasEntry, WorksOn
  <1>4. LastEventNamesStatus'
    <2>1. audit[e] \in Seq(Statuses) /\ "DRAFT" \in Statuses
      BY DEF TypeOK, Statuses
    <2>2. Append(audit[e], "DRAFT") # <<>> /\ Last(Append(audit[e], "DRAFT")) = "DRAFT"
      BY <2>1, LastOfAppend
    <2> QED
      BY <2>2 DEF TypeOK, LastEventNamesStatus
  <1> QED
    BY <1>1, <1>2, <1>3, <1>4

LEMMA LoadKeepsIInv ==
  ASSUME IInv, NEW r \in Requests, NEW e \in Entries, NEW op \in Operations, Load(r, e, op)
  PROVE  IInv'
  <1> USE DEF IInv, Load, Working, Operations
  <1>1. TypeOK'
    BY DEF TypeOK
  <1>2. WorkHasEntry'
    BY DEF TypeOK, WorkHasEntry, Accepts
  <1>3. CheckStillValid'
    BY DEF TypeOK, CheckStillValid, WorksOn
  <1>4. LastEventNamesStatus'
    BY DEF LastEventNamesStatus
  <1> QED
    BY <1>1, <1>2, <1>3, <1>4

LEMMA CommitKeepsIInv ==
  ASSUME IInv, NEW r \in Requests, NEW op \in Operations, Commit(r, op)
  PROVE  IInv'
  <1> USE DEF IInv, Commit, Working, Operations
  <1>0. task[r].entry \in Entries /\ Target(op) \in {"SUBMITTED", "CANCELLED"}
    BY DEF WorkHasEntry, Target
  <1>1. TypeOK'
    BY <1>0, LastOfAppend DEF TypeOK, Statuses
  <1>2. WorkHasEntry'
    BY <1>0 DEF WorkHasEntry
  <1>3. CheckStillValid'
    BY <1>0 DEF TypeOK, CheckStillValid, WorksOn
  <1>4. LastEventNamesStatus'
    <2> DEFINE e == task[r].entry
    <2>1. audit[e] \in Seq(Statuses) /\ Target(op) \in Statuses
      BY <1>0 DEF TypeOK, Statuses
    <2>2. Append(audit[e], Target(op)) # <<>> /\ Last(Append(audit[e], Target(op))) = Target(op)
      BY <2>1, LastOfAppend
    <2>3. /\ status' = [status EXCEPT ![e] = Target(op)]
          /\ audit' = [audit EXCEPT ![e] = Append(audit[e], Target(op))]
      OBVIOUS
    <2> QED
      BY <1>0, <2>2, <2>3 DEF TypeOK, LastEventNamesStatus
  <1> QED
    BY <1>1, <1>2, <1>3, <1>4

\* Steps that leave the entries and their events alone.
LEMMA FlushOrAbortKeepsIInv ==
  ASSUME IInv, NEW r \in Requests, Flush(r) \/ Abort(r)
  PROVE  IInv'
  <1> USE DEF IInv, Flush, Abort, Working
  <1>1. TypeOK'
    BY DEF TypeOK
  <1>2. WorkHasEntry'
    BY DEF TypeOK, WorkHasEntry
  <1>3. CheckStillValid'
    BY DEF TypeOK, CheckStillValid, WorksOn
  <1>4. LastEventNamesStatus'
    BY DEF LastEventNamesStatus
  <1> QED
    BY <1>1, <1>2, <1>3, <1>4

LEMMA NextKeepsIInv == IInv /\ [Next]_vars => IInv'
  <1> SUFFICES ASSUME IInv, [Next]_vars PROVE IInv'
    OBVIOUS
  <1>1. CASE UNCHANGED vars
    BY <1>1 DEF vars, IInv, TypeOK, WorkHasEntry, CheckStillValid, LastEventNamesStatus, WorksOn
  <1>2. ASSUME NEW e \in Entries, CreateEntry(e) PROVE IInv'
    BY <1>2, CreateKeepsIInv
  <1>3. ASSUME NEW r \in Requests, NEW e \in Entries, LoadToSubmit(r, e) \/ LoadToCancel(r, e)
        PROVE  IInv'
    BY <1>3, LoadKeepsIInv DEF LoadToSubmit, LoadToCancel, Operations
  <1>4. ASSUME NEW r \in Requests, CommitSubmission(r) \/ CommitCancellation(r) PROVE IInv'
    BY <1>4, CommitKeepsIInv DEF CommitSubmission, CommitCancellation, Operations
  <1>5. ASSUME NEW r \in Requests, Flush(r) \/ Abort(r) PROVE IInv'
    BY <1>5, FlushOrAbortKeepsIInv
  <1> QED
    BY <1>1, <1>2, <1>3, <1>4, <1>5 DEF Next, Serve

LEMMA IInvAlways == Spec => []IInv
  BY InitIInv, NextKeepsIInv, PTL DEF Spec

--------------------------------------------------------------------------------
\* production_service.py: the entries' statuses, their audit events and the requests' steps keep
\* their types.
THEOREM TypeCorrect == Spec => []TypeOK
  <1>1. IInv => TypeOK
    BY DEF IInv
  <1> QED
    BY <1>1, IInvAlways, PTL

\* Whatever requests race on an entry, its status is the one its last audit event names.
THEOREM StatusIsLastEvent == Spec => []LastEventNamesStatus
  <1>1. IInv => LastEventNamesStatus
    BY DEF IInv
  <1> QED
    BY <1>1, IInvAlways, PTL

\* The checks of submit_entry() and cancel_entry() keep every entry that two requests
\* never worked on at one time to the documented moves.
THEOREM UncontestedLife == Spec => LifeUnlessContested
  <1> DEFINE Kept == \A e \in Entries \ contested' :
               status'[e] # status[e] => <<status[e], status'[e]>> \in Moves
  <1>1. IInv /\ [Next]_vars => [Kept]_vars
    <2> SUFFICES ASSUME IInv, Next PROVE Kept
      OBVIOUS
    <2>1. ASSUME NEW e \in Entries, CreateEntry(e) PROVE Kept
      BY <2>1 DEF CreateEntry, Moves
    <2>2. ASSUME NEW r \in Requests, NEW op \in Operations, Commit(r, op) PROVE Kept
      <3> SUFFICES ASSUME NEW e \in Entries \ contested', status'[e] # status[e]
                   PROVE  <<status[e], status'[e]>> \in Moves
        OBVIOUS
      <3>1. WorksOn(r, e) /\ e \in Entries \ contested
        BY <2>2 DEF Commit, WorksOn, Working
      <3>2. status[e] \in Accepts(op) /\ status'[e] = Target(op)
        BY <2>2, <3>1 DEF IInv, Commit, CheckStillValid
      <3> QED
        BY <3>2 DEF Accepts, Target, Moves
    <2> QED
      BY <2>1, <2>2 DEF Next, Serve, LoadToSubmit, LoadToCancel, Load, Flush, Abort,
         CommitSubmission, CommitCancellation, Operations
  <1> QED
    BY <1>1, IInvAlways, PTL DEF Spec, LifeUnlessContested

--------------------------------------------------------------------------------
(* The inductive invariant.  Its parts take the state they speak of as parameters: the work w of   *)
(* a run p, the committed rows D, the runs F that are done, the rows `old` that were there before. *)

AtWork == {"find", "insert", "role", "link", "commit"}
LinkTables == {"role_permissions", "user_roles", "unit_conversions"}
RoleLinks == {"role_permissions", "user_roles"}
HasRows(s) == s.table # "unit_conversions"
DoneRuns == {p \in Runs : run[p].at = "done"}

\* r is a row of the plan's step s, active or not.
Made(s, r) == HasRows(s) /\ r.table = s.table /\ (s.table = "fiscal_years" \/ r.key = <<s.key>>)

Linked(s, r, R) == Absent(LinkRows(s, r, "before"), R) = {}

HasRole(s, u, R) ==
  \E r \in R : /\ r.table = "roles" /\ \E c \in s.links : r.key = <<c>>
               /\ \E l \in R : l.table = "user_roles" /\ l.key = Ref(u) \o Ref(r)

\* Every row of step s is whole in R, but for the users that were there before.
Complete(s, R, old) ==
  /\ ~HasRows(s) => Linked(s, s, R)
  /\ HasRows(s) => Found(s, R) # {}
  /\ s.table = "roles" => \A r \in Found(s, R) : Linked(s, r, R)
  /\ s.table = "users" => \A u \in Found(s, R) : u \in old \/ HasRole(s, u, R)

\* The second column of the key of a role's or user's link is the run that inserted the role or user.
OwnedBy(l, F) == l.table \in RoleLinks /\ l.key[2] \in Runs => l.key[2] \in F

InPlan(w) ==
  /\ w.at \in AtWork \cup {"idle", "done", "raised", "cut_short"}
  /\ w.step \in 1..(Len(Plan) + 1)
  /\ w.at = "commit" => w.step = Len(Plan) + 1
  /\ w.at \in AtWork \ {"commit"} => w.step \in DOMAIN Plan
  /\ w.at \notin AtWork => w.rows = {}
  /\ w.at \notin {"insert", "role", "link"} => w.new = {}

\* The rows a run has inserted are of the steps behind it.
RowsOf(p, w, F) ==
  \A r \in w.rows :
    /\ r = Row(r.table, r.key, p) /\ OwnedBy(r, F \cup {p})
    /\ \/ r.table \in LinkTables
       \/ \E i \in DOMAIN Plan : Made(Plan[i], r) /\ (i < w.step \/ (i = w.step /\ w.at \in {"role", "link"}))

\* Those it is to insert next make the step it is at complete.
NewOf(p, w, D, F, old) ==
  /\ w.at = "insert" =>
       /\ HasRows(Plan[w.step]) /\ Found(Plan[w.step], old) = {}
       /\ \E r \in w.new : w.new = {r} /\ r = Row(r.table, r.key, p) /\ Made(Plan[w.step], r)
  /\ w.at = "role" =>
       /\ Plan[w.step].table = "users"
       /\ \E u \in w.rows : w.new = {u} /\ \A r \in w.rows : Made(Plan[w.step], r) <=> r = u
  /\ w.at = "link" =>
       /\ \A l \in w.new : l = Row(l.table, l.key, p) /\ l.table \in LinkTables /\ OwnedBy(l, F \cup {p})
       /\ Complete(Plan[w.step], D \cup w.rows \cup w.new, old)

Behind(w, D, old) == w.at \in AtWork => \A i \in DOMAIN Plan : i < w.step => Complete(Plan[i], D \cup w.rows, old)

Fits(p, w, D, F, old) == InPlan(w) /\ RowsOf(p, w, F) /\ NewOf(p, w, D, F, old) /\ Behind(w, D, old)

\* Every commit leaves the whole plan, and rows of runs that are done.
Committed(D, F, old) ==
  /\ old \subseteq D
  /\ \A r \in old : r.by \notin Runs /\ (~r.active => r.table = "fiscal_years")
  /\ \A r \in D \ old : r.by \in Runs /\ r.by \in F /\ r = Row(r.table, r.key, r.by)
  /\ \A l \in D : OwnedBy(l, F)
  /\ D # old \/ F # {} => \A i \in DOMAIN Plan : Complete(Plan[i], D, old)

AllRows == db \cup UNION {run[p].rows : p \in Runs}

\* The unique keys.
OnceByKey(R, old) ==
  \A r, t \in R : SameKey(r, t) /\ r.table \notin LinkTables \cup {"roles"} => r = t \/ (r \in old /\ t \in old)

\* A run inserts a step's row once, and only if it was missing at first.
OnceByRun(R) ==
  \A i \in DOMAIN Plan : \A r, t \in R : Made(Plan[i], r) /\ Made(Plan[i], t) /\ r.by = t.by /\ r.by \in Runs => r = t
OnlyMissing(R, old) ==
  \A i \in DOMAIN Plan : \A r \in R \ old : Made(Plan[i], r) => Found(Plan[i], old) = {}

\* The row of step i is inserted by the run that inserts that of step j, which was missing too.
Follows(i, j, old) ==
  /\ Plan[i].table \in {"roles", "fiscal_years"} /\ Plan[j].table \in FilledBefore(Plan[i].table)
  /\ Found(Plan[i], old) = {} /\ Found(Plan[j], old) = {}
InsertedTogether(R, old) ==
  \A i, j \in DOMAIN Plan : Follows(i, j, old) =>
    \A r \in R : Made(Plan[i], r) /\ r.by \in Runs => \E t \in R : Made(Plan[j], t) /\ t.by = r.by
RowsFit(R, old) == OnceByKey(R, old) /\ OnceByRun(R) /\ OnlyMissing(R, old) /\ InsertedTogether(R, old)

InsertsNext(w, old) ==
  w.at = "insert" => \A j \in DOMAIN Plan : Follows(w.step, j, old) => \E t \in w.rows : Made(Plan[j], t)

\* A run that meets no other finds the database as it left it.
Undisturbed(w, D, F) ==
  /\ w.at = "insert" => Found(Plan[w.step], D) = {}
  /\ w.at \in AtWork => \A i \in DOMAIN Plan :
       HasRows(Plan[i]) /\ (i < w.step \/ (i = w.step /\ w.at \in {"role", "link"})) => ~Twice(Plan[i], D \cup w.rows)
  /\ w.at = "link" => \A l \in w.new, t \in D : ~SameKey(t, l)
  /\ F # {} => w.at \notin {"insert", "role"} /\ w.rows = {} /\ w.new = {}

SeedInv ==
  /\ run = [p \in Runs |-> run[p]]
  /\ \A p \in Runs : Fits(p, run[p], db, DoneRuns, before) /\ InsertsNext(run[p], before)
  /\ Committed(db, DoneRuns, before)
  /\ RowsFit(AllRows, before)
  /\ \A p \in Runs \ met :
       /\ Undisturbed(run[p], db, DoneRuns)
       /\ run[p].at \in AtWork => \A q \in Runs \ {p} : run[q].at \notin AtWork
       /\ run[p].at = "raised" => Ambiguous \/ YearClosed

--------------------------------------------------------------------------------
(* The plan. *)

Steps ==
  <<Step("permissions", "dashboard.view", {}), Step("permissions", "users.view", {}),
    Step("roles", "SUPER_ADMIN", {"dashboard.view", "users.view"}), Step("roles", "VIEWER", {"dashboard.view"}),
    Step("users", "superadmin", {"SUPER_ADMIN"}), Step("tenants", "DEMO", {}),
    Step("fiscal_years", "active_year", {}), Step("users", "demo.viewer", {"VIEWER"}),
    Step("unit_categories", "MASS", {}), Step("units", "kg", {}), Step("units", "ton", {}),
    Step("unit_conversions", "MASS", {<<"kg", "ton">>, <<"ton", "kg">>})>>

\* The n steps from k + 1 on.
Slice(x, k, n) ==
  /\ x \in Seq({Steps[i] : i \in 1..12}) /\ Len(x) = n
  /\ \A i \in 1..n : x[i] = Steps[k + i]

LEMMA SlicesJoin ==
  ASSUME NEW x, NEW y, NEW k \in Nat, NEW m \in Nat, NEW n \in Nat, Slice(x, k, m), Slice(y, k + m, n)
  PROVE  Slice(x \o y, k, m + n)
  <1>1. \A i \in 1..(m + n) : (x \o y)[i] = Steps[k + i]
    <2> TAKE i \in 1..(m + n)
    <2>1. (x \o y)[i] = IF i <= m THEN x[i] ELSE y[i - m]
      BY ConcatProperties DEF Slice
    <2>2. CASE i <= m
      BY <2>1, <2>2 DEF Slice
    <2>3. CASE i > m
      <3>1. i - m \in 1..n /\ (k + m) + (i - m) = k + i
        BY <2>3
      <3> QED
        BY <2>1, <2>3, <3>1 DEF Slice
    <2>4. i <= m \/ i > m
      OBVIOUS
    <2> QED
      BY <2>2, <2>3, <2>4
  <1>2. x \o y \in Seq({Steps[i] : i \in 1..12}) /\ Len(x \o y) = m + n
    BY ConcatProperties DEF Slice
  <1> QED
    BY <1>1, <1>2 DEF Slice

LEMMA PlanIsSteps == Slice(Plan, 0, 12)
  <1> DEFINE S == {Steps[i] : i \in 1..12}
  <1>0. \A i \in 1..12 : Steps[i] \in S
    OBVIOUS
  <1>1. Slice(PermissionSteps, 0, 2)
    <2>1. PermissionSteps = <<Steps[1], Steps[2]>>
      BY DEF PermissionSteps, PERMISSIONS, Steps
    <2> QED
      BY <1>0, <2>1 DEF Slice
  <1>2. Slice(RoleSteps, 2, 2)
    <2>1. ToSet(PERMISSIONS) = {"dashboard.view", "users.view"}
      BY DEF PERMISSIONS, ToSet
    <2>2. RoleSteps = <<Steps[3], Steps[4]>>
      BY <2>1 DEF RoleSteps, SYSTEM_ROLES, Steps
    <2> QED
      BY <1>0, <2>2 DEF Slice
  <1>3. Slice(<<UserStep(SUPER_ADMIN)>>, 4, 1)
    <2>1. UserStep(SUPER_ADMIN) = Steps[5]
      BY DEF UserStep, SUPER_ADMIN, Steps
    <2> QED
      BY <1>0, <2>1 DEF Slice
  <1>4. Slice(TenantSteps, 5, 3)
    <2> DEFINE x == <<Step("tenants", "DEMO", {}), Step("fiscal_years", "active_year", {})>>
               y == [i \in DOMAIN DEMO_USERS |-> UserStep(DEMO_USERS[i])]
    <2>1. x = <<Steps[6], Steps[7]>> /\ y = <<Steps[8]>>
      BY DEF DEMO_USERS, UserStep, Steps
    <2> HIDE DEF x, y
    <2>2. Slice(x, 5, 2) /\ Slice(y, 7, 1)
      BY <1>0, <2>1 DEF Slice
    <2>3. Slice(x \o y, 5, 2 + 1)
      BY <2>2, SlicesJoin, 5 + 2 = 7
    <2>4. Slice(x \o y, 5, 3)
      BY <2>3
    <2> QED
      BY <2>4 DEF TenantSteps, x, y
  <1>5. Slice(UnitSteps, 8, 4)
    <2> DEFINE u == UNITS[1]
               x == <<Step("unit_categories", u.category, {})>>
               y == [i \in DOMAIN u.units |-> Step("units", u.units[i], {})]
               z == <<Step("unit_conversions", u.category, u.conversions)>>
    <2>1. x = <<Steps[9]>> /\ y = <<Steps[10], Steps[11]>> /\ z = <<Steps[12]>>
      BY DEF UNITS, Steps
    <2>0. UnitSteps = (x \o y) \o z
      BY DEF UnitSteps, CategorySteps
    <2> HIDE DEF x, y, z
    <2>2. Slice(x, 8, 1) /\ Slice(y, 9, 2) /\ Slice(z, 11, 1)
      BY <1>0, <2>1 DEF Slice
    <2>3. Slice(x \o y, 8, 1 + 2)
      BY <2>2, SlicesJoin, 8 + 1 = 9
    <2>4. Slice((x \o y) \o z, 8, 3 + 1)
      BY <2>2, <2>3, SlicesJoin, 8 + 3 = 11, 1 + 2 = 3
    <2> QED
      BY <2>0, <2>4
  <1>6. Slice(PermissionSteps \o RoleSteps, 0, 2 + 2)
    BY <1>1, <1>2, SlicesJoin, 0 + 2 = 2
  <1>7. Slice(PermissionSteps \o RoleSteps \o <<UserStep(SUPER_ADMIN)>>, 0, 4 + 1)
    BY <1>3, <1>6, SlicesJoin, 0 + 4 = 4, 2 + 2 = 4
  <1>8. Slice(PermissionSteps \o RoleSteps \o <<UserStep(SUPER_ADMIN)>> \o TenantSteps, 0, 5 + 3)
    BY <1>4, <1>7, SlicesJoin, 0 + 5 = 5, 4 + 1 = 5
  <1>9. Slice(Plan, 0, 8 + 4)
    BY <1>5, <1>8, SlicesJoin, 0 + 8 = 8, 5 + 3 = 8 DEF Plan
  <1> QED
    BY <1>9, 8 + 4 = 12

LEMMA PlanSteps == Len(Plan) = 12 /\ DOMAIN Plan = 1..12 /\ \A i \in 1..12 : Plan[i] = Steps[i]
  BY PlanIsSteps DEF Slice

LEMMA PlanTables ==
  /\ Plan[1].table = "permissions" /\ Plan[1].key = "dashboard.view"
  /\ Plan[2].table = "permissions" /\ Plan[2].key = "users.view"
  /\ Plan[3].table = "roles" /\ Plan[3].key = "SUPER_ADMIN"
  /\ Plan[4].table = "roles" /\ Plan[4].key = "VIEWER"
  /\ Plan[5].table = "users" /\ Plan[5].key = "superadmin" /\ Plan[5].links = {"SUPER_ADMIN"}
  /\ Plan[6].table = "tenants" /\ Plan[7].table = "fiscal_years"
  /\ Plan[8].table = "users" /\ Plan[8].key = "demo.viewer" /\ Plan[8].links = {"VIEWER"}
  /\ Plan[9].table = "unit_categories"
  /\ Plan[10].table = "units" /\ Plan[10].key = "kg" /\ Plan[11].table = "units" /\ Plan[11].key = "ton"
  /\ Plan[12].table = "unit_conversions"
  <1>1. /\ Plan[1] = Steps[1] /\ Plan[2] = Steps[2] /\ Plan[3] = Steps[3] /\ Plan[4] = Steps[4]
        /\ Plan[5] = Steps[5] /\ Plan[6] = Steps[6] /\ Plan[7] = Steps[7] /\ Plan[8] = Steps[8]
        /\ Plan[9] = Steps[9] /\ Plan[10] = Steps[10] /\ Plan[11] = Steps[11] /\ Plan[12] = Steps[12]
    BY PlanSteps
  <1> QED
    BY <1>1 DEF Steps, Step

LEMMA TwelveSteps ==
  ASSUME NEW i \in DOMAIN Plan
  PROVE  i = 1 \/ i = 2 \/ i = 3 \/ i = 4 \/ i = 5 \/ i = 6 \/ i = 7 \/ i = 8 \/ i = 9 \/ i = 10 \/ i = 11 \/ i = 12
  <1>1. i \in 1..12
    BY PlanSteps
  <1> QED
    BY <1>1

\* Each row of the plan belongs to one step.
LEMMA OneStepMakes ==
  ASSUME NEW i \in DOMAIN Plan, NEW j \in DOMAIN Plan, NEW r, Made(Plan[i], r), Made(Plan[j], r)
  PROVE  i = j
  <1>1. i \in 1..12 /\ j \in 1..12
    BY PlanSteps
  <1>2. \A x, y : <<x>> = <<y>> => x = y
    OBVIOUS
  <1>3. Plan[i].table = Plan[j].table /\ (Plan[i].table = "fiscal_years" \/ Plan[i].key = Plan[j].key)
    BY <1>2 DEF Made
  <1>4. Plan[i].table # "unit_conversions"
    BY DEF Made, HasRows
  <1> QED
    BY <1>3, <1>4, PlanTables, TwelveSteps

\* The role of a user comes before the user, what a role or the fiscal year follows before it.
LEMMA PlanOrder ==
  /\ DOMAIN Plan = 1..Len(Plan) /\ Len(Plan) \in Nat
  /\ \A i \in DOMAIN Plan : Plan[i].table = "users" =>
       \E j \in DOMAIN Plan : j < i /\ Plan[j].table = "roles" /\ Plan[i].links = {Plan[j].key}
  /\ \A i, j \in DOMAIN Plan :
       Plan[i].table \in {"roles", "fiscal_years"} /\ Plan[j].table \in FilledBefore(Plan[i].table) =>
         j < i /\ Plan[j].table \in {"permissions", "tenants"}
  /\ \A i \in DOMAIN Plan : Plan[i].table \notin {"role_permissions", "user_roles"}
  <1>1. DOMAIN Plan = 1..12 /\ Len(Plan) = 12
    BY PlanSteps
  <1>2. ASSUME NEW i \in DOMAIN Plan, Plan[i].table = "users"
        PROVE  \E j \in DOMAIN Plan : j < i /\ Plan[j].table = "roles" /\ Plan[i].links = {Plan[j].key}
    <2>1. i = 5 \/ i = 8
      BY <1>2, PlanTables, TwelveSteps
    <2>2. /\ Plan[3].table = "roles" /\ Plan[3].key = "SUPER_ADMIN" /\ Plan[4].table = "roles" /\ Plan[4].key = "VIEWER"
          /\ Plan[5].links = {"SUPER_ADMIN"} /\ Plan[8].links = {"VIEWER"}
      BY PlanTables
    <2>3. CASE i = 5
      BY <1>1, <2>2, <2>3
    <2>4. CASE i = 8
      BY <1>1, <2>2, <2>4
    <2> QED
      BY <2>1, <2>3, <2>4
  <1>3. ASSUME NEW i \in DOMAIN Plan, NEW j \in DOMAIN Plan,
               Plan[i].table \in {"roles", "fiscal_years"}, Plan[j].table \in FilledBefore(Plan[i].table)
        PROVE  j < i /\ Plan[j].table \in {"permissions", "tenants"}
    BY <1>3, PlanTables, TwelveSteps DEF FilledBefore
  <1>4. \A i \in DOMAIN Plan : Plan[i].table \notin {"role_permissions", "user_roles"}
    BY PlanTables, TwelveSteps
  <1> QED
    BY SMTT(30), <1>1, <1>2, <1>3, <1>4

--------------------------------------------------------------------------------
(* Rows found and links missing. *)

LEMMA FoundIn ==
  ASSUME NEW s, NEW R, HasRows(s)
  PROVE  \A r : r \in Found(s, R) <=> r \in R /\ r.active /\ Made(s, r)
  BY DEF Found, Made

LEMMA FoundUnion == \A s, A, B : Found(s, A \cup B) = Found(s, A) \cup Found(s, B)
  BY DEF Found

LEMMA RowFields == \A t, k, p : LET r == Row(t, k, p) IN r.table = t /\ r.key = k /\ r.by = p /\ r.active = TRUE
  BY DEF Row

LEMMA LinksAre ==
  ASSUME NEW s, NEW of, NEW p, NEW l \in LinkRows(s, of, p)
  PROVE  /\ l = Row(l.table, l.key, p) /\ l.active
         /\ \/ s.table = "roles" /\ l.table = "role_permissions" /\ \E c \in s.links : l.key = Ref(of) \o <<c>>
            \/ s.table = "unit_conversions" /\ l.table = "unit_conversions"
  <1>1. CASE s.table = "roles"
    <2>1. PICK c \in s.links : l = Row("role_permissions", Ref(of) \o <<c>>, p)
      BY <1>1 DEF LinkRows
    <2> DEFINE k == Ref(of) \o <<c>>
    <2>2. l = Row("role_permissions", k, p)
      BY <2>1
    <2> HIDE DEF k
    <2>3. l.table = "role_permissions" /\ l.key = k /\ l.active /\ l = Row(l.table, l.key, p)
      BY <2>2, RowFields
    <2> QED
      BY <1>1, <2>3 DEF k
  <1>2. CASE s.table = "unit_conversions"
    <2>1. PICK c \in s.links : l = Row("unit_conversions", c, p)
      BY <1>2 DEF LinkRows
    <2> QED
      BY <1>2, <2>1, RowFields
  <1>3. CASE s.table # "roles" /\ s.table # "unit_conversions"
    BY <1>3 DEF LinkRows
  <1> QED
    BY <1>1, <1>2, <1>3

\* The same links by whomever they are asked for.
LEMMA LinksByAnyone ==
  ASSUME NEW s, NEW of, NEW p, NEW q, NEW l \in LinkRows(s, of, p)
  PROVE  \E k \in LinkRows(s, of, q) : SameKey(k, l) /\ SameKey(l, k)
  <1>1. CASE s.table = "roles"
    <2>1. PICK c \in s.links : l = Row("role_permissions", Ref(of) \o <<c>>, p)
      BY <1>1 DEF LinkRows
    <2>2. Row("role_permissions", Ref(of) \o <<c>>, q) \in LinkRows(s, of, q)
      BY <1>1 DEF LinkRows
    <2> QED
      BY <2>1, <2>2, RowFields DEF SameKey
  <1>2. CASE s.table = "unit_conversions"
    <2>1. PICK c \in s.links : l = Row("unit_conversions", c, p)
      BY <1>2 DEF LinkRows
    <2>2. Row("unit_conversions", c, q) \in LinkRows(s, of, q)
      BY <1>2 DEF LinkRows
    <2> QED
      BY <2>1, <2>2, RowFields DEF SameKey
  <1>3. CASE s.table # "roles" /\ s.table # "unit_conversions"
    BY <1>3 DEF LinkRows
  <1> QED
    BY <1>1, <1>2, <1>3

LEMMA LinkedGrows ==
  ASSUME NEW s, NEW r, NEW A, NEW B, A \subseteq B, Linked(s, r, A)
  PROVE  Linked(s, r, B)
  BY DEF Linked, Absent

\* Once what is missing of them is inserted, the links of a row are there.
LEMMA LinkedByMissing ==
  ASSUME NEW s, NEW of, NEW p, NEW A
  PROVE  /\ Linked(s, of, A \cup Absent(LinkRows(s, of, p), A))
         /\ Linked(s, of, A \cup LinkRows(s, of, p))
         /\ Linked(s, of, A) => Absent(LinkRows(s, of, p), A) = {}
  <1>1. \A l \in LinkRows(s, of, "before") : \E t \in A \cup Absent(LinkRows(s, of, p), A) : SameKey(t, l)
    <2> TAKE l \in LinkRows(s, of, "before")
    <2>1. PICK k \in LinkRows(s, of, p) : SameKey(k, l)
      BY LinksByAnyone
    <2>2. \A t : SameKey(t, k) => SameKey(t, l)
      BY <2>1 DEF SameKey
    <2> QED
      BY <2>1, <2>2 DEF Absent
  <1>2. \A l \in LinkRows(s, of, "before") : \E t \in A \cup LinkRows(s, of, p) : SameKey(t, l)
    BY LinksByAnyone
  <1>3. ASSUME Linked(s, of, A), NEW l \in LinkRows(s, of, p)
        PROVE  \E t \in A : SameKey(t, l)
    <2>1. PICK k \in LinkRows(s, of, "before") : SameKey(k, l)
      BY LinksByAnyone
    <2>2. \A t : SameKey(t, k) => SameKey(t, l)
      BY <2>1 DEF SameKey
    <2>3. \E t \in A : SameKey(t, k)
      BY <1>3 DEF Linked, Absent
    <2> QED
      BY <2>2, <2>3
  <1> QED
    BY <1>1, <1>2, <1>3 DEF Linked, Absent

LEMMA HasRoleGrows ==
  ASSUME NEW s, NEW u, NEW A, NEW B, A \subseteq B, HasRole(s, u, A)
  PROVE  HasRole(s, u, B)
  BY DEF HasRole

\* What is complete stays so when rows are added that are complete or none of this step's.
LEMMA CompleteGrows ==
  ASSUME NEW s, NEW A, NEW B, NEW C, NEW old, Complete(s, A, old), B \subseteq C, A \subseteq C,
         \A r \in Found(s, C) : r \in Found(s, A) \/ (s.table \in {"roles", "users"} => r \in Found(s, B) /\ Complete(s, B, old))
  PROVE  Complete(s, C, old)
  <1>1. Found(s, A) \subseteq Found(s, C)
    BY DEF Found
  <1>2. ~HasRows(s) => Linked(s, s, C)
    BY LinkedGrows DEF Complete
  <1>3. s.table = "roles" => \A r \in Found(s, C) : Linked(s, r, C)
    BY LinkedGrows DEF Complete
  <1>4. s.table = "users" => \A u \in Found(s, C) : u \in old \/ HasRole(s, u, C)
    BY HasRoleGrows DEF Complete
  <1> QED
    BY <1>1, <1>2, <1>3, <1>4 DEF Complete

LEMMA CompleteJoin ==
  ASSUME NEW s, NEW A, NEW B, NEW old, Complete(s, A, old), Complete(s, B, old)
  PROVE  Complete(s, A \cup B, old)
  BY CompleteGrows, FoundUnion

LEMMA CompleteWithOthers ==
  ASSUME NEW s, NEW A, NEW B, NEW old, Complete(s, A, old), HasRows(s) => \A r \in B : ~Made(s, r)
  PROVE  Complete(s, A \cup B, old)
  <1>1. CASE HasRows(s)
    <2>1. Found(s, B) = {}
      BY <1>1, FoundIn
    <2> QED
      BY <2>1, CompleteGrows, FoundUnion
  <1>2. CASE ~HasRows(s)
    <2>1. s.table \notin {"roles", "users"}
      BY <1>2 DEF HasRows
    <2> QED
      BY <2>1, CompleteGrows
  <1> QED
    BY <1>1, <1>2

--------------------------------------------------------------------------------
(* Steps that insert no row of the plan. *)

LEMMA LinksMakeNoStep ==
  ASSUME NEW i \in DOMAIN Plan, NEW r, r.table \in LinkTables
  PROVE  ~Made(Plan[i], r)
  BY PlanOrder DEF Made, HasRows, LinkTables

LEMMA RowsOfRuns ==
  ASSUME SeedInv, NEW r
  PROVE  /\ r \in AllRows <=> r \in db \/ \E q \in Runs : r \in run[q].rows
         /\ \A q \in Runs : r \in run[q].rows => r.by = q /\ r.by \in Runs /\ r = Row(r.table, r.key, q)
         /\ r \in db /\ r.by \in Runs => r.by \in DoneRuns /\ r = Row(r.table, r.key, r.by) /\ r \notin before
  <1>1. r \in AllRows <=> r \in db \/ \E q \in Runs : r \in run[q].rows
    BY DEF AllRows
  <1>2. ASSUME NEW q \in Runs, r \in run[q].rows
        PROVE  r.by = q /\ r = Row(r.table, r.key, q)
    <2>1. r = Row(r.table, r.key, q)
      BY <1>2 DEF SeedInv, Fits, RowsOf
    <2>2. r.by = q
      BY <2>1, RowFields
    <2> QED
      BY <2>1, <2>2
  <1>3. r \in db /\ r.by \in Runs => r.by \in DoneRuns /\ r = Row(r.table, r.key, r.by) /\ r \notin before
    BY DEF SeedInv, Committed
  <1> QED
    BY <1>1, <1>2, <1>3

\* A rollback takes the rows of one run away.
LEMMA FewerRowsFit ==
  ASSUME SeedInv, NEW p \in Runs, run[p].at # "done", NEW R,
         \A r : r \in R <=> r \in AllRows /\ ~(r \in run[p].rows)
  PROVE  RowsFit(R, before)
  <1>1. RowsFit(AllRows, before)
    BY DEF SeedInv
  <1>2. OnceByKey(R, before) /\ OnceByRun(R) /\ OnlyMissing(R, before)
    BY <1>1 DEF RowsFit, OnceByKey, OnceByRun, OnlyMissing
  <1>3. InsertedTogether(R, before)
    <2> SUFFICES ASSUME NEW i \in DOMAIN Plan, NEW j \in DOMAIN Plan, Follows(i, j, before),
                        NEW r \in R, Made(Plan[i], r), r.by \in Runs
                 PROVE  \E t \in R : Made(Plan[j], t) /\ t.by = r.by
      BY DEF InsertedTogether
    <2>1. PICK t \in AllRows : Made(Plan[j], t) /\ t.by = r.by
      BY <1>1 DEF RowsFit, InsertedTogether
    <2>2. r.by # p
      <3>1. r \in db => r.by # p
        BY RowsOfRuns DEF DoneRuns
      <3>2. r \notin db => r.by # p
        BY RowsOfRuns
      <3> QED
        BY <3>1, <3>2
    <2>3. t \notin run[p].rows
      BY <2>1, <2>2, RowsOfRuns
    <2> QED
      BY <2>1, <2>3
  <1> QED
    BY <1>2, <1>3 DEF RowsFit

LEMMA LinksFit ==
  ASSUME NEW R, NEW Q, NEW old, RowsFit(R, old), R \subseteq Q, \A r \in Q \ R : r.table \in LinkTables
  PROVE  RowsFit(Q, old)
  <1>1. OnceByKey(Q, old)
    BY DEF RowsFit, OnceByKey, SameKey
  <1>2. \A i \in DOMAIN Plan, r \in Q : Made(Plan[i], r) => r \in R
    BY LinksMakeNoStep
  <1>3. OnceByRun(Q) /\ OnlyMissing(Q, old)
    BY <1>2 DEF RowsFit, OnceByRun, OnlyMissing
  <1>4. InsertedTogether(Q, old)
    BY <1>2 DEF RowsFit, InsertedTogether
  <1> QED
    BY <1>1, <1>3, <1>4 DEF RowsFit

\* One run goes on: what the others need to know of it.
LEMMA RunGoesOn ==
  ASSUME SeedInv, NEW p \in Runs, NEW w, run' = [run EXCEPT ![p] = w], db' = db, before' = before,
         met \subseteq met', run[p].at # "done", w.at # "done",
         Fits(p, w, db, DoneRuns, before), InsertsNext(w, before), RowsFit(AllRows', before),
         p \notin met' => /\ Undisturbed(w, db, DoneRuns)
                          /\ w.at = "raised" => Ambiguous \/ YearClosed,
         w.at \in AtWork => \/ run[p].at \in AtWork
                            \/ \A q \in Runs \ {p} : run[q].at \in AtWork => {p, q} \subseteq met'
  PROVE  SeedInv'
  <1>1. /\ run' = [q \in Runs |-> run'[q]] /\ run'[p] = w
        /\ \A q \in Runs \ {p} : run'[q] = run[q]
    BY DEF SeedInv
  <1>2. DoneRuns' = DoneRuns
    BY <1>1 DEF DoneRuns
  <1>3. \A q \in Runs : Fits(q, run'[q], db, DoneRuns, before) /\ InsertsNext(run'[q], before)
    BY <1>1 DEF SeedInv
  <1>4. (Ambiguous \/ YearClosed) => (Ambiguous \/ YearClosed)'
    BY DEF Ambiguous, YearClosed
  <1>5. ASSUME NEW q \in Runs \ met'
        PROVE  /\ Undisturbed(run'[q], db, DoneRuns)
               /\ run'[q].at \in AtWork => \A o \in Runs \ {q} : run'[o].at \notin AtWork
               /\ run'[q].at = "raised" => (Ambiguous \/ YearClosed)'
    <2>1. CASE q = p
      <3>1. Undisturbed(w, db, DoneRuns) /\ (w.at = "raised" => Ambiguous \/ YearClosed)
        BY <2>1
      <3>2. ASSUME w.at \in AtWork, NEW o \in Runs \ {p} PROVE run[o].at \notin AtWork
        <4>1. CASE run[p].at \in AtWork
          BY <4>1, <2>1 DEF SeedInv
        <4>2. CASE run[p].at \notin AtWork
          BY <3>2, <4>2, <2>1
        <4> QED
          BY <4>1, <4>2
      <3> QED
        BY <3>1, <3>2, <2>1, <1>1, <1>4
    <2>2. CASE q # p
      <3>1. /\ Undisturbed(run[q], db, DoneRuns)
            /\ run[q].at \in AtWork => \A o \in Runs \ {q} : run[o].at \notin AtWork
            /\ run[q].at = "raised" => Ambiguous \/ YearClosed
        BY DEF SeedInv
      <3>2. run[q].at \in AtWork => w.at \notin AtWork
        BY <3>1, <2>2
      <3> QED
        BY <3>1, <3>2, <2>2, <1>1, <1>4
    <2> QED
      BY <2>1, <2>2
  <1>6. Committed(db, DoneRuns, before)
    BY DEF SeedInv
  <1> HIDE DEF DoneRuns, Ambiguous, YearClosed
  <1> QED
    BY <1>1, <1>2, <1>3, <1>5, <1>6 DEF SeedInv

--------------------------------------------------------------------------------
(* Raising, being cut short, starting. *)

LEMMA GivesUp ==
  ASSUME SeedInv, NEW p \in Runs, run[p].at \in AtWork, NEW at \in {"raised", "cut_short"},
         Goes(p, at, run[p].step, {}, {}),
         at = "raised" /\ p \notin met => Ambiguous \/ YearClosed
  PROVE  SeedInv'
  <1> DEFINE w == [at |-> at, step |-> run[p].step, rows |-> {}, new |-> {}]
  <1>1. /\ run' = [run EXCEPT ![p] = w] /\ db' = db /\ before' = before /\ met' = met
        /\ w.at = at /\ w.step = run[p].step /\ w.rows = {} /\ w.new = {}
    BY DEF Goes
  <1> HIDE DEF w
  <1>2. run[p].at # "done" /\ w.at # "done" /\ w.at \notin AtWork /\ w.at \notin {"idle", "insert", "role", "link"}
    BY <1>1 DEF AtWork
  <1>3. Fits(p, w, db, DoneRuns, before)
    BY <1>1, <1>2 DEF SeedInv, Fits, InPlan, RowsOf, NewOf, Behind
  <1>4. InsertsNext(w, before) /\ Undisturbed(w, db, DoneRuns)
    BY <1>1, <1>2 DEF InsertsNext, Undisturbed
  <1>5. \A r : r \in AllRows' <=> r \in AllRows /\ ~(r \in run[p].rows)
    <2> TAKE r
    <2>1. r \in AllRows' <=> r \in db \/ \E q \in Runs \ {p} : r \in run[q].rows
      BY <1>1 DEF AllRows, SeedInv
    <2>2. r \in run[p].rows => r \notin db /\ \A q \in Runs \ {p} : r \notin run[q].rows
      BY <1>2, RowsOfRuns DEF DoneRuns
    <2> QED
      BY <2>1, <2>2, RowsOfRuns
  <1>6. RowsFit(AllRows', before)
    BY <1>2, <1>5, FewerRowsFit
  <1> QED
    BY <1>1, <1>2, <1>3, <1>4, <1>6, RunGoesOn

LEMMA StartKeepsSeedInv ==
  ASSUME SeedInv, NEW p \in Runs, Start(p)
  PROVE  SeedInv'
  <1> DEFINE w == [Idle EXCEPT !.at = "find"]
             others == {q \in Runs : Running(q)}
  <1>1. /\ run' = [run EXCEPT ![p] = w] /\ db' = db /\ before' = before
        /\ run[p].at = "idle" /\ w.at = "find" /\ w.step = 1 /\ w.rows = {} /\ w.new = {}
    BY DEF Start, Idle
  <1>2. others = {} \/ met' = met \cup others \cup {p}
    BY DEF Start
  <1>3. met \subseteq met'
    BY DEF Start
  <1>4. \A q \in Runs : q \in others <=> run[q].at \in AtWork
    BY DEF Running, AtWork
  <1> HIDE DEF w, others
  <1>5. \A q \in Runs \ {p} : run[q].at \in AtWork => {p, q} \subseteq met'
    BY <1>2, <1>4
  <1>6. 1 \in DOMAIN Plan /\ Len(Plan) \in Nat /\ \A i \in DOMAIN Plan : ~(i < 1)
    BY PlanSteps
  <1>7. Fits(p, w, db, DoneRuns, before) /\ InsertsNext(w, before) /\ Undisturbed(w, db, DoneRuns)
    <2>1. InPlan(w)
      BY <1>1, <1>6 DEF InPlan, AtWork
    <2>2. RowsOf(p, w, DoneRuns) /\ NewOf(p, w, db, DoneRuns, before) /\ Behind(w, db, before)
      BY <1>1, <1>6 DEF RowsOf, NewOf, Behind
    <2>3. InsertsNext(w, before) /\ Undisturbed(w, db, DoneRuns)
      BY <1>1, <1>6 DEF InsertsNext, Undisturbed
    <2> QED
      BY <2>1, <2>2, <2>3 DEF Fits
  <1>8. AllRows' = AllRows
    <2>1. run[p].rows = {}
      BY <1>1 DEF SeedInv, Fits, InPlan, AtWork
    <2>2. \A q \in Runs : run'[q].rows = run[q].rows
      BY <1>1, <2>1 DEF SeedInv
    <2> QED
      BY <1>1, <2>2 DEF AllRows
  <1>9. RowsFit(AllRows', before)
    BY <1>8 DEF SeedInv
  <1> QED
    BY <1>1, <1>3, <1>5, <1>7, <1>9, RunGoesOn

--------------------------------------------------------------------------------
(* Going on, with what was inserted for the step the run is at. *)

MayAdd(p, rows) ==
  /\ run[p].rows \subseteq rows
  /\ \A r \in rows \ run[p].rows : /\ r = Row(r.table, r.key, p) /\ OwnedBy(r, DoneRuns \cup {p})
                                   /\ (r.table \in LinkTables \/ Made(Plan[run[p].step], r))

LEMMA RowsMayAdd ==
  ASSUME SeedInv, NEW p \in Runs, run[p].at \in AtWork \ {"commit"}, NEW rows, MayAdd(p, rows)
  PROVE  /\ run[p].step \in DOMAIN Plan /\ run[p].step \in Nat
         /\ \A r \in rows :
              /\ r = Row(r.table, r.key, p) /\ OwnedBy(r, DoneRuns \cup {p})
              /\ \/ r.table \in LinkTables
                 \/ \E i \in DOMAIN Plan : Made(Plan[i], r) /\ (i < run[p].step \/ i = run[p].step)
         /\ \A i \in DOMAIN Plan : i < run[p].step =>
              /\ Complete(Plan[i], db \cup rows, before)
              /\ p \notin met /\ HasRows(Plan[i]) => ~Twice(Plan[i], db \cup rows)
  <1> DEFINE k == run[p].step
  <1>1. Fits(p, run[p], db, DoneRuns, before)
    BY DEF SeedInv
  <1>2. k \in DOMAIN Plan /\ k \in Nat /\ \A i \in DOMAIN Plan : i < k => i # k
    BY <1>1, PlanOrder DEF Fits, InPlan
  <1>3. ASSUME NEW r \in rows
        PROVE  /\ r = Row(r.table, r.key, p) /\ OwnedBy(r, DoneRuns \cup {p})
               /\ \/ r.table \in LinkTables
                  \/ \E i \in DOMAIN Plan : Made(Plan[i], r) /\ (i < k \/ i = k)
    <2>1. CASE r \in run[p].rows
      <3>1. RowsOf(p, run[p], DoneRuns)
        BY <1>1 DEF Fits
      <3> QED
        BY <2>1, <3>1 DEF RowsOf
    <2>2. CASE r \notin run[p].rows
      BY <2>2, <1>2 DEF MayAdd
    <2> QED
      BY <2>1, <2>2
  <1>4. ASSUME NEW i \in DOMAIN Plan, i < k, NEW r \in rows \ run[p].rows PROVE ~Made(Plan[i], r)
    <2>1. Made(Plan[k], r) /\ Made(Plan[i], r) => i = k
      BY <1>2, OneStepMakes
    <2>2. i # k
      BY <1>4, <1>2
    <2> QED
      BY <2>1, <2>2, LinksMakeNoStep DEF MayAdd
  <1>5. ASSUME NEW i \in DOMAIN Plan, i < k
        PROVE  /\ Complete(Plan[i], db \cup rows, before)
               /\ p \notin met /\ HasRows(Plan[i]) => ~Twice(Plan[i], db \cup rows)
    <2>1. (db \cup run[p].rows) \cup (rows \ run[p].rows) = db \cup rows
      BY DEF MayAdd
    <2>2. Complete(Plan[i], db \cup run[p].rows, before)
      BY <1>1, <1>5 DEF Fits, Behind
    <2>3. Complete(Plan[i], (db \cup run[p].rows) \cup (rows \ run[p].rows), before)
      BY <2>2, <1>4, <1>5, CompleteWithOthers
    <2>4. ASSUME p \notin met, HasRows(Plan[i]) PROVE ~Twice(Plan[i], db \cup rows)
      <3>1. ~Twice(Plan[i], db \cup run[p].rows)
        BY <2>4, <1>5 DEF SeedInv, Undisturbed
      <3>2. Found(Plan[i], db \cup rows) \subseteq Found(Plan[i], db \cup run[p].rows)
        BY <2>1, <2>4, <1>4, <1>5, FoundIn
      <3> QED
        BY <3>1, <3>2 DEF Twice
    <2> QED
      BY <2>1, <2>3, <2>4
  <1> QED
    BY <1>2, <1>3, <1>5

\* The step is complete: the next.
LEMMA NextFits ==
  ASSUME SeedInv, NEW p \in Runs, run[p].at \in AtWork \ {"commit"}, NEW rows, MayAdd(p, rows),
         Complete(Plan[run[p].step], db \cup rows, before), RowsFit(AllRows', before),
         p \notin met => /\ HasRows(Plan[run[p].step]) => ~Twice(Plan[run[p].step], db \cup rows)
                         /\ DoneRuns # {} => rows = {},
         NextStep(p, rows)
  PROVE  SeedInv'
  <1> DEFINE k == run[p].step
             w == [at |-> AtStep(k + 1), step |-> k + 1, rows |-> rows, new |-> {}]
  <1>1. /\ run' = [run EXCEPT ![p] = w] /\ db' = db /\ before' = before /\ met' = met
        /\ w.at = AtStep(k + 1) /\ w.step = k + 1 /\ w.rows = rows /\ w.new = {}
    BY DEF NextStep, Goes
  <1> HIDE DEF w
  <1>2. /\ k \in DOMAIN Plan /\ k \in Nat /\ DOMAIN Plan = 1..Len(Plan) /\ Len(Plan) \in Nat
        /\ \A i \in DOMAIN Plan : (i < k + 1) <=> (i < k \/ i = k)
    <2>1. k \in DOMAIN Plan /\ k \in Nat
      BY RowsMayAdd
    <2> QED
      BY <2>1, PlanOrder
  <1>3. /\ w.at \in {"find", "commit"} /\ w.at \in AtWork
        /\ w.at = "commit" => k + 1 = Len(Plan) + 1
        /\ w.at = "find" => k + 1 \in DOMAIN Plan
    BY <1>1, <1>2 DEF AtStep, AtWork
  <1>4. InPlan(w)
    BY <1>1, <1>2, <1>3 DEF InPlan
  <1>5. RowsOf(p, w, DoneRuns)
    BY ZenonT(40), <1>1, <1>2, RowsMayAdd DEF RowsOf
  <1>6. NewOf(p, w, db, DoneRuns, before) /\ InsertsNext(w, before)
    BY <1>3 DEF NewOf, InsertsNext
  <1>7. Behind(w, db, before)
    BY <1>1, <1>2, RowsMayAdd DEF Behind
  <1>8. Fits(p, w, db, DoneRuns, before)
    BY <1>4, <1>5, <1>6, <1>7 DEF Fits
  <1>9. ASSUME p \notin met PROVE Undisturbed(w, db, DoneRuns)
    <2>1. ASSUME NEW i \in DOMAIN Plan, HasRows(Plan[i]), i < k + 1 PROVE ~Twice(Plan[i], db \cup rows)
      BY <2>1, <1>2, <1>9, RowsMayAdd
    <2> QED
      BY <2>1, <1>1, <1>3, <1>9 DEF Undisturbed
  <1>10. run[p].at # "done" /\ w.at \notin {"done", "raised"}
    BY <1>3 DEF AtWork
  <1> QED
    BY <1>1, <1>6, <1>8, <1>9, <1>10, RunGoesOn

\* The row is there: its links.
LEMMA LinkFits ==
  ASSUME SeedInv, NEW p \in Runs, run[p].at \in AtWork \ {"commit"}, NEW rows, MayAdd(p, rows), NEW new,
         \A l \in new : l = Row(l.table, l.key, p) /\ l.table \in LinkTables /\ OwnedBy(l, DoneRuns \cup {p}),
         Complete(Plan[run[p].step], db \cup rows \cup new, before), RowsFit(AllRows', before),
         p \notin met => /\ HasRows(Plan[run[p].step]) => ~Twice(Plan[run[p].step], db \cup rows)
                         /\ \A l \in new, t \in db : ~SameKey(t, l)
                         /\ DoneRuns # {} => rows = {} /\ new = {},
         Goes(p, "link", run[p].step, rows, new)
  PROVE  SeedInv'
  <1> DEFINE k == run[p].step
             w == [at |-> "link", step |-> k, rows |-> rows, new |-> new]
  <1>1. /\ run' = [run EXCEPT ![p] = w] /\ db' = db /\ before' = before /\ met' = met
        /\ w.at = "link" /\ w.step = k /\ w.rows = rows /\ w.new = new
    BY DEF Goes
  <1> HIDE DEF w
  <1>2. k \in DOMAIN Plan /\ k \in 1..(Len(Plan) + 1)
    <2>1. k \in DOMAIN Plan
      BY RowsMayAdd
    <2> QED
      BY <2>1, PlanOrder
  <1>3. InPlan(w)
    BY <1>1, <1>2 DEF InPlan, AtWork
  <1>4. RowsOf(p, w, DoneRuns)
    BY <1>1, RowsMayAdd DEF RowsOf
  <1>5. NewOf(p, w, db, DoneRuns, before) /\ InsertsNext(w, before)
    BY <1>1 DEF NewOf, InsertsNext
  <1>6. Behind(w, db, before)
    BY <1>1, RowsMayAdd DEF Behind
  <1>7. Fits(p, w, db, DoneRuns, before)
    BY <1>3, <1>4, <1>5, <1>6 DEF Fits
  <1>8. ASSUME p \notin met PROVE Undisturbed(w, db, DoneRuns)
    <2>1. ASSUME NEW i \in DOMAIN Plan, HasRows(Plan[i]), i < k \/ i = k PROVE ~Twice(Plan[i], db \cup rows)
      BY <2>1, <1>8, RowsMayAdd
    <2> QED
      BY <2>1, <1>1, <1>8 DEF Undisturbed
  <1>9. run[p].at \in AtWork /\ run[p].at # "done" /\ w.at \notin {"done", "raised"}
    BY <1>1 DEF AtWork
  <1> QED
    BY <1>1, <1>5, <1>7, <1>8, <1>9, RunGoesOn

--------------------------------------------------------------------------------
(* Find. *)

LEMMA WhatIsSeen ==
  ASSUME SeedInv, NEW p \in Runs
  PROVE  /\ \A r \in db \cup run[p].rows :
              OwnedBy(r, DoneRuns \cup {p}) /\ (r.by \in Runs => r.by \in DoneRuns \cup {p})
         /\ db # before \/ DoneRuns # {} => \A i \in DOMAIN Plan : Complete(Plan[i], db, before)
         /\ before \subseteq db
         /\ run[p].at \in {"find", "insert"} =>
              run[p].step \in DOMAIN Plan /\ \A r \in run[p].rows : ~Made(Plan[run[p].step], r)
  <1>1. \A r \in db : OwnedBy(r, DoneRuns) /\ (r.by \in Runs => r.by \in DoneRuns)
    BY DEF SeedInv, Committed
  <1>2. \A r \in run[p].rows : OwnedBy(r, DoneRuns \cup {p}) /\ r.by = p
    BY RowsOfRuns DEF SeedInv, Fits, RowsOf
  <1>3. /\ db # before \/ DoneRuns # {} => \A i \in DOMAIN Plan : Complete(Plan[i], db, before)
        /\ before \subseteq db
    BY DEF SeedInv, Committed
  <1>4. ASSUME run[p].at \in {"find", "insert"}
        PROVE  run[p].step \in DOMAIN Plan /\ \A r \in run[p].rows : ~Made(Plan[run[p].step], r)
    <2>1. Fits(p, run[p], db, DoneRuns, before)
      BY DEF SeedInv
    <2>2. run[p].step \in DOMAIN Plan
      BY <1>4, <2>1 DEF Fits, InPlan, AtWork
    <2>3. ASSUME NEW r \in run[p].rows, Made(Plan[run[p].step], r) PROVE FALSE
      <3>1. r.table \in LinkTables \/ \E i \in DOMAIN Plan : Made(Plan[i], r) /\ i < run[p].step
        BY <1>4, <2>1 DEF Fits, RowsOf
      <3>2. PICK i \in DOMAIN Plan : Made(Plan[i], r) /\ i < run[p].step
        BY <2>2, <2>3, <3>1, LinksMakeNoStep
      <3>3. i = run[p].step
        BY <2>2, <2>3, <3>2, OneStepMakes
      <3> QED
        BY <2>2, <3>2, <3>3, PlanOrder
    <2> QED
      BY <2>2, <2>3
  <1>5. \A r \in db : OwnedBy(r, DoneRuns \cup {p})
    BY <1>1 DEF OwnedBy
  <1> QED
    BY <1>1, <1>2, <1>3, <1>4, <1>5

LEMMA LinksOwned ==
  ASSUME NEW s, NEW of, NEW p, NEW F, NEW l \in LinkRows(s, of, p),
         s.table = "roles" => Made(s, of) /\ (of.by \in Runs => of.by \in F)
  PROVE  /\ l = Row(l.table, l.key, p) /\ l.table \in LinkTables /\ OwnedBy(l, F)
         /\ s.table = "roles" => l.table = "role_permissions" /\ l.key[2] = of.by
  <1>1. l = Row(l.table, l.key, p) /\ l.table \in LinkTables
    BY LinksAre DEF LinkTables
  <1>2. CASE s.table = "roles"
    <2>1. l.table = "role_permissions" /\ \E c \in s.links : l.key = Ref(of) \o <<c>>
      BY <1>2, LinksAre
    <2>2. of.key = <<s.key>>
      BY <1>2 DEF Made
    <2>3. \A a, b, c : ((<<a>> \o <<b>>) \o <<c>>)[2] = b
      OBVIOUS
    <2>4. l.key[2] = of.by
      BY <2>1, <2>2, <2>3 DEF Ref
    <2> QED
      BY <1>1, <1>2, <2>1, <2>4 DEF OwnedBy
  <1>3. CASE s.table # "roles"
    BY <1>1, <1>3, LinksAre DEF OwnedBy, RoleLinks
  <1> QED
    BY <1>2, <1>3

LEMMA RowsAdded ==
  ASSUME SeedInv, NEW p \in Runs, NEW rows, run[p].rows \subseteq rows, NEW at, NEW step, NEW new,
         Goes(p, at, step, rows, new)
  PROVE  /\ AllRows' = AllRows \cup rows /\ AllRows \subseteq AllRows'
         /\ \A r \in AllRows' : r \in AllRows \/ r \in rows \ run[p].rows
  <1>1. db' = db /\ \A q \in Runs : run'[q].rows = IF q = p THEN rows ELSE run[q].rows
    BY DEF Goes, SeedInv
  <1> QED
    BY <1>1 DEF AllRows

LEMMA SameRowsFit ==
  ASSUME SeedInv, NEW p \in Runs, NEW at, NEW step, NEW new, Goes(p, at, step, run[p].rows, new)
  PROVE  MayAdd(p, run[p].rows) /\ RowsFit(AllRows', before)
  <1>1. AllRows' = AllRows
    BY RowsAdded
  <1> QED
    BY <1>1 DEF SeedInv, MayAdd

LEMMA FindLinks ==
  ASSUME SeedInv, NEW p \in Runs, run[p].at = "find", NEW of,
         LET s == Plan[run[p].step]
         IN \/ s.table = "unit_conversions" /\ of = s
            \/ s.table = "roles" /\ of \in Found(s, Visible(p)) /\ ~Twice(s, Visible(p)),
         LinkMissing(p, of)
  PROVE  SeedInv'
  <1> DEFINE s == Plan[run[p].step]
             V == db \cup run[p].rows
             new == Absent(LinkRows(s, of, p), V)
  <1>1. Visible(p) = V
    BY DEF Visible
  <1>2. Goes(p, "link", run[p].step, run[p].rows, new)
    BY <1>1 DEF LinkMissing
  <1>3. /\ run[p].step \in DOMAIN Plan /\ before \subseteq db
        /\ DoneRuns # {} => Complete(s, db, before)
    BY WhatIsSeen
  <1>4. s.table = "roles" => HasRows(s) /\ of \in Found(s, V) /\ ~Twice(s, V) /\ Made(s, of)
    <2>1. s.table = "roles" => HasRows(s) /\ of \in Found(s, V) /\ ~Twice(s, V)
      BY <1>1 DEF HasRows
    <2> QED
      BY <2>1, FoundIn
  <1>5. \A l \in new : l = Row(l.table, l.key, p) /\ l.table \in LinkTables /\ OwnedBy(l, DoneRuns \cup {p})
    <2>0. of \in V => (of.by \in Runs => of.by \in DoneRuns \cup {p})
      BY WhatIsSeen
    <2>1. s.table = "roles" => Made(s, of) /\ (of.by \in Runs => of.by \in DoneRuns \cup {p})
      BY <1>4, <2>0 DEF Found
    <2>2. \A l \in LinkRows(s, of, p) :
            l = Row(l.table, l.key, p) /\ l.table \in LinkTables /\ OwnedBy(l, DoneRuns \cup {p})
      BY <2>1, LinksOwned
    <2> QED
      BY <2>2 DEF Absent
  <1>6. \A l \in new : ~\E t \in V : SameKey(t, l)
    BY DEF Absent
  <1>7. Linked(s, of, V \cup new) /\ (Linked(s, of, V) => new = {})
    BY LinkedByMissing
  <1> HIDE DEF new
  <1>8. s.table = "roles" => Found(s, V \cup new) \subseteq Found(s, V)
    BY <1>5 DEF Found, LinkTables
  <1>9. Complete(s, V \cup new, before)
    <2>1. CASE s.table = "unit_conversions"
      BY <1>7, <2>1 DEF Complete, HasRows
    <2>2. CASE s.table = "roles"
      <3>1. \A r \in Found(s, V \cup new) : r = of
        BY <1>4, <1>8, <2>2 DEF Twice
      <3>2. Found(s, V \cup new) # {}
        BY <1>4, <2>2, FoundUnion
      <3> QED
        BY <1>4, <1>7, <2>2, <3>1, <3>2 DEF Complete
    <2> QED
      BY <2>1, <2>2
  <1>10. ASSUME p \notin met
         PROVE  /\ HasRows(s) => ~Twice(s, V)
                /\ \A l \in new, t \in db : ~SameKey(t, l)
                /\ DoneRuns # {} => run[p].rows = {} /\ new = {}
    <2>1. HasRows(s) => ~Twice(s, V)
      BY <1>4 DEF HasRows
    <2>2. ASSUME DoneRuns # {} PROVE run[p].rows = {} /\ new = {}
      <3>1. run[p].rows = {}
        BY <1>10, <2>2 DEF SeedInv, Undisturbed
      <3>2. V = db
        BY <3>1
      <3>3. Complete(s, V, before)
        BY <1>3, <2>2, <3>2
      <3>4. Linked(s, of, V)
        BY <1>4, <3>3 DEF Complete, HasRows
      <3> QED
        BY <1>7, <3>1, <3>4
    <2> QED
      BY <1>6, <2>1, <2>2
  <1>11. run[p].at \in AtWork \ {"commit"}
    BY DEF AtWork
  <1> QED
    BY <1>2, <1>5, <1>9, <1>10, <1>11, SameRowsFit, LinkFits

LEMMA LookupFinds ==
  ASSUME SeedInv, NEW p \in Runs, run[p].at = "find", Plan[run[p].step].table # "roles",
         Found(Plan[run[p].step], Visible(p)) # {}, ~Twice(Plan[run[p].step], Visible(p)), HasRows(Plan[run[p].step]),
         NextStep(p, run[p].rows)
  PROVE  SeedInv'
  <1> DEFINE s == Plan[run[p].step]
             V == db \cup run[p].rows
  <1>1. Visible(p) = V
    BY DEF Visible
  <1>2. ASSUME NEW u \in Found(s, V) PROVE u \in before \/ (s.table = "users" => HasRole(s, u, V))
    <2>1. u \in db
      <3>1. Made(s, u) /\ u \in V
        BY FoundIn
      <3> QED
        BY <3>1, WhatIsSeen
    <2>2. CASE u \notin before /\ s.table = "users"
      <3>1. Complete(s, db, before)
        BY <2>1, <2>2, WhatIsSeen
      <3>2. u \in Found(s, db)
        BY <2>1 DEF Found
      <3>3. HasRole(s, u, db)
        BY <2>2, <3>1, <3>2 DEF Complete
      <3> QED
        BY <3>3, HasRoleGrows
    <2> QED
      BY <2>2
  <1>3. Complete(s, V, before)
    BY <1>1, <1>2 DEF Complete
  <1>4. p \notin met => /\ HasRows(s) => ~Twice(s, V)
                        /\ DoneRuns # {} => run[p].rows = {}
    BY <1>1 DEF SeedInv, Undisturbed
  <1>5. run[p].at \in AtWork \ {"commit"}
    BY DEF AtWork
  <1>6. MayAdd(p, run[p].rows) /\ RowsFit(AllRows', before)
    BY SameRowsFit DEF NextStep
  <1> QED
    BY <1>3, <1>4, <1>5, <1>6, NextFits

LEMMA LookupRaises ==
  ASSUME SeedInv, NEW p \in Runs, run[p].at = "find", HasRows(Plan[run[p].step]),
         Twice(Plan[run[p].step], Visible(p)), Raise(p)
  PROVE  SeedInv'
  <1>1. Twice(Plan[run[p].step], db)
    <2> DEFINE s == Plan[run[p].step]
    <2>1. Found(s, Visible(p)) \subseteq Found(s, db)
      <3>1. \A r \in Found(s, Visible(p)) : Made(s, r) /\ r \in db \cup run[p].rows /\ r.active
        BY FoundIn DEF Visible
      <3>2. \A r \in Found(s, Visible(p)) : Made(s, r) /\ r \in db /\ r.active
        BY <3>1, WhatIsSeen
      <3> QED
        BY <3>2, FoundIn
    <2> QED
      BY <2>1 DEF Twice
  <1>2. Ambiguous
    BY <1>1, WhatIsSeen DEF Ambiguous, HasRows
  <1>3. run[p].at \in AtWork
    BY DEF AtWork
  <1>4. Goes(p, "raised", run[p].step, {}, {})
    BY DEF Raise
  <1> QED
    BY <1>2, <1>3, <1>4, GivesUp

LEMMA LookupInserts ==
  ASSUME SeedInv, NEW p \in Runs, run[p].at = "find", HasRows(Plan[run[p].step]),
         Found(Plan[run[p].step], Visible(p)) = {},
         LET s == Plan[run[p].step]
         IN Goes(p, "insert", run[p].step, run[p].rows, {Row(s.table, NewKey(s), p)})
  PROVE  SeedInv'
  <1> DEFINE k == run[p].step
             s == Plan[k]
             r == Row(s.table, NewKey(s), p)
             rows == run[p].rows
             w == [at |-> "insert", step |-> k, rows |-> rows, new |-> {r}]
  <1>1. /\ run' = [run EXCEPT ![p] = w] /\ db' = db /\ before' = before /\ met' = met
        /\ w.at = "insert" /\ w.step = k /\ w.rows = rows /\ w.new = {r}
    BY DEF Goes
  <1>2. r = Row(r.table, r.key, p) /\ Made(s, r)
    BY SMTT(30), RowFields DEF Made, NewKey
  <1> HIDE DEF w, r
  <1>3. k \in DOMAIN Plan /\ k \in 1..(Len(Plan) + 1)
    <2>1. k \in DOMAIN Plan
      BY WhatIsSeen
    <2> QED
      BY <2>1, PlanOrder
  <1>4. Found(s, db) = {} /\ Found(s, before) = {}
    <2>1. before \subseteq db
      BY WhatIsSeen
    <2> QED
      BY <2>1 DEF Visible, Found
  <1>5. db = before /\ DoneRuns = {}
    <2>1. ~Complete(s, db, before)
      BY <1>4 DEF Complete
    <2> QED
      BY <1>3, <2>1, WhatIsSeen
  <1>6. Fits(p, w, db, DoneRuns, before)
    <2>1. InPlan(w)
      BY <1>1, <1>3 DEF InPlan, AtWork
    <2>2. RowsOf(p, run[p], DoneRuns) /\ Behind(run[p], db, before)
      BY DEF SeedInv, Fits
    <2>3. RowsOf(p, w, DoneRuns)
      BY <1>1, <2>2 DEF RowsOf
    <2>4. Behind(w, db, before)
      BY <1>1, <2>2 DEF Behind, AtWork
    <2>5. NewOf(p, w, db, DoneRuns, before)
      BY <1>1, <1>2, <1>4 DEF NewOf
    <2> QED
      BY <2>1, <2>3, <2>4, <2>5 DEF Fits
  <1>7. InsertsNext(w, before)
    <2> SUFFICES ASSUME NEW j \in DOMAIN Plan, Follows(k, j, before) PROVE \E t \in rows : Made(Plan[j], t)
      BY <1>1 DEF InsertsNext
    <2>1. j < k /\ HasRows(Plan[j]) /\ Found(Plan[j], before) = {}
      BY <1>3, PlanOrder DEF Follows, HasRows
    <2>2. Complete(Plan[j], db \cup rows, before)
      BY <2>1 DEF SeedInv, Fits, Behind, AtWork
    <2>3. PICK t \in db \cup rows : Made(Plan[j], t) /\ t.active
      <3>1. Found(Plan[j], db \cup rows) # {}
        BY <2>1, <2>2 DEF Complete
      <3> QED
        BY <2>1, <3>1, FoundIn
    <2>4. t \notin db
      BY <1>5, <2>1, <2>3, FoundIn
    <2> QED
      BY <2>3, <2>4
  <1>8. p \notin met => Undisturbed(w, db, DoneRuns)
    <2> SUFFICES ASSUME p \notin met PROVE Undisturbed(w, db, DoneRuns)
      OBVIOUS
    <2>1. Undisturbed(run[p], db, DoneRuns)
      BY DEF SeedInv
    <2> QED
      BY <1>1, <1>4, <1>5, <2>1 DEF Undisturbed, AtWork
  <1>9. RowsFit(AllRows', before)
    BY SameRowsFit
  <1>10. run[p].at # "done" /\ w.at \notin {"done", "raised"} /\ run[p].at \in AtWork
    BY <1>1 DEF AtWork
  <1> QED
    BY <1>1, <1>6, <1>7, <1>8, <1>9, <1>10, RunGoesOn

LEMMA FindKeepsSeedInv ==
  ASSUME SeedInv, NEW p \in Runs, Find(p)
  PROVE  SeedInv'
  <1> DEFINE s == Plan[run[p].step]
  <1>1. run[p].at = "find"
    BY DEF Find
  <1>2. CASE s.table = "unit_conversions" /\ LinkMissing(p, s)
    BY <1>1, <1>2, FindLinks
  <1>3. ASSUME NEW known, s.table # "unit_conversions", Lookup(p, known)
        PROVE  \/ SeedInv'
               \/ Found(s, Visible(p)) # {} /\ ~Twice(s, Visible(p)) /\ known
    <2>1. HasRows(s)
      BY <1>3 DEF HasRows
    <2>2. CASE Twice(s, Visible(p)) /\ Raise(p)
      BY <1>1, <2>1, <2>2, LookupRaises
    <2>3. CASE /\ Found(s, Visible(p)) = {}
               /\ Goes(p, "insert", run[p].step, run[p].rows, {Row(s.table, NewKey(s), p)})
      BY <1>1, <2>1, <2>3, LookupInserts
    <2> QED
      BY <1>3, <2>2, <2>3 DEF Lookup
  <1>4. CASE s.table = "roles" /\ Lookup(p, LinkMissing(p, RowThere(p)))
    <2>1. CASE Found(s, Visible(p)) # {} /\ ~Twice(s, Visible(p)) /\ LinkMissing(p, RowThere(p))
      <3>1. RowThere(p) \in Found(s, Visible(p))
        BY <2>1 DEF RowThere
      <3> QED
        BY <1>1, <1>4, <2>1, <3>1, FindLinks
    <2> QED
      BY <1>3, <1>4, <2>1
  <1>5. CASE s.table \notin {"unit_conversions", "roles"} /\ Lookup(p, NextStep(p, run[p].rows))
    <2>1. CASE Found(s, Visible(p)) # {} /\ ~Twice(s, Visible(p)) /\ NextStep(p, run[p].rows)
      BY <1>1, <1>5, <2>1, LookupFinds DEF HasRows
    <2> QED
      BY <1>3, <1>5, <2>1
  <1> QED
    BY <1>2, <1>4, <1>5 DEF Find

--------------------------------------------------------------------------------
(* Insert. *)

LEMMA WhatIsInserted ==
  ASSUME SeedInv, NEW p \in Runs, run[p].at = "insert"
  PROVE  /\ run[p].step \in DOMAIN Plan /\ HasRows(Plan[run[p].step]) /\ p \notin DoneRuns
         /\ Found(Plan[run[p].step], before) = {}
         /\ \E r \in run[p].new : run[p].new = {r} /\ r = Row(r.table, r.key, p) /\ Made(Plan[run[p].step], r)
  <1>1. NewOf(p, run[p], db, DoneRuns, before)
    BY DEF SeedInv, Fits
  <1>2. run[p].step \in DOMAIN Plan /\ p \notin DoneRuns
    BY WhatIsSeen DEF DoneRuns
  <1> QED
    BY <1>1, <1>2 DEF NewOf

LEMMA InsertRaises ==
  ASSUME SeedInv, NEW p \in Runs, run[p].at = "insert", Conflicts(run[p].new), Raise(p)
  PROVE  SeedInv'
  <1> DEFINE s == Plan[run[p].step]
  <1>1. ASSUME p \notin met PROVE YearClosed
    <2>1. Found(s, db) = {}
      BY <1>1 DEF SeedInv, Undisturbed
    <2>2. PICK r \in run[p].new : Made(s, r) /\ run[p].new = {r} /\ HasRows(s)
      BY WhatIsInserted
    <2>3. PICK t \in db : SameKey(t, r)
      BY <2>2 DEF Conflicts
    <2>4. Made(s, t)
      BY <2>2, <2>3 DEF Made, SameKey
    <2>5. ~t.active
      BY <2>1, <2>2, <2>3, <2>4, FoundIn
    <2>6. t \in before
      <3>1. t \notin before => t = Row(t.table, t.key, t.by)
        BY <2>3 DEF SeedInv, Committed
      <3> QED
        BY <2>5, <3>1, RowFields
    <2>7. t.table = "fiscal_years"
      BY <2>5, <2>6 DEF SeedInv, Committed
    <2> QED
      BY <2>3, <2>5, <2>7 DEF YearClosed
  <1>2. run[p].at \in AtWork
    BY DEF AtWork
  <1>3. Goes(p, "raised", run[p].step, {}, {})
    BY DEF Raise
  <1> QED
    BY <1>1, <1>2, <1>3, GivesUp

\* What the unique keys and the waiting for them leave: the row is the first of its key, or a role.
LEMMA InsertedRowFits ==
  ASSUME SeedInv, NEW p \in Runs, run[p].at = "insert", ~Waits(p, run[p].new), ~Conflicts(run[p].new),
         NEW r \in run[p].new, run[p].new = {r}, r = Row(r.table, r.key, p), Made(Plan[run[p].step], r),
         NEW R, R = AllRows \cup {r}
  PROVE  RowsFit(R, before)
  <1> DEFINE k == run[p].step
             s == Plan[k]
  <1>1. RowsFit(AllRows, before)
    BY DEF SeedInv
  <1>2. k \in DOMAIN Plan /\ p \notin DoneRuns /\ r.by = p /\ Found(s, before) = {}
    BY WhatIsInserted, RowFields
  <1>3. \A i \in DOMAIN Plan : Made(Plan[i], r) => i = k
    BY <1>2, OneStepMakes
  <1>4. \A t \in run[p].rows : ~Made(s, t)
    BY WhatIsSeen
  <1>5. ASSUME NEW t \in AllRows, SameKey(r, t) \/ SameKey(t, r), r.table \notin LinkTables \cup {"roles"} PROVE FALSE
    <2>1. SameKey(t, r) /\ Unique(r.table) /\ Made(s, t)
      BY <1>5 DEF SameKey, Unique, Made
    <2>2. t \notin db
      BY <2>1 DEF Conflicts
    <2>3. PICK q \in Runs : t \in run[q].rows
      BY <2>2, RowsOfRuns
    <2>4. q = p
      BY <2>1, <2>3 DEF Waits
    <2> QED
      BY <1>4, <2>1, <2>3, <2>4
  <1>6. OnceByKey(R, before)
    <2> SUFFICES ASSUME NEW x \in R, NEW y \in R, SameKey(x, y), x.table \notin LinkTables \cup {"roles"}
                 PROVE  x = y \/ (x \in before /\ y \in before)
      BY DEF OnceByKey
    <2>1. CASE x \in AllRows /\ y \in AllRows
      BY <1>1, <2>1 DEF RowsFit, OnceByKey
    <2>2. CASE x = r \/ y = r
      BY <1>5, <2>2 DEF SameKey
    <2> QED
      BY <2>1, <2>2
  <1>7. OnceByRun(R)
    <2>1. ASSUME NEW t \in AllRows, Made(s, t), t.by = p PROVE FALSE
      BY <1>2, <1>4, <2>1, RowsOfRuns
    <2> SUFFICES ASSUME NEW i \in DOMAIN Plan, NEW x \in R, NEW y \in R, Made(Plan[i], x), Made(Plan[i], y),
                        x.by = y.by, x.by \in Runs
                 PROVE  x = y
      BY DEF OnceByRun
    <2>2. CASE x \in AllRows /\ y \in AllRows
      BY <1>1, <2>2 DEF RowsFit, OnceByRun
    <2>3. CASE x = r \/ y = r
      BY <1>2, <1>3, <2>1, <2>3
    <2> QED
      BY <2>2, <2>3
  <1>8. OnlyMissing(R, before)
    <2> SUFFICES ASSUME NEW i \in DOMAIN Plan, NEW x \in R \ before, Made(Plan[i], x) PROVE Found(Plan[i], before) = {}
      BY DEF OnlyMissing
    <2>1. CASE x \in AllRows
      BY <1>1, <2>1 DEF RowsFit, OnlyMissing
    <2>2. CASE x = r
      BY <1>2, <1>3, <2>2
    <2> QED
      BY <2>1, <2>2
  <1>9. InsertedTogether(R, before)
    <2> SUFFICES ASSUME NEW i \in DOMAIN Plan, NEW j \in DOMAIN Plan, Follows(i, j, before),
                        NEW x \in R, Made(Plan[i], x), x.by \in Runs
                 PROVE  \E t \in R : Made(Plan[j], t) /\ t.by = x.by
      BY DEF InsertedTogether
    <2>1. CASE x \in AllRows
      BY <1>1, <2>1 DEF RowsFit, InsertedTogether
    <2>2. CASE x = r
      <3>1. i = k
        BY <1>3, <2>2
      <3>2. PICK t \in run[p].rows : Made(Plan[j], t)
        BY <3>1 DEF SeedInv, InsertsNext
      <3>3. t \in R /\ t.by = p
        BY <3>2, RowsOfRuns
      <3> QED
        BY <1>2, <2>2, <3>2, <3>3
    <2> QED
      BY <2>1, <2>2
  <1> QED
    BY <1>6, <1>7, <1>8, <1>9 DEF RowsFit

\* The row inserted, the run goes on with it.
LEMMA RowInserted ==
  ASSUME SeedInv, NEW p \in Runs, run[p].at = "insert", ~Waits(p, run[p].new), ~Conflicts(run[p].new),
         NEW r \in run[p].new, run[p].new = {r}, r = Row(r.table, r.key, p), Made(Plan[run[p].step], r),
         NEW rows, \A t : t \in rows <=> (t \in run[p].rows \/ t = r)
  PROVE  /\ MayAdd(p, rows) /\ RowsFit(AllRows \cup rows, before)
         /\ r \in Found(Plan[run[p].step], rows)
         /\ \A t \in rows : Made(Plan[run[p].step], t) <=> t = r
         /\ p \notin met => DoneRuns = {} /\ ~Twice(Plan[run[p].step], db \cup rows)
  <1> DEFINE s == Plan[run[p].step]
  <1>1. run[p].step \in DOMAIN Plan /\ HasRows(s)
    BY WhatIsInserted
  <1>2. AllRows \cup rows = AllRows \cup {r}
    BY DEF AllRows
  <1>3. MayAdd(p, rows)
    <2>1. r.table \notin RoleLinks
      BY <1>1, PlanOrder DEF Made, RoleLinks
    <2> QED
      BY <2>1 DEF MayAdd, OwnedBy
  <1>4. \A t \in rows : Made(s, t) <=> t = r
    BY WhatIsSeen
  <1>5. r \in Found(s, rows)
    BY <1>1, FoundIn, RowFields
  <1>6. ASSUME p \notin met PROVE DoneRuns = {} /\ ~Twice(s, db \cup rows)
    <2>1. DoneRuns = {} /\ Found(s, db) = {}
      BY <1>6 DEF SeedInv, Undisturbed
    <2>2. \A t \in Found(s, rows) : t = r
      BY <1>1, <1>4, FoundIn
    <2>3. Found(s, db \cup rows) = Found(s, rows)
      BY <2>1, FoundUnion
    <2> QED
      BY <2>1, <2>2, <2>3 DEF Twice
  <1>7. RowsFit(AllRows \cup rows, before)
    BY <1>2, InsertedRowFits
  <1> QED
    BY <1>3, <1>4, <1>5, <1>6, <1>7

LEMMA InsertKeepsSeedInv ==
  ASSUME SeedInv, NEW p \in Runs, Insert(p)
  PROVE  SeedInv'
  <1> DEFINE k == run[p].step
             s == Plan[k]
             rows == run[p].rows \cup run[p].new
             D == db \cup rows
  <1>1. /\ run[p].at = "insert" /\ ~Waits(p, run[p].new) /\ run[p].at \in AtWork \ {"commit"}
    BY DEF Insert, AtWork
  <1>2. k \in DOMAIN Plan /\ HasRows(s) /\ p \notin DoneRuns /\ Found(s, before) = {}
    BY <1>1, WhatIsInserted
  <1>3. PICK r \in run[p].new : run[p].new = {r} /\ r = Row(r.table, r.key, p) /\ Made(s, r)
    BY <1>1, WhatIsInserted
  <1>4. \A t : t \in rows <=> (t \in run[p].rows \/ t = r)
    BY <1>3
  <1>5. r \in Found(s, D)
    BY <1>2, <1>3, FoundIn, RowFields
  <1> HIDE DEF rows
  <1>6. ASSUME ~Conflicts(run[p].new)
        PROVE  /\ MayAdd(p, rows) /\ \A t \in rows : Made(s, t) <=> t = r
               /\ p \notin met => DoneRuns = {} /\ ~Twice(s, D)
               /\ \A at, step, new : Goes(p, at, step, rows, new) => RowsFit(AllRows', before)
    <2>1. /\ MayAdd(p, rows) /\ RowsFit(AllRows \cup rows, before)
          /\ \A t \in rows : Made(s, t) <=> t = r
          /\ p \notin met => DoneRuns = {} /\ ~Twice(s, D)
      <3>1. /\ run[p].at = "insert" /\ ~Waits(p, run[p].new) /\ ~Conflicts(run[p].new)
            /\ run[p].new = {r} /\ r = Row(r.table, r.key, p) /\ Made(Plan[run[p].step], r)
        BY <1>1, <1>3, <1>6
      <3>2. \A t : t \in rows <=> (t \in run[p].rows \/ t = r)
        BY <1>4
      <3> HIDE DEF k, s, D
      <3>3. MayAdd(p, rows)
        BY <3>1, <3>2, RowInserted
      <3> QED
        BY ZenonT(40), <3>1, <3>2, RowInserted DEF k, s, D
    <2>2. run[p].rows \subseteq rows
      BY <1>4
    <2>3. ASSUME NEW at, NEW step, NEW new, Goes(p, at, step, rows, new) PROVE RowsFit(AllRows', before)
      <3>1. AllRows' = AllRows \cup rows
        BY <2>2, <2>3, RowsAdded
      <3> QED
        BY <2>1, <3>1
    <2> QED
      BY <2>1, <2>3
  <1>7. CASE Conflicts(run[p].new) /\ Raise(p)
    BY <1>1, <1>7, InsertRaises
  <1>8. ASSUME ~Conflicts(run[p].new), s.table = "roles", NEW role \in run[p].new,
               Goes(p, "link", k, rows, LinkRows(s, role, p))
        PROVE  SeedInv'
    <2> DEFINE new == LinkRows(s, role, p)
    <2>1. /\ MayAdd(p, rows) /\ RowsFit(AllRows', before)
          /\ \A t \in rows : Made(s, t) <=> t = r
          /\ p \notin met => DoneRuns = {} /\ ~Twice(s, D)
      BY <1>6, <1>8
    <2>2. role = r /\ r.by = p
      BY <1>3, RowFields
    <2>3. \A l \in new : /\ l = Row(l.table, l.key, p) /\ l.table \in LinkTables /\ OwnedBy(l, DoneRuns \cup {p})
                         /\ l.table = "role_permissions" /\ l.key[2] = p
      <3> TAKE l \in new
      <3>1. Made(s, role) /\ (role.by \in Runs => role.by \in DoneRuns \cup {p})
        BY <1>3, <2>2
      <3>2. l \in LinkRows(s, role, p)
        OBVIOUS
      <3> HIDE DEF new, s
      <3>3. l = Row(l.table, l.key, p) /\ l.table \in LinkTables /\ OwnedBy(l, DoneRuns \cup {p})
        BY <3>1, <3>2, LinksOwned
      <3>4. l.table = "role_permissions" /\ l.key[2] = role.by
        BY <1>8, <3>1, <3>2, LinksOwned
      <3> QED
        BY <2>2, <3>3, <3>4
    <2>4. Linked(s, r, D \cup new)
      BY <2>2, LinkedByMissing
    <2> HIDE DEF new
    <2>5. Complete(s, D \cup new, before)
      <3>1. ASSUME NEW t \in Found(s, D \cup new) PROVE Linked(s, t, D \cup new)
        <4>1. Made(s, t) /\ t \in db \cup rows
          BY <1>2, <2>3, <3>1, FoundIn, LinksMakeNoStep
        <4>2. CASE t \in db
          <5>1. t \in Found(s, db) /\ t \notin before
            BY <1>2, <4>2 DEF Found
          <5>2. Complete(s, db, before)
            BY <1>2, <4>2, <5>1, WhatIsSeen
          <5> QED
            BY <1>8, <5>1, <5>2, LinkedGrows DEF Complete
        <4>3. CASE t \in rows
          BY <2>1, <2>4, <4>1, <4>3
        <4> QED
          BY <4>1, <4>2, <4>3
      <3>2. Found(s, D \cup new) # {}
        BY <1>5, FoundUnion
      <3> QED
        BY <1>2, <1>8, <3>1, <3>2 DEF Complete
    <2>6. ASSUME NEW l \in new, NEW t \in db PROVE ~SameKey(t, l)
      <3>1. OwnedBy(t, DoneRuns)
        BY DEF SeedInv, Committed
      <3> QED
        BY <1>2, <2>3, <3>1 DEF OwnedBy, SameKey, RoleLinks
    <2>7. Goes(p, "link", k, rows, new)
      BY <1>8 DEF new
    <2> QED
      BY <1>1, <2>1, <2>3, <2>5, <2>6, <2>7, LinkFits
  <1>9. ASSUME ~Conflicts(run[p].new), s.table = "users", Goes(p, "role", k, rows, run[p].new)
        PROVE  SeedInv'
    <2> DEFINE w == [at |-> "role", step |-> k, rows |-> rows, new |-> run[p].new]
    <2>1. /\ run' = [run EXCEPT ![p] = w] /\ db' = db /\ before' = before /\ met' = met
          /\ w.at = "role" /\ w.step = k /\ w.rows = rows /\ w.new = {r}
      BY <1>3, <1>9 DEF Goes
    <2> HIDE DEF w
    <2>2. /\ MayAdd(p, rows) /\ RowsFit(AllRows', before)
          /\ \A t \in rows : Made(s, t) <=> t = r
          /\ p \notin met => DoneRuns = {} /\ ~Twice(s, D)
      BY <1>6, <1>9
    <2>3. InPlan(w)
      <3>1. k \in 1..(Len(Plan) + 1)
        BY <1>2, PlanOrder
      <3> QED
        BY <1>2, <2>1, <3>1 DEF InPlan, AtWork
    <2>4. RowsOf(p, w, DoneRuns)
      BY <1>1, <2>1, <2>2, RowsMayAdd DEF RowsOf
    <2>5. Behind(w, db, before)
      BY <1>1, <2>1, <2>2, RowsMayAdd DEF Behind
    <2>6. NewOf(p, w, db, DoneRuns, before) /\ InsertsNext(w, before)
      BY <1>4, <1>9, <2>1, <2>2 DEF NewOf, InsertsNext
    <2>7. ASSUME p \notin met PROVE Undisturbed(w, db, DoneRuns)
      <3>1. ASSUME NEW i \in DOMAIN Plan, HasRows(Plan[i]), i < k \/ i = k PROVE ~Twice(Plan[i], D)
        BY <1>1, <2>2, <2>7, <3>1, RowsMayAdd
      <3> QED
        BY <2>1, <2>2, <2>7, <3>1 DEF Undisturbed
    <2>8. run[p].at \in AtWork /\ run[p].at # "done" /\ w.at \notin {"done", "raised"}
      BY <1>1, <2>1 DEF AtWork
    <2>9. Fits(p, w, db, DoneRuns, before)
      BY <2>3, <2>4, <2>5, <2>6 DEF Fits
    <2> QED
      BY <2>1, <2>2, <2>6, <2>7, <2>8, <2>9, RunGoesOn
  <1>10. ASSUME ~Conflicts(run[p].new), s.table \notin {"roles", "users"}, NextStep(p, rows)
         PROVE  SeedInv'
    <2>1. /\ MayAdd(p, rows) /\ RowsFit(AllRows', before)
          /\ p \notin met => DoneRuns = {} /\ ~Twice(s, D)
      BY <1>6, <1>10 DEF NextStep
    <2>2. Complete(s, D, before)
      BY <1>2, <1>5, <1>10 DEF Complete
    <2> QED
      BY <1>1, <1>10, <2>1, <2>2, NextFits
  <1> QED
    BY <1>7, <1>8, <1>9, <1>10 DEF Insert, rows

--------------------------------------------------------------------------------
(* FindRole and Link. *)

LEMMA FindRoleKeepsSeedInv ==
  ASSUME SeedInv, NEW p \in Runs, FindRole(p)
  PROVE  SeedInv'
  <1> DEFINE k == run[p].step
             s == Plan[k]
             V == db \cup run[p].rows
             found == {r \in V : r.table = "roles" /\ \E c \in s.links : r.key = <<c>>}
  <1>1. run[p].at = "role" /\ run[p].at \in AtWork \ {"commit"} /\ Visible(p) = V
    BY DEF FindRole, AtWork, Visible
  <1>2. Fits(p, run[p], db, DoneRuns, before)
    BY DEF SeedInv
  <1>3. k \in DOMAIN Plan /\ s.table = "users" /\ HasRows(s)
    BY <1>1, <1>2 DEF Fits, InPlan, NewOf, HasRows
  <1>4. PICK u \in run[p].rows : run[p].new = {u} /\ \A r \in run[p].rows : Made(s, r) <=> r = u
    BY <1>1, <1>2 DEF Fits, NewOf
  <1>5. u.by = p /\ u = Row(u.table, u.key, p) /\ u.active
    BY RowsOfRuns, RowFields
  <1>6. p \notin DoneRuns
    BY <1>1 DEF DoneRuns
  <1>7. ASSUME p \notin met PROVE \E r \in found : found = {r}
    <2>1. PICK j \in DOMAIN Plan : j < k /\ Plan[j].table = "roles" /\ s.links = {Plan[j].key}
      BY <1>3, PlanOrder
    <2>2. HasRows(Plan[j]) /\ Complete(Plan[j], V, before)
      BY <1>1, <1>2, <2>1 DEF HasRows, Fits, Behind
    <2>3. ~Twice(Plan[j], V)
      BY <1>1, <1>7, <2>1, <2>2 DEF SeedInv, Undisturbed
    <2>4. \A r \in V : r.table = "roles" => r.active
      <3>1. \A r \in run[p].rows : r.active
        BY RowsOfRuns, RowFields
      <3>2. \A r \in db \ before : r = Row(r.table, r.key, r.by)
        BY DEF SeedInv, Committed
      <3>3. \A r \in before : ~r.active => r.table = "fiscal_years"
        BY DEF SeedInv, Committed
      <3> QED
        BY <3>1, <3>2, <3>3, RowFields
    <2>5. found = Found(Plan[j], V)
      BY <2>1, <2>4 DEF Found
    <2>6. Found(Plan[j], V) # {}
      BY <2>2 DEF Complete
    <2> HIDE DEF found
    <2> QED
      BY <2>3, <2>5, <2>6 DEF Twice
  <1>8. CASE (\A r \in found : found # {r}) /\ Raise(p)
    <2>1. Goes(p, "raised", run[p].step, {}, {})
      BY <1>8 DEF Raise
    <2> QED
      BY <1>1, <1>7, <1>8, <2>1, GivesUp
  <1>9. ASSUME NEW r \in found,
               Goes(p, "link", k, run[p].rows, {Row("user_roles", Ref(v) \o Ref(r), p) : v \in run[p].new})
        PROVE  SeedInv'
    <2> DEFINE key == Ref(u) \o Ref(r)
               l == Row("user_roles", key, p)
               new == {l}
    <2>1. Goes(p, "link", k, run[p].rows, new)
      BY <1>4, <1>9
    <2>2. key[2] = p
      <3>1. \E c \in s.links : r.key = <<c>>
        BY <1>9
      <3>2. u.key = <<s.key>>
        BY <1>3, <1>4 DEF Made
      <3>3. \A a, b, c, d : ((<<a>> \o <<b>>) \o (<<c>> \o <<d>>))[2] = b
        OBVIOUS
      <3> QED
        BY <1>5, <3>1, <3>2, <3>3 DEF Ref
    <2> HIDE DEF key
    <2>4. l.table = "user_roles" /\ l.key = key /\ l = Row(l.table, l.key, p)
      BY RowFields
    <2> HIDE DEF l
    <2>3. HasRole(s, u, V \cup new)
      <3>1. l.table = "user_roles" /\ l.key = Ref(u) \o Ref(r)
        BY <2>4 DEF key
      <3>2. r \in V \cup new /\ r.table = "roles" /\ \E c \in s.links : r.key = <<c>>
        BY <1>9
      <3> QED
        BY <3>1, <3>2 DEF HasRole
    <2> HIDE DEF found
    <2>5. l.table \in LinkTables /\ OwnedBy(l, DoneRuns \cup {p})
      BY <2>2, <2>4 DEF LinkTables, OwnedBy
    <2>6. Complete(s, V \cup new, before)
      <3>1. ASSUME NEW v \in Found(s, V \cup new) PROVE v \in before \/ HasRole(s, v, V \cup new)
        <4>1. Made(s, v) /\ v \in V \cup {l}
          BY <1>3, FoundIn
        <4>2. v # l
          BY <1>3, <2>5, <4>1, LinksMakeNoStep
        <4>3. CASE v \in run[p].rows
          BY <1>4, <2>3, <4>1, <4>3
        <4>4. CASE v \in db \ before
          <5>1. Complete(s, db, before)
            BY <1>3, <4>4, WhatIsSeen
          <5>2. v \in Found(s, db)
            BY <4>4 DEF Found
          <5>3. HasRole(s, v, db)
            BY <1>3, <4>4, <5>1, <5>2 DEF Complete
          <5> QED
            BY <5>3, HasRoleGrows
        <4> QED
          BY <4>1, <4>2, <4>3, <4>4
      <3>2. u \in Found(s, V \cup new)
        BY <1>3, <1>4, <1>5, FoundIn
      <3> QED
        BY <1>3, <3>1, <3>2 DEF Complete
    <2>7. \A t \in db : ~SameKey(t, l)
      <3>1. \A t \in db : OwnedBy(t, DoneRuns)
        BY DEF SeedInv, Committed
      <3> QED
        BY <1>6, <2>2, <2>4, <3>1 DEF OwnedBy, SameKey, RoleLinks
    <2>8. p \notin met => ~Twice(s, V) /\ DoneRuns = {}
      BY <1>1, <1>3 DEF SeedInv, Undisturbed
    <2>9. MayAdd(p, run[p].rows) /\ RowsFit(AllRows', before)
      BY <2>1, SameRowsFit
    <2>10. \A x \in new : /\ x = Row(x.table, x.key, p) /\ x.table \in LinkTables /\ OwnedBy(x, DoneRuns \cup {p})
                          /\ \A t \in db : ~SameKey(t, x)
      BY <2>4, <2>5, <2>7
    <2>11. p \notin met => /\ HasRows(s) => ~Twice(s, V)
                           /\ \A x \in new, t \in db : ~SameKey(t, x)
                           /\ DoneRuns # {} => run[p].rows = {} /\ new = {}
      BY <2>8, <2>10
    <2> HIDE DEF new
    <2> QED
      BY <1>1, <2>1, <2>6, <2>9, <2>10, <2>11, LinkFits
  <1> QED
    BY <1>1, <1>8, <1>9 DEF FindRole

LEMMA LinkKeepsSeedInv ==
  ASSUME SeedInv, NEW p \in Runs, Link(p)
  PROVE  SeedInv'
  <1> DEFINE k == run[p].step
             s == Plan[k]
             rows == run[p].rows \cup run[p].new
  <1>1. run[p].at = "link" /\ run[p].at \in AtWork \ {"commit"}
    BY DEF Link, AtWork
  <1>2. Fits(p, run[p], db, DoneRuns, before)
    BY DEF SeedInv
  <1>3. /\ k \in DOMAIN Plan
        /\ \A l \in run[p].new : l = Row(l.table, l.key, p) /\ l.table \in LinkTables /\ OwnedBy(l, DoneRuns \cup {p})
        /\ Complete(s, db \cup run[p].rows \cup run[p].new, before)
    BY <1>1, <1>2 DEF Fits, InPlan, NewOf
  <1>4. CASE Conflicts(run[p].new) /\ Raise(p)
    <2>1. p \in met
      BY <1>1, <1>4 DEF Conflicts, SeedInv, Undisturbed
    <2>2. Goes(p, "raised", run[p].step, {}, {})
      BY <1>4 DEF Raise
    <2> QED
      BY <1>1, <2>1, <2>2, GivesUp
  <1>5. CASE NextStep(p, rows)
    <2>1. MayAdd(p, rows)
      BY <1>3 DEF MayAdd
    <2>2. db \cup run[p].rows \cup run[p].new = db \cup rows
      OBVIOUS
    <2>3. Complete(s, db \cup rows, before)
      BY <1>3, <2>2
    <2>4. RowsFit(AllRows', before)
      <3>1. /\ AllRows \subseteq AllRows'
            /\ \A r \in AllRows' : r \in AllRows \/ r \in rows \ run[p].rows
        BY <1>5, RowsAdded DEF NextStep
      <3>2. \A r \in AllRows' \ AllRows : r.table \in LinkTables
        BY <1>3, <3>1
      <3>3. RowsFit(AllRows, before)
        BY DEF SeedInv
      <3> QED
        BY <3>1, <3>2, <3>3, LinksFit
    <2>5. ASSUME p \notin met
          PROVE  /\ HasRows(s) => ~Twice(s, db \cup rows)
                 /\ DoneRuns # {} => rows = {}
      <3>1. Undisturbed(run[p], db, DoneRuns)
        BY <2>5 DEF SeedInv
      <3>2. HasRows(s) => ~Twice(s, db \cup run[p].rows)
        BY <1>1, <1>3, <3>1 DEF Undisturbed
      <3>3. HasRows(s) => Found(s, db \cup rows) \subseteq Found(s, db \cup run[p].rows)
        BY <1>3, LinksMakeNoStep, FoundIn
      <3> QED
        BY <3>1, <3>2, <3>3 DEF Undisturbed, Twice
    <2> QED
      BY <1>1, <1>5, <2>1, <2>3, <2>4, <2>5, NextFits
  <1> QED
    BY <1>4, <1>5 DEF Link

--------------------------------------------------------------------------------
(* Commit, and the first states. *)

LEMMA CommitKeepsSeedInv ==
  ASSUME SeedInv, NEW p \in Runs, CommitSeed(p)
  PROVE  SeedInv'
  <1> DEFINE w == [at |-> "done", step |-> run[p].step, rows |-> {}, new |-> {}]
             rows == run[p].rows
             D == db \cup rows
             F == DoneRuns \cup {p}
  <1>1. /\ run' = [run EXCEPT ![p] = w] /\ db' = D /\ before' = before /\ met' = met
        /\ w.at = "done" /\ w.step = run[p].step /\ w.rows = {} /\ w.new = {}
        /\ run[p].at = "commit"
    BY DEF CommitSeed
  <1> HIDE DEF w
  <1>2. /\ run' = [q \in Runs |-> run'[q]] /\ run'[p] = w
        /\ \A q \in Runs \ {p} : run'[q] = run[q]
    BY <1>1 DEF SeedInv
  <1>3. DoneRuns' = F
    BY <1>1, <1>2 DEF DoneRuns
  <1>4. Fits(p, run[p], db, DoneRuns, before)
    BY DEF SeedInv
  <1>5. ASSUME NEW i \in DOMAIN Plan PROVE Complete(Plan[i], D, before)
    <2>1. i < run[p].step
      BY <1>1, <1>4, PlanOrder DEF Fits, InPlan
    <2> QED
      BY <1>1, <1>4, <2>1 DEF Fits, Behind, AtWork
  <1>6. ASSUME NEW q \in Runs PROVE Fits(q, run'[q], D, F, before) /\ InsertsNext(run'[q], before)
    <2>1. CASE q = p
      <3>1. InPlan(w)
        BY <1>1, <1>4 DEF Fits, InPlan, AtWork
      <3>2. RowsOf(p, w, F) /\ NewOf(p, w, D, F, before) /\ Behind(w, D, before) /\ InsertsNext(w, before)
        BY <1>1 DEF RowsOf, NewOf, Behind, InsertsNext, AtWork
      <3> QED
        BY <1>2, <2>1, <3>1, <3>2 DEF Fits
    <2>2. CASE q # p
      <3> DEFINE v == run[q]
      <3>1. Fits(q, v, db, DoneRuns, before) /\ InsertsNext(v, before)
        BY DEF SeedInv
      <3>2. run'[q] = v
        BY <1>2, <2>2
      <3> HIDE DEF v
      <3>3. \A r : OwnedBy(r, DoneRuns \cup {q}) => OwnedBy(r, F \cup {q})
        BY DEF OwnedBy
      <3>4. RowsOf(q, v, F)
        BY <3>1, <3>3 DEF Fits, RowsOf
      <3>5. NewOf(q, v, D, F, before)
        <4>1. ASSUME v.at = "link" PROVE Complete(Plan[v.step], D \cup v.rows \cup v.new, before)
          <5>1. v.step \in DOMAIN Plan /\ Complete(Plan[v.step], db \cup v.rows \cup v.new, before)
            BY <3>1, <4>1 DEF Fits, InPlan, NewOf, AtWork
          <5>2. Complete(Plan[v.step], (db \cup v.rows \cup v.new) \cup D, before)
            BY <1>5, <5>1, CompleteJoin
          <5>3. (db \cup v.rows \cup v.new) \cup D = D \cup v.rows \cup v.new
            OBVIOUS
          <5> QED
            BY <5>2, <5>3
        <4> QED
          BY <3>1, <3>3, <4>1 DEF Fits, NewOf
      <3>6. Behind(v, D, before)
        <4> SUFFICES ASSUME v.at \in AtWork, NEW i \in DOMAIN Plan, i < v.step
                     PROVE  Complete(Plan[i], D \cup v.rows, before)
          BY DEF Behind
        <4>1. Complete(Plan[i], (db \cup v.rows) \cup D, before)
          BY <1>5, <3>1, CompleteJoin DEF Fits, Behind
        <4>2. (db \cup v.rows) \cup D = D \cup v.rows
          OBVIOUS
        <4> QED
          BY <4>1, <4>2
      <3> QED
        BY <3>1, <3>2, <3>4, <3>5, <3>6 DEF Fits
    <2> QED
      BY <2>1, <2>2
  <1>7. Committed(D, F, before)
    <2>1. Committed(db, DoneRuns, before)
      BY DEF SeedInv
    <2>2. \A r \in rows : r = Row(r.table, r.key, r.by) /\ r.by = p /\ OwnedBy(r, F)
      BY <1>4, RowsOfRuns DEF Fits, RowsOf
    <2>3. \A l \in db : OwnedBy(l, F)
      BY <2>1 DEF Committed, OwnedBy
    <2> QED
      BY <1>5, <2>1, <2>2, <2>3 DEF Committed
  <1>8. RowsFit(AllRows', before)
    <2>1. AllRows' = AllRows
      BY <1>1, <1>2 DEF AllRows
    <2> QED
      BY <2>1 DEF SeedInv
  <1>9. (Ambiguous \/ YearClosed) => (Ambiguous \/ YearClosed)'
    <2>1. \A s : Found(s, db) \subseteq Found(s, D)
      BY DEF Found
    <2>2. \A i \in DOMAIN Plan : Twice(Plan[i], db) => Twice(Plan[i], D)
      BY <2>1 DEF Twice
    <2>3. Ambiguous => Ambiguous'
      BY <1>1, <2>2 DEF Ambiguous
    <2> QED
      BY <1>1, <2>3 DEF YearClosed
  <1>10. ASSUME NEW q \in Runs \ met
         PROVE  /\ Undisturbed(run'[q], D, F)
                /\ run'[q].at \in AtWork => \A o \in Runs \ {q} : run'[o].at \notin AtWork
                /\ run'[q].at = "raised" => (Ambiguous \/ YearClosed)'
    <2>1. CASE q = p
      BY <1>1, <1>2, <2>1 DEF Undisturbed, AtWork
    <2>2. CASE q # p
      <3>1. run[q].at \notin AtWork
        BY <1>1, <2>2 DEF SeedInv, AtWork
      <3>2. run[q].rows = {} /\ run[q].new = {} /\ run'[q] = run[q]
        BY <1>2, <2>2, <3>1 DEF SeedInv, Fits, InPlan, AtWork
      <3>3. Undisturbed(run'[q], D, F)
        BY <3>1, <3>2 DEF Undisturbed, AtWork
      <3>4. run[q].at = "raised" => Ambiguous \/ YearClosed
        BY DEF SeedInv
      <3> QED
        BY <1>9, <3>1, <3>2, <3>3, <3>4
    <2> QED
      BY <2>1, <2>2
  <1> HIDE DEF DoneRuns, Ambiguous, YearClosed, D, F
  <1> QED
    BY <1>1, <1>2, <1>3, <1>6, <1>7, <1>8, <1>10 DEF SeedInv

\* The rows there were at first are nobody's, and no link among them is to a run's row.
Prior(r) == r.by \notin Runs /\ (~r.active => r.table = "fiscal_years") /\ OwnedBy(r, {})

LEMMA InitialRowsArePrior ==
  ASSUME NEW absent, NEW r \in InitialRows(absent)
  PROVE  Prior(r) /\ \E t, k : r = Row(t, k, "before")
  <1> DEFINE kept == {s \in ToSet(Plan) : s.key \notin absent /\ s.table # "unit_conversions"}
             NewRow(s) == Row(s.table, <<IF s.table = "fiscal_years" THEN FiscalYears[1] ELSE s.key>>, "before")
             rows == {NewRow(s) : s \in kept}
             linked == UNION {UNION {LinkRows(s, of, "before") : of \in Found(s, rows)} : s \in kept}
             held == UNION {{Row("user_roles", Ref(u) \o Ref(o), "before") :
                               u \in Found(s, rows), o \in UNION {Found(Step("roles", c, {}), rows) : c \in s.links}} :
                            s \in {s \in kept : s.table = "users"}}
             pairs == UNION {LinkRows(s, s, "before") : s \in {s \in ToSet(Plan) : s.table = "unit_conversions"}}
  <1>1. "before" \notin Runs
    BY RunsAssumption
  <1>2. r \in rows \/ r \in held \/ r \in linked \/ r \in pairs
    <2>1. InitialRows(absent) =
            rows \cup held
            \cup {l \in linked : "links" \notin absent /\ l.key[3] \notin absent}
            \cup {l \in pairs : \A i \in {1, 2} : l.key[i] \notin absent}
      BY DEF InitialRows, NewRow
    <2> HIDE DEF rows, linked, held, pairs
    <2> QED
      BY <2>1
  <1>3. \A s \in ToSet(Plan) : s.table \notin RoleLinks
    BY PlanOrder DEF ToSet, RoleLinks
  <1>4. ASSUME NEW o \in rows PROVE o.by = "before" /\ \E c : o.key = <<c>>
    <2>1. PICK s \in kept : o = NewRow(s)
      BY <1>4
    <2> DEFINE c == IF s.table = "fiscal_years" THEN FiscalYears[1] ELSE s.key
    <2>2. o = Row(s.table, <<c>>, "before")
      BY <2>1
    <2> HIDE DEF c
    <2> QED
      BY <2>2, RowFields
  <1> HIDE DEF rows
  <1>5. ASSUME NEW s, NEW of, NEW l \in LinkRows(s, of, "before"),
               s.table = "roles" => Made(s, of) /\ of.by = "before"
        PROVE  Prior(l) /\ \E t, k : l = Row(t, k, "before")
    <2>1. l = Row(l.table, l.key, "before") /\ OwnedBy(l, {})
      BY <1>1, <1>5, LinksOwned
    <2> QED
      BY <1>1, <2>1, RowFields DEF Prior
  <1>6. CASE r \in rows
    <2>1. PICK s \in kept : r = NewRow(s)
      BY <1>6 DEF rows
    <2> DEFINE k == <<IF s.table = "fiscal_years" THEN FiscalYears[1] ELSE s.key>>
    <2>2. r = Row(s.table, k, "before")
      BY <2>1
    <2> HIDE DEF k
    <2> QED
      BY <1>1, <1>3, <2>2, RowFields DEF Prior, OwnedBy
  <1>7. CASE r \in linked
    <2>1. PICK s \in kept : \E of \in Found(s, rows) : r \in LinkRows(s, of, "before")
      BY <1>7
    <2>2. PICK of \in Found(s, rows) : r \in LinkRows(s, of, "before")
      BY <2>1
    <2>3. Made(s, of) /\ of.by = "before"
      BY <1>4, FoundIn DEF HasRows
    <2> QED
      BY <1>5, <2>2, <2>3
  <1>8. CASE r \in pairs
    <2>1. PICK s : s.table = "unit_conversions" /\ r \in LinkRows(s, s, "before")
      BY <1>8
    <2> QED
      BY <1>5, <2>1
  <1>9. CASE r \in held
    <2>1. PICK u \in rows, o \in rows : r = Row("user_roles", Ref(u) \o Ref(o), "before")
      BY <1>9 DEF Found
    <2> DEFINE k == Ref(u) \o Ref(o)
    <2>2. k[2] = "before"
      <3>1. \A a, b, c, d : ((<<a>> \o <<b>>) \o (<<c>> \o <<d>>))[2] = b
        OBVIOUS
      <3>2. u.by = "before" /\ \E c : u.key = <<c>>
        BY <1>4
      <3>3. \E c : o.key = <<c>>
        BY <1>4
      <3> QED
        BY <3>1, <3>2, <3>3 DEF Ref
    <2>3. r = Row("user_roles", k, "before")
      BY <2>1
    <2> HIDE DEF k
    <2> QED
      BY <1>1, <2>2, <2>3, RowFields DEF Prior, OwnedBy
  <1> QED
    BY <1>2, <1>6, <1>7, <1>8, <1>9

LEMMA SeedInitHasSeedInv ==
  ASSUME SeedInit
  PROVE  SeedInv
  <1>1. PICK absent \in Absences, closed \in BOOLEAN, twins \in Twins :
          db = (IF closed THEN Closed(InitialRows(absent)) ELSE InitialRows(absent)) \cup twins
    BY DEF SeedInit
  <1>2. /\ run = [p \in Runs |-> Idle] /\ before = db
        /\ \A p \in Runs : run[p] = Idle
    BY DEF SeedInit
  <1>3. ASSUME NEW r \in Closed(InitialRows(absent)) PROVE Prior(r)
    <2>1. PICK o \in InitialRows(absent) : r = IF o.table = "fiscal_years" THEN [o EXCEPT !.active = FALSE] ELSE o
      BY DEF Closed
    <2>2. PICK t, k : o = Row(t, k, "before")
      BY InitialRowsArePrior
    <2>3. CASE o.table = "fiscal_years"
      <3>1. r.table = "fiscal_years" /\ r.by = "before"
        BY <2>1, <2>2, <2>3 DEF Row
      <3> QED
        BY <3>1, RunsAssumption DEF Prior, OwnedBy, RoleLinks
    <2>4. CASE o.table # "fiscal_years"
      BY <2>1, <2>4, InitialRowsArePrior
    <2> QED
      BY <2>3, <2>4
  <1>4. ASSUME NEW r \in twins PROVE Prior(r)
    <2>1. PICK t, k : t \in {"tenants", "roles"} /\ r = Row(t, k, "elsewhere")
      BY DEF Twins
    <2> QED
      BY <2>1, RunsAssumption, RowFields DEF Prior, OwnedBy, RoleLinks
  <1>5. \A r \in db : Prior(r)
    BY <1>1, <1>3, <1>4, InitialRowsArePrior
  <1>6. DoneRuns = {} /\ AllRows = db
    BY <1>2 DEF DoneRuns, AllRows, Idle
  <1>7. \A p \in Runs : Fits(p, run[p], db, {}, db) /\ InsertsNext(run[p], db) /\ Undisturbed(run[p], db, {})
    <2>1. 1 \in 1..(Len(Plan) + 1)
      BY PlanSteps
    <2>2. /\ Idle.at = "idle" /\ Idle.step = 1 /\ Idle.rows = {} /\ Idle.new = {}
      BY DEF Idle
    <2>3. InPlan(Idle) /\ InsertsNext(Idle, db) /\ Undisturbed(Idle, db, {})
      BY <2>1, <2>2 DEF InPlan, AtWork, InsertsNext, Undisturbed
    <2>4. \A p \in Runs : RowsOf(p, Idle, {}) /\ NewOf(p, Idle, db, {}, db) /\ Behind(Idle, db, db)
      BY <2>2 DEF RowsOf, NewOf, Behind, AtWork
    <2> QED
      BY <1>2, <2>3, <2>4 DEF Fits
  <1>8. Committed(db, {}, db)
    BY <1>5 DEF Committed, Prior
  <1>9. RowsFit(db, db)
    BY <1>5 DEF RowsFit, OnceByKey, OnceByRun, OnlyMissing, InsertedTogether, Prior
  <1>10. \A p \in Runs : run[p].at \notin AtWork /\ run[p].at # "raised"
    BY <1>2 DEF Idle, AtWork
  <1>11. run = [p \in Runs |-> run[p]]
    BY <1>2
  <1> QED
    BY <1>2, <1>6, <1>7, <1>8, <1>9, <1>10, <1>11 DEF SeedInv

--------------------------------------------------------------------------------
(* The theorems. *)

LEMMA SeedInvIsInvariant == SeedSpec => []SeedInv
  <1>1. SeedInit => SeedInv
    BY SeedInitHasSeedInv
  <1>2. ASSUME SeedInv, [SeedNext]_seedVars PROVE SeedInv'
    <2>1. CASE AprilFirst \/ UNCHANGED seedVars
      <3>1. UNCHANGED <<db, run, before, met>>
        BY <2>1 DEF AprilFirst, seedVars
      <3> QED
        BY <1>2, <3>1 DEF SeedInv, DoneRuns, AllRows, Ambiguous, YearClosed
    <2>2. ASSUME NEW p \in Runs, Start(p) \/ Advance(p) \/ CutShort(p) PROVE SeedInv'
      <3>1. CASE Start(p)
        BY <1>2, <3>1, StartKeepsSeedInv
      <3>2. CASE Advance(p)
        BY <1>2, <3>2, FindKeepsSeedInv, InsertKeepsSeedInv, FindRoleKeepsSeedInv, LinkKeepsSeedInv,
           CommitKeepsSeedInv DEF Advance
      <3>3. CASE CutShort(p)
        <4>1. run[p].at \in AtWork /\ Goes(p, "cut_short", run[p].step, {}, {})
          BY <3>3 DEF CutShort, Running, AtWork
        <4> QED
          BY <1>2, <4>1, GivesUp
      <3> QED
        BY <2>2, <3>1, <3>2, <3>3
    <2> QED
      BY <1>2, <2>1, <2>2 DEF SeedNext
  <1> QED
    BY <1>1, <1>2, PTL DEF SeedSpec

\* run() commits once (seed.py:471): whatever ran beside it, a run leaves the whole plan or nothing.
THEOREM SeedingIsWholeOrNothing == SeedSpec => []WholeOrNothing
  <1>1. SeedInv => WholeOrNothing
    <2> SUFFICES ASSUME SeedInv, NEW p \in Runs
                 PROVE  /\ run[p].at = "done" => \A i \in DOMAIN Plan : Satisfied(Plan[i], db)
                        /\ (\E r \in db : r.by = p) => run[p].at = "done"
      BY DEF WholeOrNothing
    <2>1. ASSUME run[p].at = "done", NEW i \in DOMAIN Plan PROVE Satisfied(Plan[i], db)
      <3>1. DoneRuns # {}
        BY <2>1 DEF DoneRuns
      <3>2. Complete(Plan[i], db, before)
        BY <3>1, WhatIsSeen
      <3> QED
        BY <3>2 DEF Complete, Satisfied, HasRows, Linked, HasRole
    <2>2. (\E r \in db : r.by = p) => run[p].at = "done"
      BY RowsOfRuns DEF DoneRuns
    <2> QED
      BY <2>1, <2>2
  <1> QED
    BY <1>1, SeedInvIsInvariant, PTL

\* seed.py:16, "safe to run multiple times", for the runs that meet no other.
THEOREM SeedingIsSafeToRepeat == SeedSpec => []SafeToRepeat
  <1>1. SeedInv => SafeToRepeat
    <2> SUFFICES ASSUME SeedInv, NEW p \in Runs \ met
                 PROVE  /\ run[p].at = "raised" => Ambiguous \/ YearClosed
                        /\ (\E q \in Runs : run[q].at = "done") => run[p].rows = {}
      BY DEF SafeToRepeat
    <2>1. run[p].at = "raised" => Ambiguous \/ YearClosed
      BY DEF SeedInv
    <2>2. (\E q \in Runs : run[q].at = "done") => DoneRuns # {}
      BY DEF DoneRuns
    <2> QED
      BY <2>1, <2>2 DEF SeedInv, Undisturbed
  <1> QED
    BY <1>1, SeedInvIsInvariant, PTL

\* seed.py:16, "every insert first checks for an existing row by its natural key": two runs insert one
\* key twice only where no unique key stops them and nothing before it in the plan was missing.
THEOREM SeedingInsertsOnce == SeedSpec => []OneRowPerKey
  <1>1. SeedInv => OneRowPerKey
    <2> SUFFICES ASSUME SeedInv, NEW i \in DOMAIN Plan, Plan[i].table # "unit_conversions",
                        NEW r \in Found(Plan[i], db), NEW t \in Found(Plan[i], db), r # t,
                        ~Twice(Plan[i], before)
                 PROVE  /\ Plan[i].table \in {"roles", "fiscal_years"} /\ Found(Plan[i], before) = {}
                        /\ \A s \in ToSet(Plan) : s.table \in FilledBefore(Plan[i].table) => Found(s, before) # {}
      BY DEF OneRowPerKey, Twice
    <2>1. HasRows(Plan[i]) /\ Made(Plan[i], r) /\ Made(Plan[i], t) /\ r \in db /\ t \in db /\ r.active /\ t.active
      BY FoundIn DEF HasRows
    <2>2. RowsFit(AllRows, before) /\ db \subseteq AllRows
      BY DEF SeedInv, AllRows
    <2>3. Found(Plan[i], before) = {}
      <3>1. r \notin before \/ t \notin before
        BY <2>1, FoundIn DEF Twice
      <3> QED
        BY <2>1, <2>2, <3>1 DEF RowsFit, OnlyMissing
    <2>4. r \notin before /\ t \notin before /\ r.by \in Runs /\ t.by \in Runs
      <3>1. r \notin before /\ t \notin before
        BY <2>1, <2>3, FoundIn
      <3> QED
        BY <2>1, <3>1 DEF SeedInv, Committed
    <2>5. Plan[i].table \in {"roles", "fiscal_years"}
      <3>1. ASSUME Plan[i].table \notin {"roles", "fiscal_years"} PROVE FALSE
        <4>1. SameKey(r, t) /\ r.table \notin LinkTables \cup {"roles"}
          BY <2>1, <3>1, PlanOrder DEF Made, SameKey, LinkTables, HasRows
        <4> QED
          BY <2>1, <2>2, <2>4, <4>1 DEF RowsFit, OnceByKey
      <3> QED
        BY <3>1
    <2>6. ASSUME NEW j \in DOMAIN Plan, Plan[j].table \in FilledBefore(Plan[i].table), Found(Plan[j], before) = {}
          PROVE  FALSE
      <3>1. Follows(i, j, before)
        BY <2>3, <2>5, <2>6 DEF Follows
      <3>2. \A x \in AllRows : Made(Plan[i], x) /\ x.by \in Runs => \E y \in AllRows : Made(Plan[j], y) /\ y.by = x.by
        BY <2>2, <3>1 DEF RowsFit, InsertedTogether
      <3>3. PICK x \in AllRows : Made(Plan[j], x) /\ x.by = r.by
        BY <2>1, <2>2, <2>4, <3>2
      <3>4. PICK y \in AllRows : Made(Plan[j], y) /\ y.by = t.by
        BY <2>1, <2>2, <2>4, <3>2
      <3>5. SameKey(x, y) /\ x.table \notin LinkTables \cup {"roles"}
        <4>1. Plan[j].table \in {"permissions", "tenants"}
          BY <2>5, <2>6, PlanOrder
        <4> QED
          BY <3>3, <3>4, <4>1 DEF Made, SameKey, LinkTables
      <3>6. x \notin before
        BY <2>4, <3>3 DEF SeedInv, Committed
      <3>7. x = y
        BY <2>2, <3>5, <3>6 DEF RowsFit, OnceByKey
      <3>8. r = t
        BY <2>1, <2>2, <2>4, <3>3, <3>4, <3>7 DEF RowsFit, OnceByRun
      <3> QED
        BY <3>8
    <2>7. \A s \in ToSet(Plan) : \E j \in DOMAIN Plan : s = Plan[j]
      BY DEF ToSet
    <2> QED
      BY <2>3, <2>5, <2>6, <2>7
  <1> QED
    BY <1>1, SeedInvIsInvariant, PTL

--------------------------------------------------------------------------------
(* Runs that wait for each other. *)

\* l is a link the plan's step s asks for; the first column of its key is the key of the role or user.
LinkOf(s, l) ==
  \/ s.table = "roles" /\ l.table = "role_permissions" /\ l.key[1] = s.key
  \/ s.table = "users" /\ l.table = "user_roles" /\ l.key[1] = s.key
  \/ s.table = "unit_conversions" /\ l.table = "unit_conversions"

\* The links a run has inserted are of steps behind it, those it is to insert next of the step it is at.
LinksOfSteps(at, step, rows, new) ==
  /\ \A l \in rows : l.table \in LinkTables => \E i \in DOMAIN Plan : i < step /\ LinkOf(Plan[i], l)
  /\ at = "link" => \A l \in new : LinkOf(Plan[step], l)

LinksInPlanOrder == \A p \in Runs : LinksOfSteps(run[p].at, run[p].step, run[p].rows, run[p].new)

LEMMA GoesInPlanOrder ==
  ASSUME SeedInv, LinksInPlanOrder, NEW p \in Runs, NEW at, NEW step, NEW rows, NEW new,
         Goes(p, at, step, rows, new), LinksOfSteps(at, step, rows, new)
  PROVE  LinksInPlanOrder'
  <1>1. /\ run'[p].at = at /\ run'[p].step = step /\ run'[p].rows = rows /\ run'[p].new = new
        /\ \A q \in Runs \ {p} : run'[q] = run[q]
    BY DEF Goes, SeedInv
  <1> SUFFICES ASSUME NEW q \in Runs
               PROVE  LinksOfSteps(run'[q].at, run'[q].step, run'[q].rows, run'[q].new)
    BY DEF LinksInPlanOrder, LinksOfSteps
  <1>2. CASE q = p
    BY <1>1, <1>2
  <1>3. CASE q # p
    BY <1>1, <1>3 DEF LinksInPlanOrder
  <1> QED
    BY <1>2, <1>3

LEMMA LinksAreOfTheirStep ==
  ASSUME NEW s, NEW of, NEW p, NEW l \in LinkRows(s, of, p), s.table = "roles" => of.key = <<s.key>>
  PROVE  LinkOf(s, l)
  <1>1. CASE s.table = "roles" /\ l.table = "role_permissions" /\ \E c \in s.links : l.key = Ref(of) \o <<c>>
    <2>1. \A a, b, c : ((<<a>> \o <<b>>) \o <<c>>)[1] = a
      OBVIOUS
    <2>2. l.key[1] = s.key
      BY <1>1, <2>1 DEF Ref
    <2> QED
      BY <1>1, <2>2 DEF LinkOf
  <1> QED
    BY <1>1, LinksAre DEF LinkOf

\* The next step of a run comes after the links of the steps behind it and of the one it was at.
LEMMA NextInPlanOrder ==
  ASSUME SeedInv, LinksInPlanOrder, NEW p \in Runs, run[p].step \in DOMAIN Plan, NEW rows,
         \A l \in rows : \/ l \in run[p].rows \/ l.table \notin LinkTables
                         \/ run[p].at = "link" /\ l \in run[p].new,
         NextStep(p, rows)
  PROVE  LinksInPlanOrder'
  <1>1. LinksOfSteps(run[p].at, run[p].step, run[p].rows, run[p].new)
    BY DEF LinksInPlanOrder
  <1>2. \A l \in rows : l.table \in LinkTables => \E i \in DOMAIN Plan : i < run[p].step + 1 /\ LinkOf(Plan[i], l)
    <2> SUFFICES ASSUME NEW l \in rows, l.table \in LinkTables
                 PROVE  \E i \in DOMAIN Plan : i < run[p].step + 1 /\ LinkOf(Plan[i], l)
      OBVIOUS
    <2>1. CASE l \in run[p].rows
      <3>1. PICK i \in DOMAIN Plan : i < run[p].step /\ LinkOf(Plan[i], l)
        BY <1>1, <2>1 DEF LinksOfSteps
      <3>2. i < run[p].step + 1
        BY <3>1, PlanSteps
      <3> QED
        BY <3>1, <3>2
    <2>2. CASE run[p].at = "link" /\ l \in run[p].new
      <3>1. LinkOf(Plan[run[p].step], l)
        BY <1>1, <2>2 DEF LinksOfSteps
      <3>2. run[p].step < run[p].step + 1
        BY PlanSteps
      <3> QED
        BY <3>1, <3>2
    <2> QED
      BY <2>1, <2>2
  <1>3. AtStep(run[p].step + 1) # "link"
    BY DEF AtStep
  <1>4. LinksOfSteps(AtStep(run[p].step + 1), run[p].step + 1, rows, {})
    BY <1>2, <1>3 DEF LinksOfSteps
  <1> QED
    BY <1>4, GoesInPlanOrder DEF NextStep

\* So does a run that gives up or goes on at its step, with more rows that are no links.
LEMMA StepInPlanOrder ==
  ASSUME SeedInv, LinksInPlanOrder, NEW p \in Runs, NEW at, NEW rows, NEW new,
         \A l \in rows : l \in run[p].rows \/ l.table \notin LinkTables,
         at = "link" => \A l \in new : LinkOf(Plan[run[p].step], l),
         Goes(p, at, run[p].step, rows, new)
  PROVE  LinksInPlanOrder'
  <1>1. LinksOfSteps(at, run[p].step, rows, new)
    BY DEF LinksInPlanOrder, LinksOfSteps
  <1> QED
    BY <1>1, GoesInPlanOrder

LEMMA RaiseInPlanOrder ==
  ASSUME SeedInv, LinksInPlanOrder, NEW p \in Runs, Raise(p)
  PROVE  LinksInPlanOrder'
  <1>1. LinksOfSteps("raised", run[p].step, {}, {})
    BY DEF LinksOfSteps
  <1>2. Goes(p, "raised", run[p].step, {}, {})
    BY DEF Raise
  <1> DEFINE none == {}
  <1>3. LinksOfSteps("raised", run[p].step, none, none) /\ Goes(p, "raised", run[p].step, none, none)
    BY <1>1, <1>2
  <1> HIDE DEF none
  <1> QED
    BY <1>3, GoesInPlanOrder

LEMMA FindInPlanOrder ==
  ASSUME SeedInv, LinksInPlanOrder, NEW p \in Runs, Find(p)
  PROVE  LinksInPlanOrder'
  <1> DEFINE s == Plan[run[p].step]
  <1>1. run[p].at = "find" /\ run[p].step \in DOMAIN Plan
    BY WhatIsSeen DEF Find
  <1>2. ASSUME NEW of, s.table = "roles" => of \in Found(s, Visible(p)), LinkMissing(p, of) PROVE LinksInPlanOrder'
    <2> DEFINE new == Absent(LinkRows(s, of, p), Visible(p))
    <2>1. s.table = "roles" => of.key = <<s.key>>
      BY <1>2 DEF Found
    <2>2. \A l \in LinkRows(s, of, p) : LinkOf(s, l)
      BY <2>1, LinksAreOfTheirStep
    <2>3. \A l \in new : LinkOf(s, l)
      BY <2>2 DEF Absent
    <2>4. Goes(p, "link", run[p].step, run[p].rows, new)
      BY <1>2 DEF LinkMissing
    <2> HIDE DEF new
    <2> QED
      BY <2>3, <2>4, StepInPlanOrder
  <1>3. ASSUME NEW known, Lookup(p, known) PROVE LinksInPlanOrder' \/ (Found(s, Visible(p)) # {} /\ known)
    <2>1. CASE Raise(p)
      BY <2>1, RaiseInPlanOrder
    <2>2. CASE Goes(p, "insert", run[p].step, run[p].rows, {Row(s.table, NewKey(s), p)})
      <3> DEFINE new == {Row(s.table, NewKey(s), p)}
                 rows == run[p].rows
      <3>1. Goes(p, "insert", run[p].step, rows, new) /\ \A l \in rows : l \in run[p].rows
        BY <2>2
      <3> HIDE DEF new, rows
      <3> QED
        BY <3>1, StepInPlanOrder
    <2> QED
      BY <1>3, <2>1, <2>2 DEF Lookup
  <1>4. NextStep(p, run[p].rows) => LinksInPlanOrder'
    BY <1>1, NextInPlanOrder
  <1>5. CASE s.table = "unit_conversions" /\ LinkMissing(p, s)
    BY <1>2, <1>5
  <1>6. CASE s.table = "roles" /\ Lookup(p, LinkMissing(p, RowThere(p)))
    <2>1. Found(s, Visible(p)) # {} => RowThere(p) \in Found(s, Visible(p))
      BY DEF RowThere
    <2> QED
      BY <1>2, <1>3, <1>6, <2>1
  <1>7. CASE s.table \notin {"unit_conversions", "roles"} /\ Lookup(p, NextStep(p, run[p].rows))
    BY <1>3, <1>4, <1>7
  <1> QED
    BY <1>5, <1>6, <1>7 DEF Find

LEMMA InsertInPlanOrder ==
  ASSUME SeedInv, LinksInPlanOrder, NEW p \in Runs, Insert(p)
  PROVE  LinksInPlanOrder'
  <1> DEFINE s == Plan[run[p].step]
             rows == run[p].rows \cup run[p].new
  <1>1. run[p].at = "insert"
    BY DEF Insert
  <1>2. PICK r \in run[p].new : run[p].step \in DOMAIN Plan /\ run[p].new = {r} /\ Made(s, r)
    BY <1>1, WhatIsInserted
  <1>3. \A l \in rows : l \in run[p].rows \/ l.table \notin LinkTables
    BY <1>2, LinksMakeNoStep
  <1>4. CASE Raise(p)
    BY <1>4, RaiseInPlanOrder
  <1>5. ASSUME s.table = "roles", NEW role \in run[p].new, Goes(p, "link", run[p].step, rows, LinkRows(s, role, p))
        PROVE  LinksInPlanOrder'
    <2>1. role.key = <<s.key>>
      BY <1>2, <1>5 DEF Made
    <2>2. \A l \in LinkRows(s, role, p) : LinkOf(s, l)
      BY <2>1, LinksAreOfTheirStep
    <2> HIDE DEF rows
    <2> QED
      BY <1>3, <1>5, <2>2, StepInPlanOrder
  <1>6. CASE Goes(p, "role", run[p].step, rows, run[p].new)
    <2> HIDE DEF rows
    <2> QED
      BY <1>3, <1>6, StepInPlanOrder
  <1>7. CASE NextStep(p, rows)
    <2> HIDE DEF rows
    <2> QED
      BY <1>2, <1>3, <1>7, NextInPlanOrder
  <1> QED
    BY <1>4, <1>5, <1>6, <1>7 DEF Insert

LEMMA FindRoleInPlanOrder ==
  ASSUME SeedInv, LinksInPlanOrder, NEW p \in Runs, FindRole(p)
  PROVE  LinksInPlanOrder'
  <1> DEFINE s == Plan[run[p].step]
  <1>1. run[p].at = "role" /\ Fits(p, run[p], db, DoneRuns, before)
    BY DEF FindRole, SeedInv
  <1>2. s.table = "users" /\ HasRows(s)
    BY <1>1 DEF Fits, NewOf, HasRows
  <1>3. PICK u \in run[p].rows : run[p].new = {u} /\ Made(s, u)
    BY <1>1 DEF Fits, NewOf
  <1>4. CASE Raise(p)
    BY <1>4, RaiseInPlanOrder
  <1>5. ASSUME NEW r, \E c \in s.links : r.key = <<c>>,
               Goes(p, "link", run[p].step, run[p].rows, {Row("user_roles", Ref(v) \o Ref(r), p) : v \in run[p].new})
        PROVE  LinksInPlanOrder'
    <2> DEFINE key == Ref(u) \o Ref(r)
               l == Row("user_roles", key, p)
    <2>1. Goes(p, "link", run[p].step, run[p].rows, {l})
      BY <1>3, <1>5
    <2>2. key[1] = s.key
      <3>1. u.key = <<s.key>>
        BY <1>2, <1>3 DEF Made
      <3>2. \A a, b, c, d : ((<<a>> \o <<b>>) \o (<<c>> \o <<d>>))[1] = a
        OBVIOUS
      <3> QED
        BY <1>5, <3>1, <3>2 DEF Ref
    <2> HIDE DEF key
    <2>3. l.table = "user_roles" /\ l.key = key
      BY RowFields
    <2> HIDE DEF l
    <2>4. \A x \in {l} : LinkOf(s, x)
      BY <1>2, <2>2, <2>3 DEF LinkOf
    <2> DEFINE new == {l}
               rows == run[p].rows
    <2>5. /\ Goes(p, "link", run[p].step, rows, new) /\ \A x \in new : LinkOf(s, x)
          /\ \A x \in rows : x \in run[p].rows
      BY <2>1, <2>4
    <2> HIDE DEF new, rows
    <2> QED
      BY <2>5, StepInPlanOrder
  <1>6. ASSUME NEW r \in Visible(p), r.table = "roles" /\ \E c \in s.links : r.key = <<c>>,
               Goes(p, "link", run[p].step, run[p].rows, {Row("user_roles", Ref(v) \o Ref(r), p) : v \in run[p].new})
        PROVE  LinksInPlanOrder'
    BY <1>5, <1>6
  <1> QED
    BY <1>4, <1>6 DEF FindRole

LEMMA LinkInPlanOrder ==
  ASSUME SeedInv, LinksInPlanOrder, NEW p \in Runs, Link(p)
  PROVE  LinksInPlanOrder'
  <1>1. run[p].at = "link" /\ run[p].step \in DOMAIN Plan
    BY DEF Link, SeedInv, Fits, InPlan, AtWork
  <1>2. CASE Raise(p)
    BY <1>2, RaiseInPlanOrder
  <1>3. CASE NextStep(p, run[p].rows \cup run[p].new)
    <2> DEFINE rows == run[p].rows \cup run[p].new
    <2>1. \A l \in rows : l \in run[p].rows \/ l \in run[p].new
      OBVIOUS
    <2>2. NextStep(p, rows)
      BY <1>3
    <2> HIDE DEF rows
    <2> QED
      BY <1>1, <2>1, <2>2, NextInPlanOrder
  <1> QED
    BY <1>2, <1>3 DEF Link

LEMMA LinksAlwaysInPlanOrder == SeedSpec => []LinksInPlanOrder
  <1>1. SeedInit => LinksInPlanOrder
    <2> SUFFICES ASSUME SeedInit, NEW p \in Runs
                 PROVE  LinksOfSteps(run[p].at, run[p].step, run[p].rows, run[p].new)
      BY DEF LinksInPlanOrder
    <2>1. run[p] = Idle
      BY DEF SeedInit
    <2> QED
      BY <2>1 DEF Idle, LinksOfSteps
  <1>2. ASSUME SeedInv, LinksInPlanOrder, [SeedNext]_seedVars PROVE LinksInPlanOrder'
    <2>1. CASE AprilFirst \/ UNCHANGED seedVars
      <3>1. run' = run
        BY <2>1 DEF AprilFirst, seedVars
      <3> QED
        BY <1>2, <3>1 DEF LinksInPlanOrder, LinksOfSteps
    <2>2. ASSUME NEW p \in Runs, Start(p) \/ CommitSeed(p) \/ CutShort(p) PROVE LinksInPlanOrder'
      <3>1. run'[p].rows = {} /\ run'[p].at # "link" /\ \A q \in Runs \ {p} : run'[q] = run[q]
        BY <1>2, <2>2 DEF Start, CommitSeed, CutShort, Goes, Idle, SeedInv
      <3>2. \A q \in Runs : LinksOfSteps(run'[q].at, run'[q].step, run'[q].rows, run'[q].new)
        BY <1>2, <3>1 DEF LinksInPlanOrder, LinksOfSteps
      <3> QED
        BY <3>2 DEF LinksInPlanOrder, LinksOfSteps
    <2>3. ASSUME NEW p \in Runs, Advance(p) PROVE LinksInPlanOrder'
      BY <1>2, <2>2, <2>3, FindInPlanOrder, InsertInPlanOrder, FindRoleInPlanOrder, LinkInPlanOrder DEF Advance
    <2> QED
      BY <1>2, <2>1, <2>2, <2>3 DEF SeedNext
  <1> QED
    BY <1>1, <1>2, SeedInvIsInvariant, PTL DEF SeedSpec

LEMMA OneStepAsksFor ==
  ASSUME NEW i \in DOMAIN Plan, NEW j \in DOMAIN Plan, NEW l, NEW k, SameKey(l, k),
         LinkOf(Plan[i], l), LinkOf(Plan[j], k)
  PROVE  i = j
  <1>1. i \in 1..12 /\ j \in 1..12
    BY PlanSteps
  <1>2. Plan[i].table = Plan[j].table /\ (Plan[i].table = "unit_conversions" \/ Plan[i].key = Plan[j].key)
    BY DEF LinkOf, SameKey
  <1> QED
    BY <1>1, <1>2, PlanTables, TwelveSteps

\* A statement of run p waits for a row of another run.
MustWait(p) == run[p].at \in {"insert", "link"} /\ Waits(p, run[p].new)

\* How far a run has come in the plan.
Place(w) == 2 * w.step + (IF w.at \in {"role", "link"} THEN 1 ELSE 0)

LEMMA PlacesInPlan ==
  ASSUME SeedInv, NEW p \in Runs
  PROVE  /\ run[p].step \in 1..13 /\ Place(run[p]) \in 0..27
         /\ run[p].at \in {"insert", "role", "link"} => run[p].step \in DOMAIN Plan
         /\ run[p].rows # {} => Running(p)
  <1>1. InPlan(run[p])
    BY DEF SeedInv, Fits
  <1>2. run[p].step \in 1..13
    BY <1>1, PlanSteps DEF InPlan
  <1>3. Place(run[p]) \in 0..27
    BY <1>2 DEF Place
  <1> QED
    BY <1>1, <1>2, <1>3 DEF InPlan, AtWork, Running

\* The run that is waited for has come farther: it has inserted the row, the other is about to.
LEMMA WaitsForOneAhead ==
  ASSUME SeedInv, LinksInPlanOrder, NEW p \in Runs, MustWait(p)
  PROVE  \E q \in Runs : Running(q) /\ Place(run[p]) < Place(run[q])
  <1> DEFINE k == run[p].step
  <1>1. PICK q \in Runs \ {p}, r \in run[p].new : Unique(r.table) /\ \E t \in run[q].rows : SameKey(t, r)
    BY DEF MustWait, Waits
  <1>2. PICK t \in run[q].rows : SameKey(t, r)
    BY <1>1
  <1>3. /\ k \in DOMAIN Plan /\ k \in 1..13 /\ run[q].step \in 1..13 /\ Running(q)
        /\ run[p].at \in {"insert", "link"}
    BY <1>2, PlacesInPlan DEF MustWait
  <1>4. CASE run[p].at = "insert"
    <2>1. Made(Plan[k], r)
      BY <1>4, WhatIsInserted
    <2>2. Made(Plan[k], t)
      BY <1>2, <2>1 DEF Made, SameKey
    <2>3. t.table \notin LinkTables
      BY <1>3, <2>2, LinksMakeNoStep
    <2>4. PICK i \in DOMAIN Plan :
            /\ Made(Plan[i], t)
            /\ i < run[q].step \/ (i = run[q].step /\ run[q].at \in {"role", "link"})
      BY <1>2, <2>3 DEF SeedInv, Fits, RowsOf
    <2>5. i = k
      BY <1>3, <2>2, <2>4, OneStepMakes
    <2>6. Place(run[p]) = 2 * k
      BY <1>3, <1>4 DEF Place
    <2>7. Place(run[q]) > 2 * k
      BY <1>3, <2>4, <2>5 DEF Place
    <2> QED
      BY <1>3, <2>6, <2>7
  <1>5. CASE run[p].at = "link"
    <2>1. LinkOf(Plan[k], r)
      BY <1>5 DEF LinksInPlanOrder, LinksOfSteps
    <2>2. t.table \in LinkTables
      BY <1>2, <2>1 DEF LinkOf, SameKey, LinkTables
    <2>3. PICK i \in DOMAIN Plan : i < run[q].step /\ LinkOf(Plan[i], t)
      BY <1>2, <2>2 DEF LinksInPlanOrder, LinksOfSteps
    <2>4. i = k
      BY <1>2, <1>3, <2>1, <2>3, OneStepAsksFor
    <2>5. Place(run[p]) = 2 * k + 1
      BY <1>3, <1>5 DEF Place
    <2>6. Place(run[q]) > 2 * k + 1
      BY <1>3, <2>3, <2>4 DEF Place
    <2> QED
      BY <1>3, <2>5, <2>6
  <1> QED
    BY <1>3, <1>4, <1>5

\* Numbers below a bound have a greatest one.
LEMMA GreatestNumber ==
  ASSUME NEW n \in Nat, NEW T, T \subseteq 0..n, T # {}
  PROVE  \E x \in T : \A y \in T : y <= x
  <1> DEFINE F == {x..n : x \in T}
             O == StrictSubsetOrdering(Nat)
             D == FiniteSubsetsOf(Nat)
  <1>1. IsWellFoundedOn(O, D)
    BY FS_StrictSubsetOrderingWellFounded
  <1>2. F \subseteq D /\ F # {}
    <2>1. ASSUME NEW x \in T PROVE x..n \in D
      <3>1. x \in Int /\ n \in Int /\ x..n \in SUBSET Nat
        OBVIOUS
      <3>2. IsFiniteSet(x..n)
        BY <3>1, FS_Interval
      <3> QED
        BY <3>1, <3>2 DEF FiniteSubsetsOf
    <2> HIDE DEF D
    <2> QED
      BY <2>1
  <1>3. PICK A \in F : \A B \in F : ~(<<B, A>> \in O)
    <2> HIDE DEF F, O, D
    <2> QED
      BY <1>1, <1>2, WFMin
  <1>4. PICK x \in T : A = x..n
    OBVIOUS
  <1>5. ASSUME NEW y \in T, ~(y <= x) PROVE FALSE
    <2>1. y..n \subseteq x..n /\ x \in x..n /\ x \notin y..n /\ y..n \in SUBSET Nat /\ x..n \in SUBSET Nat
      BY <1>5
    <2>2. <<y..n, x..n>> \in O
      BY <2>1, Zenon DEF StrictSubsetOrdering
    <2> HIDE DEF O
    <2> QED
      BY <1>3, <1>4, <2>2
  <1> QED
    BY <1>5

\* Overlapping runs never wait in a circle: as long as some are at work, one of them is not waiting.
SomeRunGoesOn == (\E p \in Runs : Running(p)) => \E p \in Runs : Running(p) /\ ~MustWait(p)

\* run() inserts in one order (seed.py:471), so a run waits only for one that has come farther in the plan,
\* and the one that has come farthest waits for nobody, however many there are.
THEOREM SeedingNeverWaitsInACircle == SeedSpec => []SomeRunGoesOn
  <1>1. ASSUME SeedInv, LinksInPlanOrder PROVE SomeRunGoesOn
    <2> SUFFICES ASSUME \E p \in Runs : Running(p) PROVE \E p \in Runs : Running(p) /\ ~MustWait(p)
      BY DEF SomeRunGoesOn
    <2> DEFINE T == {Place(run[p]) : p \in {q \in Runs : Running(q)}}
    <2>1. T \subseteq 0..27 /\ T # {}
      BY <1>1, PlacesInPlan
    <2>2. PICK x \in T : \A y \in T : y <= x
      <3> HIDE DEF T
      <3> QED
        BY <2>1, GreatestNumber
    <2>3. PICK p \in Runs : Running(p) /\ x = Place(run[p])
      BY <2>2
    <2>4. ASSUME MustWait(p) PROVE FALSE
      <3>1. PICK q \in Runs : Running(q) /\ Place(run[p]) < Place(run[q])
        BY <1>1, <2>4, WaitsForOneAhead
      <3>2. Place(run[q]) <= Place(run[p]) /\ Place(run[p]) \in 0..27 /\ Place(run[q]) \in 0..27
        BY <1>1, <2>2, <2>3, <3>1, PlacesInPlan
      <3> QED
        BY <3>1, <3>2
    <2> QED
      BY <2>3, <2>4
  <1> QED
    BY <1>1, SeedInvIsInvariant, LinksAlwaysInPlanOrder, PTL

\* The statements a run may have behind it at most: four for each step, to look a row up, to insert
\* it, to find its role and to insert its links.
Statements(w) ==
  4 * w.step + (CASE w.at = "insert" -> 1 [] w.at = "role" -> 2 [] w.at = "link" -> 3 [] OTHER -> 0)

\* A run starts once, every step takes it on or ends it, and when it has ended it stays so.
RunsGoForward ==
  [][\A p \in Runs : run'[p] # run[p] =>
       \/ run[p] = Idle
       \/ /\ Running(p)
          /\ \/ Ended(p)'
             \/ Statements(run[p]) < Statements(run'[p]) /\ Statements(run'[p]) <= 52]_seedVars

LEMMA GoingOnIsForward ==
  ASSUME SeedInv, NEW p \in Runs, NEW at, NEW step, NEW rows, NEW new, Goes(p, at, step, rows, new), Running(p),
         \/ at = "raised"
         \/ step = run[p].step + 1
         \/ step = run[p].step /\ at = "insert" /\ run[p].at = "find"
         \/ step = run[p].step /\ at = "role" /\ run[p].at = "insert"
         \/ step = run[p].step /\ at = "link" /\ run[p].at \in {"find", "insert", "role"}
  PROVE  /\ \A q \in Runs \ {p} : run'[q] = run[q]
         /\ Ended(p)' \/ Statements(run[p]) < Statements(run'[p])
  <1>1. /\ run'[p].at = at /\ run'[p].step = step
        /\ \A q \in Runs \ {p} : run'[q] = run[q]
    BY DEF Goes, SeedInv
  <1>2. run[p].step \in Nat
    BY PlacesInPlan
  <1>3. CASE at = "raised"
    BY <1>1, <1>3 DEF Ended
  <1>4. CASE step = run[p].step + 1
    BY <1>1, <1>2, <1>4 DEF Statements
  <1>5. CASE step = run[p].step /\ at # "raised"
    <2>1. \/ at = "insert" /\ run[p].at = "find"
          \/ at = "role" /\ run[p].at = "insert"
          \/ at = "link" /\ run[p].at \in {"find", "insert", "role"}
      BY <1>2, <1>5
    <2> QED
      BY <1>1, <1>2, <1>5, <2>1 DEF Statements
  <1> QED
    BY <1>1, <1>3, <1>4, <1>5

LEMMA NextIsForward ==
  ASSUME SeedInv, NEW p \in Runs, NEW rows, NextStep(p, rows), Running(p)
  PROVE  /\ \A q \in Runs \ {p} : run'[q] = run[q]
         /\ Ended(p)' \/ Statements(run[p]) < Statements(run'[p])
  <1> DEFINE none == {}
  <1>1. Goes(p, AtStep(run[p].step + 1), run[p].step + 1, rows, none)
    BY DEF NextStep
  <1> HIDE DEF none
  <1> QED
    BY <1>1, GoingOnIsForward

LEMMA RaiseIsForward ==
  ASSUME SeedInv, NEW p \in Runs, Raise(p), Running(p)
  PROVE  /\ \A q \in Runs \ {p} : run'[q] = run[q]
         /\ Ended(p)' \/ Statements(run[p]) < Statements(run'[p])
  <1> DEFINE none == {}
  <1>1. Goes(p, "raised", run[p].step, none, none)
    BY DEF Raise
  <1> HIDE DEF none
  <1> QED
    BY <1>1, GoingOnIsForward

LEMMA AdvanceIsForward ==
  ASSUME SeedInv, NEW p \in Runs, Advance(p)
  PROVE  /\ Running(p)
         /\ \A q \in Runs \ {p} : run'[q] = run[q]
         /\ Ended(p)' \/ Statements(run[p]) < Statements(run'[p])
  <1> DEFINE Forward == /\ \A q \in Runs \ {p} : run'[q] = run[q]
                        /\ Ended(p)' \/ Statements(run[p]) < Statements(run'[p])
  <1>1. Running(p)
    BY DEF Advance, Find, Insert, FindRole, Link, CommitSeed, Running
  <1> SUFFICES Forward
    BY <1>1
  <1> DEFINE s == Plan[run[p].step]
  <1>2. CASE Find(p)
    <2>1. run[p].at = "find"
      BY <1>2 DEF Find
    <2>2. ASSUME NEW of, LinkMissing(p, of) PROVE Forward
      <3> DEFINE new == Absent(LinkRows(s, of, p), Visible(p))
      <3>1. Goes(p, "link", run[p].step, run[p].rows, new)
        BY <2>2 DEF LinkMissing
      <3> HIDE DEF new
      <3> QED
        BY <1>1, <2>1, <3>1, GoingOnIsForward
    <2> HIDE DEF Forward
    <2>3. CASE LinkMissing(p, s)
      BY <2>2, <2>3
    <2>4. CASE LinkMissing(p, RowThere(p))
      BY <2>2, <2>4
    <2> USE DEF Forward
    <2>5. CASE NextStep(p, run[p].rows)
      BY <1>1, <2>5, NextIsForward
    <2>6. CASE Raise(p)
      BY <1>1, <2>6, RaiseIsForward
    <2>7. CASE Goes(p, "insert", run[p].step, run[p].rows, {Row(s.table, NewKey(s), p)})
      <3> DEFINE new == {Row(s.table, NewKey(s), p)}
      <3>1. Goes(p, "insert", run[p].step, run[p].rows, new)
        BY <2>7
      <3> HIDE DEF new
      <3> QED
        BY <1>1, <2>1, <3>1, GoingOnIsForward
    <2> HIDE DEF Forward
    <2> QED
      BY <1>1, <1>2, <2>3, <2>4, <2>5, <2>6, <2>7 DEF Find, Lookup
  <1>3. CASE Insert(p)
    <2> DEFINE rows == run[p].rows \cup run[p].new
    <2>1. run[p].at = "insert"
      BY <1>3 DEF Insert
    <2>2. ASSUME NEW role \in run[p].new,
                 Goes(p, "link", run[p].step, rows, LinkRows(s, role, p))
          PROVE  Forward
      <3> DEFINE new == LinkRows(s, role, p)
      <3>1. Goes(p, "link", run[p].step, rows, new)
        BY <2>2
      <3> HIDE DEF new, rows
      <3> QED
        BY <1>1, <2>1, <3>1, GoingOnIsForward
    <2>3. CASE Goes(p, "role", run[p].step, rows, run[p].new)
      <3> HIDE DEF rows
      <3> QED
        BY <1>1, <2>1, <2>3, GoingOnIsForward
    <2>4. CASE NextStep(p, rows)
      <3> HIDE DEF rows
      <3> QED
        BY <1>1, <2>4, NextIsForward
    <2>5. CASE Raise(p)
      BY <1>1, <2>5, RaiseIsForward
    <2> HIDE DEF Forward
    <2> QED
      BY <1>1, <1>3, <2>2, <2>3, <2>4, <2>5 DEF Insert
  <1>4. CASE FindRole(p)
    <2>1. run[p].at = "role"
      BY <1>4 DEF FindRole
    <2>2. CASE Raise(p)
      BY <1>1, <2>2, RaiseIsForward
    <2>3. ASSUME NEW r, Goes(p, "link", run[p].step, run[p].rows,
                             {Row("user_roles", Ref(u) \o Ref(r), p) : u \in run[p].new})
          PROVE  Forward
      <3> DEFINE new == {Row("user_roles", Ref(u) \o Ref(r), p) : u \in run[p].new}
      <3>1. Goes(p, "link", run[p].step, run[p].rows, new)
        BY <2>3
      <3> HIDE DEF new
      <3> QED
        BY <1>1, <2>1, <3>1, GoingOnIsForward
    <2> HIDE DEF Forward
    <2> QED
      BY <1>4, <2>2, <2>3, Zenon DEF FindRole
  <1>5. CASE Link(p)
    <2>1. CASE Raise(p)
      BY <1>1, <2>1, RaiseIsForward
    <2>2. CASE NextStep(p, run[p].rows \cup run[p].new)
      BY <1>1, <2>2, NextIsForward
    <2> QED
      BY <1>5, <2>1, <2>2 DEF Link
  <1>6. CASE CommitSeed(p)
    <2>1. run = [q \in Runs |-> run[q]]
      BY DEF SeedInv
    <2>2. run'[p].at = "done" /\ \A q \in Runs \ {p} : run'[q] = run[q]
      BY <1>6, <2>1 DEF CommitSeed
    <2> QED
      BY <1>1, <2>2 DEF Ended
  <1> QED
    BY <1>1, <1>2, <1>3, <1>4, <1>5, <1>6 DEF Advance

\* Every statement takes a run on along its plan or ends it, of which there are 48 at most; with
\* SeedingNeverWaitsInACircle that is why the runs end if their statements are answered (RunsEnd).
THEOREM SeedingGoesForward == SeedSpec => RunsGoForward
  <1>1. ASSUME SeedInv, SeedInv', [SeedNext]_seedVars, NEW p \in Runs, run'[p] # run[p]
        PROVE  \/ run[p] = Idle
               \/ /\ Running(p)
                  /\ \/ Ended(p)'
                     \/ Statements(run[p]) < Statements(run'[p]) /\ Statements(run'[p]) <= 52
    <2>1. Statements(run'[p]) <= 52
      <3>0. InPlan(run'[p])
        BY <1>1 DEF SeedInv, Fits
      <3>1. run'[p].step \in 1..13 /\ (run'[p].at \in {"insert", "role", "link"} => run'[p].step \in 1..12)
        BY <3>0, PlanSteps DEF InPlan, AtWork
      <3> QED
        BY <3>1 DEF Statements
    <2>2. ASSUME NEW q \in Runs, Start(q) PROVE run[p] = Idle
      BY <1>1, <2>2 DEF Start, SeedInv
    <2>3. ASSUME NEW q \in Runs, CutShort(q) PROVE Running(p) /\ Ended(p)'
      BY <1>1, <2>3 DEF CutShort, Goes, Ended, SeedInv
    <2>4. ASSUME NEW q \in Runs, Advance(q)
          PROVE  Running(p) /\ (Ended(p)' \/ Statements(run[p]) < Statements(run'[p]))
      BY <1>1, <2>4, AdvanceIsForward
    <2>5. ~AprilFirst /\ ~UNCHANGED seedVars
      BY <1>1 DEF AprilFirst, seedVars
    <2> QED
      BY <1>1, <2>1, <2>2, <2>3, <2>4, <2>5 DEF SeedNext
  <1>2. SeedInv /\ SeedInv' /\ [SeedNext]_seedVars =>
          [\A p \in Runs : run'[p] # run[p] =>
             \/ run[p] = Idle
             \/ /\ Running(p)
                /\ \/ Ended(p)'
                   \/ Statements(run[p]) < Statements(run'[p]) /\ Statements(run'[p]) <= 52]_seedVars
    BY <1>1
  <1> QED
    BY <1>2, SeedInvIsInvariant, PTL DEF SeedSpec, RunsGoForward
================================================================================
