--------------------------------- MODULE Seeding -------------------------------
(***************************************************************************)
(* The seed script, `python -m app.core.seed`: it looks every row of its   *)
(* tables up by its natural key, inserts what is missing and commits once. *)
(* Several runs may overlap (two developers, two containers, a retry), a   *)
(* run may be cut short and may be repeated.  The database is PostgreSQL   *)
(* at READ COMMITTED: a run sees committed rows and its own; an insert     *)
(* waits for an uncommitted row with the same unique key, and fails once   *)
(* that row is committed.                                                  *)
(***************************************************************************)
EXTENDS Naturals, Sequences, SequencesExt

CONSTANTS
  Runs,       \* the runs of the script
  Absences    \* what databases may lack when the runs start: sets of keys of the plan

\* Rows that were there before name no run.
ASSUME RunsAssumption == Runs \cap {"before", "elsewhere"} = {}

VARIABLES
  db,       \* the committed rows
  run,      \* run[p]: where run p is, and its transaction
  today,    \* the fiscal year of date.today(): 1, or 2 once April has begun
  before,   \* history: the rows committed before the first run
  met       \* history: the runs that overlapped another

seedVars == <<db, run, today, before, met>>

--------------------------------------------------------------------------------
(* The script's tables, cut down to one entry of each sort: a permission every role *)
(* has and one the administrators have; the role with all of them and a narrow one; *)
(* a category whose units convert into each other.                                  *)

PERMISSIONS == <<"dashboard.view", "users.view">>

SYSTEM_ROLES == <<[code |-> "SUPER_ADMIN", permissions |-> ToSet(PERMISSIONS)],
                  [code |-> "VIEWER", permissions |-> {"dashboard.view"}]>>

SUPER_ADMIN == [email |-> "superadmin", role |-> "SUPER_ADMIN"]
DEMO_USERS == <<[email |-> "demo.viewer", role |-> "VIEWER"]>>

UNITS == <<[category |-> "MASS", units |-> <<"kg", "ton">>,
            conversions |-> {<<"kg", "ton">>, <<"ton", "kg">>}]>>

FiscalYears == <<"this_year", "next_year">>

--------------------------------------------------------------------------------
(* The plan: one step per row, in the order run() inserts them.  links: the permissions *)
(* of a role, the role of a user, the pairs of units to convert.                        *)

Step(table, key, links) == [table |-> table, key |-> key, links |-> links]

PermissionSteps == [i \in DOMAIN PERMISSIONS |-> Step("permissions", PERMISSIONS[i], {})]

RoleSteps ==
  [i \in DOMAIN SYSTEM_ROLES |-> Step("roles", SYSTEM_ROLES[i].code, SYSTEM_ROLES[i].permissions)]

UserStep(u) == Step("users", u.email, {u.role})

TenantSteps ==
  <<Step("tenants", "DEMO", {}), Step("fiscal_years", "active_year", {})>>
  \o [i \in DOMAIN DEMO_USERS |-> UserStep(DEMO_USERS[i])]

CategorySteps(c) ==
  <<Step("unit_categories", c.category, {})>>
  \o [i \in DOMAIN c.units |-> Step("units", c.units[i], {})]
  \o <<Step("unit_conversions", c.category, c.conversions)>>

\* UNITS is cut to one category.
UnitSteps == CategorySteps(UNITS[1])

\* Mutation: the roles before the permissions.
RolesFirst == RoleSteps \o PermissionSteps \o <<UserStep(SUPER_ADMIN)>> \o TenantSteps \o UnitSteps

Plan == PermissionSteps \o RoleSteps \o <<UserStep(SUPER_ADMIN)>> \o TenantSteps \o UnitSteps

\* A row knows the run that inserted it: two rows with one key stay two rows.  A key is a tuple of
\* columns; the rows a link refers to are columns of its key.
Row(table, key, p) == [table |-> table, key |-> key, by |-> p, active |-> TRUE]

Ref(r) == r.key \o <<r.by>>

\* uq_role_tenant_code holds (tenant_id, code), and the tenant of a system role is NULL,
\* which equals nothing; every other table of the plan has a key of its own.
Unique(table) == table # "roles"

SameKey(r, s) == r.table = s.table /\ r.key = s.key

--------------------------------------------------------------------------------
(* What a run reads and what it meets on inserting. *)

Running(p) == run[p].at \in {"find", "insert", "role", "link", "commit"}
Ended(p) == run[p].at \in {"done", "raised", "cut_short"}

Visible(p) == db \cup run[p].rows

\* The fiscal year is looked up by its flag, everything else by its key.
Found(s, rows) ==
  {r \in rows : r.table = s.table /\ r.active /\ (s.table = "fiscal_years" \/ r.key = <<s.key>>)}

\* A row the plan's lookups would raise on: a second one of the same key, or a second active year.
Twice(s, rows) == \E r, t \in Found(s, rows) : r # t

\* The links of row `of` that step s asks for.
LinkRows(s, of, p) ==
  CASE s.table = "roles" -> {Row("role_permissions", Ref(of) \o <<c>>, p) : c \in s.links}
    [] s.table = "unit_conversions" -> {Row("unit_conversions", c, p) : c \in s.links}
    [] OTHER -> {}

Absent(wanted, rows) == {r \in wanted : ~\E t \in rows : SameKey(t, r)}

Conflicts(new) == \E r \in new : Unique(r.table) /\ \E t \in db : SameKey(t, r)

Waits(p, new) ==
  \E q \in Runs \ {p}, r \in new : Unique(r.table) /\ \E t \in run[q].rows : SameKey(t, r)

NewKey(s) == <<IF s.table = "fiscal_years" THEN FiscalYears[today] ELSE s.key>>

--------------------------------------------------------------------------------
Idle == [at |-> "idle", step |-> 1, rows |-> {}, new |-> {}]

AtStep(i) == IF i > Len(Plan) THEN "commit" ELSE "find"

\* A database an earlier release of the script left, or none; its fiscal year may have been
\* closed by hand, the demo tenant's code and slug may belong to two tenants, and a role may be
\* there twice: overlapping runs leave that (OneRowPerKey).
InitialRows(absent) ==
  LET kept == {s \in ToSet(Plan) : s.key \notin absent /\ s.table # "unit_conversions"}
      rows == {Row(s.table, <<IF s.table = "fiscal_years" THEN FiscalYears[1] ELSE s.key>>, "before") : s \in kept}
      linked == UNION {UNION {LinkRows(s, of, "before") : of \in Found(s, rows)} : s \in kept}
      held == UNION {{Row("user_roles", Ref(u) \o Ref(r), "before") :
                        u \in Found(s, rows), r \in UNION {Found(Step("roles", c, {}), rows) : c \in s.links}} :
                     s \in {s \in kept : s.table = "users"}}
      pairs == UNION {LinkRows(s, s, "before") : s \in {s \in ToSet(Plan) : s.table = "unit_conversions"}}
  IN rows \cup held
     \cup {l \in linked : "links" \notin absent /\ l.key[3] \notin absent}
     \cup {l \in pairs : \A i \in {1, 2} : l.key[i] \notin absent}

Closed(rows) == {IF r.table = "fiscal_years" THEN [r EXCEPT !.active = FALSE] ELSE r : r \in rows}

Twins == {{}, {Row("tenants", <<"DEMO">>, "elsewhere")}, {Row("roles", <<"VIEWER">>, "elsewhere")}}

SeedInit ==
  /\ \E absent \in Absences, closed \in BOOLEAN, twins \in Twins :
       /\ \A t \in twins : \A c \in ToSet(t.key) : c \notin absent
       /\ db = (IF closed THEN Closed(InitialRows(absent)) ELSE InitialRows(absent)) \cup twins
  /\ run = [p \in Runs |-> Idle]
  /\ today = 1
  /\ before = db
  /\ met = {}

--------------------------------------------------------------------------------
(* One run. *)

\* run[p] goes on at another place with other rows of its own.
Goes(p, at, step, rows, new) ==
  /\ run' = [run EXCEPT ![p] = [at |-> at, step |-> step, rows |-> rows, new |-> new]]
  /\ UNCHANGED <<db, today, before, met>>

NextStep(p, rows) == Goes(p, AtStep(run[p].step + 1), run[p].step + 1, rows, {})

\* Mutation: the session is not closed, and its transaction stays open.
RaiseLeavesOpen(p) == Goes(p, "raised", run[p].step, run[p].rows, {})

\* An exception leaves `async with`: the transaction is rolled back.
Raise(p) == Goes(p, "raised", run[p].step, {}, {})

Start(p) ==
  /\ run[p] = Idle
  /\ run' = [run EXCEPT ![p] = [Idle EXCEPT !.at = "find"]]
  /\ met' = LET others == {q \in Runs : Running(q)}
            IN IF others = {} THEN met ELSE met \cup others \cup {p}
  /\ UNCHANGED <<db, today, before>>

\* get_by_code(), get_by_email(), ...: scalar_one_or_none() raises on two rows; a row that is not
\* there is inserted next; one that is, leads on to the step `known`.
Lookup(p, known) ==
  LET s == Plan[run[p].step]
      rows == Found(s, Visible(p))
  IN \/ Twice(s, Visible(p)) /\ Raise(p)
     \/ rows = {} /\ Goes(p, "insert", run[p].step, run[p].rows, {Row(s.table, NewKey(s), p)})
     \/ rows # {} /\ ~Twice(s, Visible(p)) /\ known

RowThere(p) == CHOOSE r \in Found(Plan[run[p].step], Visible(p)) : TRUE

\* The links to row `of` that are missing are inserted next.
LinkMissing(p, of) ==
  Goes(p, "link", run[p].step, run[p].rows, Absent(LinkRows(Plan[run[p].step], of, p), Visible(p)))

\* Mutation: a role that is there keeps the permissions it has.
FindLeavesRoles(p) ==
  LET table == Plan[run[p].step].table
  IN /\ run[p].at = "find"
     /\ \/ table = "unit_conversions" /\ LinkMissing(p, Plan[run[p].step])
        \/ table # "unit_conversions" /\ Lookup(p, NextStep(p, run[p].rows))

\* Mutation: a role's links are inserted without a look at those it has.
FindLinksAnew(p) ==
  LET s == Plan[run[p].step]
  IN /\ run[p].at = "find"
     /\ \/ s.table = "unit_conversions" /\ LinkMissing(p, s)
        \/ /\ s.table = "roles"
           /\ Lookup(p, Goes(p, "link", run[p].step, run[p].rows, LinkRows(s, RowThere(p), p)))
        \/ s.table \notin {"unit_conversions", "roles"} /\ Lookup(p, NextStep(p, run[p].rows))

\* A role comes with its links (selectinload), a user without a look at them; conversions have no
\* row of their own.
Find(p) ==
  LET table == Plan[run[p].step].table
  IN /\ run[p].at = "find"
     /\ \/ table = "unit_conversions" /\ LinkMissing(p, Plan[run[p].step])
        \/ table = "roles" /\ Lookup(p, LinkMissing(p, RowThere(p)))
        \/ table \notin {"unit_conversions", "roles"} /\ Lookup(p, NextStep(p, run[p].rows))

\* session.flush() of the row that was not found.
Insert(p) ==
  LET s == Plan[run[p].step]
      new == run[p].new
  IN /\ run[p].at = "insert"
     /\ ~Waits(p, new)
     /\ \/ Conflicts(new) /\ Raise(p)
        \/ /\ ~Conflicts(new) /\ s.table = "roles"
           /\ \E role \in new : Goes(p, "link", run[p].step, run[p].rows \cup new, LinkRows(s, role, p))
        \/ ~Conflicts(new) /\ s.table = "users" /\ Goes(p, "role", run[p].step, run[p].rows \cup new, new)
        \/ ~Conflicts(new) /\ s.table \notin {"roles", "users"} /\ NextStep(p, run[p].rows \cup new)

\* role_repository.get_by_code() for the user just inserted; without a role `role.id` raises too.
FindRole(p) ==
  LET s == Plan[run[p].step]
      found == {r \in Visible(p) : r.table = "roles" /\ \E c \in s.links : r.key = <<c>>}
  IN /\ run[p].at = "role"
     /\ \/ (\A r \in found : found # {r}) /\ Raise(p)
        \/ \E r \in found :
             /\ found = {r}
             /\ Goes(p, "link", run[p].step, run[p].rows,
                     {Row("user_roles", Ref(u) \o Ref(r), p) : u \in run[p].new})

\* session.flush() of the links of a role or a user, or of a category's conversions.
Link(p) ==
  /\ run[p].at = "link"
  /\ ~Waits(p, run[p].new)
  /\ \/ Conflicts(run[p].new) /\ Raise(p)
     \/ ~Conflicts(run[p].new) /\ NextStep(p, run[p].rows \cup run[p].new)

CommitSeed(p) ==
  /\ run[p].at = "commit"
  /\ db' = db \cup run[p].rows
  /\ run' = [run EXCEPT ![p] = [at |-> "done", step |-> run[p].step, rows |-> {}, new |-> {}]]
  /\ UNCHANGED <<today, before, met>>

\* The process or its connection dies; PostgreSQL rolls back.
CutShort(p) == Running(p) /\ Goes(p, "cut_short", run[p].step, {}, {})

AprilFirst == today = 1 /\ today' = 2 /\ UNCHANGED <<db, run, before, met>>

Advance(p) == Find(p) \/ Insert(p) \/ FindRole(p) \/ Link(p) \/ CommitSeed(p)

SeedNext == AprilFirst \/ \E p \in Runs : Start(p) \/ Advance(p) \/ CutShort(p)

\* A started script goes on; nobody has to start one.
SeedSpec == SeedInit /\ [][SeedNext]_seedVars /\ \A p \in Runs : WF_seedVars(Advance(p))

--------------------------------------------------------------------------------
\* The tables a run fills before this one, each of whose keys one run alone can insert.
FilledBefore(table) == IF table = "roles" THEN {"permissions"} ELSE {"permissions", "tenants"}

\* seed.py:16, "every insert first checks for an existing row by its natural key".  Two runs that
\* overlap may both insert a role, or a fiscal year on either side of the first of April: no key
\* of the table stops them.  They do so only where nothing before it in the plan was missing:
\* a missing permission, say, is inserted by one run alone, and the other waits for it and raises.
OneRowPerKey ==
  \A i \in DOMAIN Plan :
    /\ Plan[i].table # "unit_conversions"
    /\ Twice(Plan[i], db)
    => \/ Twice(Plan[i], before)
       \/ /\ Plan[i].table \in {"roles", "fiscal_years"} /\ Found(Plan[i], before) = {}
          /\ \A s \in ToSet(Plan) : s.table \in FilledBefore(Plan[i].table) => Found(s, before) # {}

\* What step s asks for is in rows: its row, the links of every row with its key, and the role of a
\* user that was not there before.
Satisfied(s, rows) ==
  CASE s.table = "unit_conversions" -> Absent(LinkRows(s, s, "before"), rows) = {}
    [] s.table = "roles" -> /\ Found(s, rows) # {}
                            /\ \A r \in Found(s, rows) : Absent(LinkRows(s, r, "before"), rows) = {}
    [] s.table = "users" -> \E u \in Found(s, rows) :
                              \/ u \in before
                              \/ \E r \in rows : /\ r.table = "roles" /\ \E c \in s.links : r.key = <<c>>
                                                /\ \E l \in rows : l.table = "user_roles" /\ l.key = Ref(u) \o Ref(r)
    [] OTHER -> Found(s, rows) # {}

\* run() commits once: a run leaves the whole plan, whatever raced with it or was there, or nothing.
WholeOrNothing ==
  \A p \in Runs :
    /\ run[p].at = "done" => \A i \in DOMAIN Plan : Satisfied(Plan[i], db)
    /\ (\E r \in db : r.by = p) => run[p].at = "done"

Ambiguous == \E i \in DOMAIN Plan : Plan[i].table # "unit_conversions" /\ Twice(Plan[i], db)

YearClosed == \E r \in db : r.table = "fiscal_years" /\ ~r.active

\* seed.py:16 and docs/development.md, "safe to run multiple times": a run that meets no other raises
\* only over two rows of one key, or over a closed fiscal year of the same code; after a run that
\* succeeded it inserts nothing.
SafeToRepeat ==
  \A p \in Runs \ met :
    /\ run[p].at = "raised" => Ambiguous \/ YearClosed
    /\ (\E q \in Runs : run[q].at = "done") => run[p].rows = {}

\* Runs that wait for each other's rows all end: they insert in one order, and a run that raises
\* gives its rows up.
RunsEnd == \A p \in Runs : Running(p) ~> Ended(p)
================================================================================
