----------------------------- MODULE AccessControl -----------------------------
(***************************************************************************)
(* Roles, their permissions, one user's assignments, and the requests that *)
(* are authorized by them.  Replacing the permissions of a role deletes    *)
(* the rows read and inserts the new ones, each statement with its own     *)
(* view of the table and its row locks; building a security context takes  *)
(* several SELECTs; the scope check climbs the organization tree.          *)
(***************************************************************************)
EXTENDS Integers, FiniteSets, FiniteSetsExt

CONSTANTS
  Requests,
  Roles,        \* custom roles, by primary key
  Permissions,  \* seeded permissions, by primary key
  Payloads,     \* sets of permission codes clients send, unknown codes included
  Units,        \* organization units
  Needs,        \* pairs of a permission and a resource's unit that requests ask for
  MaxDepth,     \* _MAX_DEPTH
  Null

ASSUME AccessAssumption ==
  /\ Permissions \subseteq Nat
  /\ \A codes \in Payloads : codes \subseteq Nat
  /\ Needs \subseteq Permissions \X (Units \cup {Null})
  /\ MaxDepth \in Nat \ {0}
  /\ Null \notin Requests \cup Roles \cup Units

VARIABLES
  parent,       \* parent_id of each organization unit
  life,         \* role rows: not yet created, live, deleted
  perms,        \* committed RolePermission rows of each role
  assignments,  \* committed UserRole rows of the user
  audited,      \* permission codes in a role's last audit event
  pc,           \* where each request stands
  task,         \* what each request was asked, read and wrote so far
  contested     \* history: roles two requests were changing at one time

vars == <<parent, life, perms, assignments, audited, pc, task, contested>>

Task ==
  [role : Roles \cup {Null}, unit : Units \cup {Null}, permission : Permissions \cup {Null},
   found : SUBSET Permissions, todo : SUBSET Permissions,
   deleted : SUBSET Permissions, inserted : SUBSET Permissions,
   next : Permissions \cup {Null},
   queue : Requests \cup {Null}, seen : SUBSET (Roles \X (Units \cup {Null}))]

NoTask ==
  [role |-> Null, unit |-> Null, permission |-> Null, found |-> {}, todo |-> {},
   deleted |-> {}, inserted |-> {}, next |-> Null, queue |-> Null, seen |-> {}]

Changing == {"deleting", "inserting", "removing"}
Answers == {"done", "allowed", "refused", "error", "aborted"}

TypeOK ==
  /\ parent \in [Units -> Units \cup {Null}]
  /\ life \in [Roles -> {"none", "live", "deleted"}]
  /\ perms \in [Roles -> SUBSET Permissions]
  /\ \A a \in assignments : a \in [by : Requests, role : Roles, unit : Units \cup {Null}]
  /\ audited \in [Roles -> SUBSET Nat]
  /\ pc \in [Requests -> {"idle", "assigning", "authenticated", "scoped"} \cup Changing \cup Answers]
  /\ task \in [Requests -> Task]
  /\ contested \subseteq Roles

--------------------------------------------------------------------------------
(* The organization tree. *)

\* The units the loop of get_self_and_ancestor_ids() comes to on the way to the root.
Climb(unit) ==
  LET current[depth \in 0 .. MaxDepth] ==
        IF depth = 0 THEN unit
        ELSE IF current[depth - 1] = Null THEN Null ELSE parent[current[depth - 1]]
  IN  current

\* get_self_and_ancestor_ids(): at most _MAX_DEPTH of them.
SelfAndAncestors(unit) == {Climb(unit)[depth] : depth \in 0 .. MaxDepth - 1} \ {Null}

\* Reference: the units whose subtree holds `unit`.
Above(unit) ==
  {top \in Units :
     \A subtree \in SUBSET Units :
       (top \in subtree /\ \A u \in Units : parent[u] \in subtree => u \in subtree)
         => unit \in subtree}

\* Mutation of IsAuthorized: the tree is climbed from the grant.
IsAuthorizedDownwards(scopes, unit) ==
  \E scope \in scopes :
    \/ scope = Null
    \/ unit # Null /\ scope # Null /\ unit \in SelfAndAncestors(scope)

\* is_authorized(), for the scopes (organization units, or Null for the whole tenant)
\* at which the context grants the permission.
IsAuthorized(scopes, unit) ==
  \E scope \in scopes :
    \/ scope = Null
    \/ unit # Null /\ scope \in SelfAndAncestors(unit)

\* Reference: what the committed rows grant the user.
Covers(permission, unit) ==
  \E a \in assignments :
    /\ permission \in perms[a.role]
    /\ a.unit = Null \/ (unit # Null /\ a.unit \in Above(unit))

--------------------------------------------------------------------------------
Init ==
  /\ parent \in {p \in [Units -> Units \cup {Null}] :
                   \A top \in SUBSET Units : top # {} => \E u \in top : p[u] \notin top}
  /\ life = [role \in Roles |-> "none"]
  /\ perms = [role \in Roles |-> {}]
  /\ assignments = {}
  /\ audited = [role \in Roles |-> {}]
  /\ pc = [r \in Requests |-> "idle"]
  /\ task = [r \in Requests |-> NoTask]
  /\ contested = {}

Goto(r, place) == pc' = [pc EXCEPT ![r] = place]

\* The request ends, and what it had read with it.
Answer(r, answer) == Goto(r, answer) /\ task' = [task EXCEPT ![r] = NoTask]

\* create_role(): codes without a seeded permission are dropped, the audit event names
\* all that were sent.  A role code that is taken is a 409 that changes nothing; codes of
\* roles are left out, so that is too.
CreateRole(role, codes) ==
  /\ life[role] = "none"
  /\ life' = [life EXCEPT ![role] = "live"]
  /\ perms' = [perms EXCEPT ![role] = codes \cap Permissions]
  /\ audited' = [audited EXCEPT ![role] = codes]
  /\ UNCHANGED <<parent, assignments, pc, task, contested>>

\* get_role(): 404 for a role that is not there; its permissions are read once.
LoadRole(r, role, found, place) ==
  /\ pc[r] = "idle"
  /\ \/ life[role] # "live" /\ Answer(r, "refused") /\ UNCHANGED contested
     \/ /\ life[role] = "live"
        /\ Goto(r, place)
        /\ task' = [task EXCEPT ![r] =
                      [NoTask EXCEPT !.role = role, !.found = found, !.todo = perms[role]]]
        /\ contested' = IF \E q \in Requests : pc[q] \in Changing /\ task[q].role = role
                        THEN contested \cup {role} ELSE contested
  /\ UNCHANGED <<parent, life, perms, assignments, audited>>

\* update_role_permissions() up to its first DELETE.
ReplacePermissions(r, role, codes) == LoadRole(r, role, codes \cap Permissions, "deleting")

\* delete_role() up to the DELETEs of its flush.
DeleteRole(r, role) == LoadRole(r, role, {}, "removing")

Others(r) == {q \in Requests \ {r} : pc[q] \in Changing /\ task[q].role = task[r].role}

\* One DELETE of a RolePermission row that was read, in the order of the keys.  A row another transaction has
\* deleted is waited for, and is gone if that one commits, even if it inserted the row
\* anew: this statement does not see the new version.  A DELETE that matches nothing is
\* a warning.
DeleteRow(r) ==
  /\ pc[r] \in {"deleting", "removing"} /\ task[r].todo # {}
  /\ LET p == Min(task[r].todo)
         role == task[r].role
         q == task[r].queue
         holders == {o \in Others(r) : p \in task[o].deleted}
     IN
     \/ /\ q = Null /\ holders # {}
        /\ \E o \in holders : task' = [task EXCEPT ![r].queue = o]
     \/ /\ q = Null /\ holders = {}
        /\ task' = [task EXCEPT ![r].todo = @ \ {p},
                                ![r].deleted = IF p \in perms[role] THEN @ \cup {p} ELSE @]
     \/ /\ q # Null /\ pc[q] = "done"
        /\ task' = [task EXCEPT ![r].queue = Null, ![r].todo = @ \ {p}]
     \/ /\ q # Null /\ pc[q] \in {"error", "aborted"}
        /\ task' = [task EXCEPT ![r].queue = Null]
  /\ UNCHANGED <<parent, life, perms, assignments, audited, pc, contested>>

\* The rows an INSERT may turn to: the order is the one in which the SELECT of the
\* permissions returned them, and it has no ORDER BY.
NextOf(rows) == IF rows = {} THEN {Null} ELSE rows

\* Mutation of BeginInsert: rows the role had are taken for kept.
BeginInsertNewOnly(r) ==
  /\ pc[r] = "deleting" /\ task[r].todo = {}
  /\ LET new == task[r].found \ perms[task[r].role]
     IN  \E p \in NextOf(new) : task' = [task EXCEPT ![r].todo = new, ![r].next = p]
  /\ Goto(r, "inserting")
  /\ UNCHANGED <<parent, life, perms, assignments, audited, contested>>

\* The flush of the new rows begins once the old ones are deleted.
BeginInsert(r) ==
  /\ pc[r] = "deleting" /\ task[r].todo = {}
  /\ \E p \in NextOf(task[r].found) :
       task' = [task EXCEPT ![r].todo = task[r].found, ![r].next = p]
  /\ Goto(r, "inserting")
  /\ UNCHANGED <<parent, life, perms, assignments, audited, contested>>

\* One row of the INSERT: it waits for a transaction that has inserted or deleted the
\* same key, and fails on a key that is taken or a role that is gone.
InsertRow(r) ==
  /\ pc[r] = "inserting" /\ task[r].next \in task[r].todo
  /\ LET p == task[r].next
         role == task[r].role
     IN
     /\ \A o \in Others(r) : p \notin task[o].deleted \cup task[o].inserted
     /\ IF life[role] # "live" \/ p \in perms[role] \ task[r].deleted
        THEN Answer(r, "error")
        ELSE /\ \E q \in NextOf(task[r].todo \ {p}) :
                  task' = [task EXCEPT ![r].todo = @ \ {p}, ![r].inserted = @ \cup {p},
                                       ![r].next = q]
             /\ UNCHANGED pc
  /\ UNCHANGED <<parent, life, perms, assignments, audited, contested>>

\* COMMIT of a replacement, with its audit event.
CommitReplacement(r) ==
  /\ pc[r] = "inserting" /\ task[r].todo = {}
  /\ LET role == task[r].role IN
     /\ perms' = [perms EXCEPT ![role] = (@ \ task[r].deleted) \cup task[r].inserted]
     /\ audited' = [audited EXCEPT ![role] = task[r].found]
  /\ Answer(r, "done")
  /\ UNCHANGED <<parent, life, assignments, contested>>

\* The DELETE of the role row, which waits for transactions that hold rows of the role,
\* and its COMMIT: foreign keys take the rows that refer to the role with it.
CommitDeletion(r) ==
  /\ pc[r] = "removing" /\ task[r].todo = {}
  /\ \A o \in Others(r) : task[o].deleted \cup task[o].inserted = {}
  /\ LET role == task[r].role IN
     /\ life' = [life EXCEPT ![role] = "deleted"]
     /\ perms' = [perms EXCEPT ![role] = {}]
     /\ assignments' = {a \in assignments : a.role # role}
  /\ Answer(r, "done")
  /\ UNCHANGED <<parent, audited, contested>>

WaitsFor(r) ==
  CASE pc[r] \in {"deleting", "removing"} /\ task[r].todo # {} ->
         {q \in Others(r) : q = task[r].queue}
    [] pc[r] = "inserting" /\ task[r].todo # {} ->
         {q \in Others(r) : task[r].next \in task[q].deleted \cup task[q].inserted}
    [] pc[r] = "removing" /\ task[r].todo = {} ->
         {q \in Others(r) : task[q].deleted \cup task[q].inserted # {}}
    [] OTHER -> {}

\* Each of these requests waits for one of them, and is waited for by one of them.
InACycle(r) ==
  \E cycle \in SUBSET Requests :
    /\ r \in cycle
    /\ \A q \in cycle : WaitsFor(q) \cap cycle # {} /\ \E o \in cycle : q \in WaitsFor(o)

\* Mutation of BreakDeadlock: nobody looks for cycles.
NeverBreakDeadlock(r) == FALSE /\ UNCHANGED vars

\* PostgreSQL ends a transaction of a cycle of waiting ones; the request is a 500.
BreakDeadlock(r) ==
  /\ InACycle(r)
  /\ Answer(r, "error")
  /\ UNCHANGED <<parent, life, perms, assignments, audited, contested>>

--------------------------------------------------------------------------------
(* Assignments. *)

\* assign_role() up to its INSERT.
AssignRole(r, role, unit) ==
  /\ pc[r] = "idle"
  /\ IF life[role] = "live"
     THEN /\ Goto(r, "assigning")
          /\ task' = [task EXCEPT ![r] = [NoTask EXCEPT !.role = role, !.unit = unit]]
     ELSE Answer(r, "refused")
  /\ UNCHANGED <<parent, life, perms, assignments, audited, contested>>

\* Mutation of CommitAssignment: the role is not looked at again.
CommitAssignmentUnchecked(r) ==
  /\ pc[r] = "assigning"
  /\ assignments' = assignments \cup {[by |-> r, role |-> task[r].role, unit |-> task[r].unit]}
  /\ Answer(r, "done")
  /\ UNCHANGED <<parent, life, perms, audited, contested>>

\* The INSERT of the UserRole row and its COMMIT: uq_user_role_scope compares named
\* units only, and the foreign key needs the role still there.
CommitAssignment(r) ==
  /\ pc[r] = "assigning"
  /\ LET role == task[r].role
         unit == task[r].unit
     IN  IF \/ life[role] # "live"
            \/ unit # Null /\ \E a \in assignments : a.role = role /\ a.unit = unit
         THEN Answer(r, "error") /\ UNCHANGED assignments
         ELSE /\ assignments' = assignments \cup {[by |-> r, role |-> role, unit |-> unit]}
              /\ Answer(r, "done")
  /\ UNCHANGED <<parent, life, perms, audited, contested>>

--------------------------------------------------------------------------------
(* A request of the user that needs `permission` at `unit`. *)

\* get_current_user(): an account that is not ACTIVE is a 401; when it is not is the
\* matter of AuthSessions.
Authenticate(r, need) ==
  /\ pc[r] = "idle"
  /\ \/ Answer(r, "refused")
     \/ /\ Goto(r, "authenticated")
        /\ task' = [task EXCEPT ![r] = [NoTask EXCEPT !.permission = need[1], !.unit = need[2]]]
  /\ UNCHANGED <<parent, life, perms, assignments, audited, contested>>

\* build_security_context(): the SELECT of the assignments; without any, no grants.
ReadAssignments(r) ==
  /\ pc[r] = "authenticated"
  /\ IF assignments = {}
     THEN Answer(r, "refused")
     ELSE /\ Goto(r, "scoped")
          /\ task' = [task EXCEPT ![r].seen = {<<a.role, a.unit>> : a \in assignments}]
  /\ UNCHANGED <<parent, life, perms, assignments, audited, contested>>

\* The scopes at which the roles seen grant a permission now.
Scopes(seen, permission) == {s[2] : s \in {t \in seen : permission \in perms[t[1]]}}

\* Mutation of Authorize: any scope will do, as for require_permission().
AuthorizeAnyScope(r) ==
  /\ pc[r] = "scoped"
  /\ Answer(r, IF Scopes(task[r].seen, task[r].permission) # {} THEN "allowed" ELSE "refused")
  /\ UNCHANGED <<parent, life, perms, assignments, audited, contested>>

\* The SELECTs of the roles and then of their permissions, and authorize() on the grants
\* they make.  A role deleted since the assignments were read has no permissions any more,
\* and is an AttributeError when the SELECT of the roles came too late as well.  The two
\* are one step: with the roles read any earlier the answer is one of the two here.  The
\* SELECTs of ScopeAssignment and of the units read what no code changes.
Authorize(r) ==
  /\ pc[r] = "scoped"
  /\ \/ Answer(r, IF IsAuthorized(Scopes(task[r].seen, task[r].permission), task[r].unit)
                  THEN "allowed" ELSE "refused")
     \/ (\E s \in task[r].seen : life[s[1]] # "live") /\ Answer(r, "error")
  /\ UNCHANGED <<parent, life, perms, assignments, audited, contested>>

--------------------------------------------------------------------------------
\* A client that leaves, a crash, a dropped connection: the transaction is rolled back.
Abort(r) ==
  /\ pc[r] \in Changing \cup {"assigning"}
  /\ Answer(r, "aborted")
  /\ UNCHANGED <<parent, life, perms, assignments, audited, contested>>

Serve(r) ==
  \/ DeleteRow(r) \/ BeginInsert(r) \/ InsertRow(r) \/ CommitReplacement(r)
  \/ CommitDeletion(r) \/ BreakDeadlock(r) \/ CommitAssignment(r)
  \/ ReadAssignments(r) \/ Authorize(r)

Next ==
  \/ \E role \in Roles, codes \in Payloads : CreateRole(role, codes)
  \/ \E r \in Requests, role \in Roles, codes \in Payloads : ReplacePermissions(r, role, codes)
  \/ \E r \in Requests, role \in Roles : DeleteRole(r, role)
  \/ \E r \in Requests, role \in Roles, unit \in Units \cup {Null} : AssignRole(r, role, unit)
  \/ \E r \in Requests, need \in Needs : Authenticate(r, need)
  \/ \E r \in Requests : Serve(r) \/ Abort(r)

Spec == Init /\ [][Next]_vars

\* A handler goes on when its statement is answered; locks are granted, and cycles of
\* waiting transactions broken, by PostgreSQL.
FairSpec == Spec /\ \A r \in Requests : WF_vars(Serve(r))

--------------------------------------------------------------------------------
(* Properties. *)

\* What the last audit event of a role says it permits is in force, and nothing else is
\* as long as no two requests were changing the role at one time: the rows deleted are
\* the ones read, whatever else was inserted or deleted since.
LastReplacementInForce ==
  \A role \in Roles : life[role] = "live" =>
    /\ audited[role] \cap Permissions \subseteq perms[role]
    /\ role \notin contested => perms[role] = audited[role] \cap Permissions

\* A deleted role leaves no assignment and no permission behind, whichever replacement
\* or assignment of it was under way.
DeletedRolesGrantNothing ==
  \A role \in Roles : life[role] = "deleted" =>
    perms[role] = {} /\ \A a \in assignments : a.role # role

\* A context put together by several SELECTs never permits what the rows committed when
\* it is complete do not.
AllowedMeansCovered ==
  [][\A r \in Requests : pc[r] # "allowed" /\ pc'[r] = "allowed" =>
       Covers(task[r].permission, task[r].unit)]_vars

\* It misses nothing either, but for an assignment made after it read them.
RefusedMeansUncovered ==
  [][\A r \in Requests : pc[r] = "scoped" /\ pc'[r] = "refused" =>
       \/ ~Covers(task[r].permission, task[r].unit)
       \/ \E a \in assignments : <<a.role, a.unit>> \notin task[r].seen]_vars

\* Requests that wait for each other's rows are all answered, deadlocks included.
EveryRequestAnswered ==
  \A r \in Requests : pc[r] \notin {"idle"} \cup Answers ~> pc[r] \in Answers
================================================================================
