----------------------------- MODULE TenantRecords -----------------------------
(***************************************************************************)
(* The records a tenant keeps: settings, master data, users, the tenants   *)
(* themselves, and attachments with their files.  A request finds a row,   *)
(* decides on the copy it read, and writes the columns it changed together *)
(* with an audit event, in one transaction; of a file it writes or removes *)
(* the bytes on its own, before that transaction commits.                  *)
(***************************************************************************)
EXTENDS Integers, FiniteSets, FiniteSetsExt

CONSTANTS
  Requests,
  Scopes,         \* scopes of one setting: which of tenant, unit and module it names
  Codes,          \* codes of master data of one kind
  Tenants,        \* tenants, by code and slug
  Emails,         \* users, by email
  Values,         \* values of settings, and names
  StrictStorage,  \* deleting a file that is gone is an error (Azure), or not (local)
  Null

\* The scopes of settings_service's docstring, from most to least specific: Module+Plant,
\* Module+Tenant, Plant, Tenant, Platform.
Hierarchy ==
  << [tenant |-> TRUE, unit |-> TRUE, module |-> TRUE],
     [tenant |-> TRUE, unit |-> FALSE, module |-> TRUE],
     [tenant |-> TRUE, unit |-> TRUE, module |-> FALSE],
     [tenant |-> TRUE, unit |-> FALSE, module |-> FALSE],
     [tenant |-> FALSE, unit |-> FALSE, module |-> FALSE] >>

Keys == Scopes \cup Codes \cup Tenants \cup Emails

\* INACTIVE also stands for a tenant's SUSPENDED.
Status == {"ACTIVE", "INACTIVE"}

\* Each kind of record has a table of its own.
ASSUME RecordsAssumption ==
  /\ Scopes \subseteq {Hierarchy[i] : i \in DOMAIN Hierarchy}
  /\ Scopes \cap Codes = {} /\ Scopes \cap Tenants = {} /\ Scopes \cap Emails = {}
  /\ Codes \cap Tenants = {} /\ Codes \cap Emails = {} /\ Tenants \cap Emails = {}
  /\ StrictStorage \in BOOLEAN
  /\ Null \notin Keys /\ Null \notin Values \cup Status

VARIABLES
  rows,         \* committed rows of settings, master data, users and tenants
  audited,      \* what the audit events of a key named last of each column
  attachments,  \* committed Attachment rows, by the request that uploaded them
  files,        \* stored files, by the request that uploaded them
  pc,           \* where each request stands
  task,         \* what each request was asked and read
  contested,    \* history: columns two requests were writing at one time
  cutShort      \* history: uploads and deletions of files that ended half done

vars == <<rows, audited, attachments, files, pc, task, contested, cutShort>>

Row == [by : Requests, key : Keys, value : Values, status : Status]

\* What a request or an event says of the columns, Null where it is silent.
Columns == [value : Values \cup {Null}, status : Status \cup {Null}]
Silent == [value |-> Null, status |-> Null]

Overlay(columns, over) ==
  [value |-> IF over.value = Null THEN columns.value ELSE over.value,
   status |-> IF over.status = Null THEN columns.status ELSE over.status]

Task == [key : Keys \cup {Null}, admin : Emails \cup {Null}, columns : Columns,
         copy : Row \cup {Null}, file : Requests \cup {Null}]
NoTask == [key |-> Null, admin |-> Null, columns |-> Silent, copy |-> Null, file |-> Null]

TypeOK ==
  /\ rows \subseteq Row
  /\ audited \in [Keys -> Columns]
  /\ attachments \subseteq Requests
  /\ files \subseteq Requests
  /\ pc \in [Requests -> {"idle", "checked", "inserting", "writing", "stored", "removing",
                          "removed", "done", "refused", "error", "aborted"}]
  /\ task \in [Requests -> Task]
  /\ contested \subseteq Keys \X {"value", "status"}
  /\ cutShort \subseteq Requests

\* The tables as the migrations create them, and no request yet.
Init ==
  /\ rows = {}
  /\ audited = [key \in Keys |-> Silent]
  /\ attachments = {}
  /\ files = {}
  /\ pc = [r \in Requests |-> "idle"]
  /\ task = [r \in Requests |-> NoTask]
  /\ contested = {}
  /\ cutShort = {}

--------------------------------------------------------------------------------
(* Rows and their unique keys. *)

Rows(key) == {row \in rows : row.key = key}

\* Rows a lookup finds: of a tenant, those with its code or its slug.
Matching(key) ==
  IF key \in Tenants
  THEN {row \in rows : row.key \in Tenants /\ (row.key.code = key.code \/ row.key.slug = key.slug)}
  ELSE Rows(key)

\* uq_setting_scope_key compares no row with a NULL column; the other keys have none.
Unique(key) == key \in Scopes => key.tenant /\ key.unit /\ key.module

KeyTaken(key) == Unique(key) /\ Matching(key) # {}

Goto(r, place) == pc' = [pc EXCEPT ![r] = place]

Answer(r, answer) == Goto(r, answer) /\ task' = [task EXCEPT ![r] = NoTask]

\* The columns that a request at `place` writes and no unique key guards.
Claims(place, t) ==
  IF place = "writing" \/ (place = "inserting" /\ ~Unique(t.key))
  THEN {<<t.key, column>> : column \in {c \in {"value", "status"} : t.columns[c] # Null}}
  ELSE {}

\* The request goes on, with what it was asked and has read.
Proceed(r, place, t) ==
  /\ Goto(r, place)
  /\ task' = [task EXCEPT ![r] = t]
  /\ contested' = contested \cup
       (Claims(place, t) \cap UNION {Claims(pc[q], task[q]) : q \in Requests \ {r}})

Ask(key, columns) == [key |-> key, admin |-> Null, columns |-> columns, copy |-> Null, file |-> Null]

Stored == <<rows, audited, attachments, files, cutShort>>

--------------------------------------------------------------------------------
(* Requests find what they are to write. *)

\* upsert(): the rows of the setting's scope; more than one is a MultipleResultsFound.
Upsert(r, scope, value) ==
  /\ pc[r] = "idle"
  /\ LET found == Rows(scope)
         asked == Ask(scope, [Silent EXCEPT !.value = value])
     IN  \/ Cardinality(found) > 1 /\ Answer(r, "error") /\ UNCHANGED contested
         \/ found = {} /\ Proceed(r, "inserting", asked)
         \/ \E row \in found : found = {row} /\ Proceed(r, "writing", [asked EXCEPT !.copy = row])
  /\ UNCHANGED Stored

\* A creation looks its key up: a key that is taken is a 409.
Create(r, key, value) ==
  /\ pc[r] = "idle"
  /\ IF Rows(key) # {}
     THEN Answer(r, "refused") /\ UNCHANGED contested
     ELSE Proceed(r, "inserting", Ask(key, [value |-> value, status |-> "ACTIVE"]))
  /\ UNCHANGED Stored

CreateMasterData(r) == \E code \in Codes, value \in Values : Create(r, code, value)

CreateUser(r) == \E email \in Emails, value \in Values : Create(r, email, value)

\* create_tenant(): the tenants with this code or this slug; two of them are a
\* MultipleResultsFound.
LookUpTenant(r, key, admin, value) ==
  /\ pc[r] = "idle"
  /\ CASE Cardinality(Matching(key)) > 1 -> Answer(r, "error") /\ UNCHANGED contested
       [] Cardinality(Matching(key)) = 1 -> Answer(r, "refused") /\ UNCHANGED contested
       [] OTHER -> Proceed(r, "checked", [Ask(key, [value |-> value, status |-> "ACTIVE"])
                                            EXCEPT !.admin = admin])
  /\ UNCHANGED Stored

\* create_tenant(): the administrator's email.
LookUpAdmin(r) ==
  /\ pc[r] = "checked"
  /\ IF Rows(task[r].admin) # {}
     THEN Answer(r, "refused")
     ELSE Goto(r, "inserting") /\ UNCHANGED task
  /\ UNCHANGED <<Stored, contested>>

\* get(), get_user(), get_tenant(): a 404, or the copy a change starts from.
Load(r, key, columns) ==
  /\ pc[r] = "idle"
  /\ IF Rows(key) = {}
     THEN Answer(r, "refused") /\ UNCHANGED contested
     ELSE \E row \in Rows(key) : Proceed(r, "writing", [Ask(key, columns) EXCEPT !.copy = row])
  /\ UNCHANGED Stored

\* update() and update_user() change any columns, update_tenant() all but the status.
UpdateMasterData(r) == \E code \in Codes, columns \in Columns \ {Silent} : Load(r, code, columns)
UpdateUser(r) == \E email \in Emails, columns \in Columns \ {Silent} : Load(r, email, columns)
UpdateTenant(r) ==
  \E key \in Tenants, value \in Values : Load(r, key, [Silent EXCEPT !.value = value])

Inactive == [Silent EXCEPT !.status = "INACTIVE"]

\* deactivate(): master data that is inactive already is a 409.
DeactivateMasterData(r) ==
  \E code \in Codes :
    IF \E row \in Rows(code) : row.status = "INACTIVE"
    THEN pc[r] = "idle" /\ Answer(r, "refused") /\ UNCHANGED <<Stored, contested>>
    ELSE Load(r, code, Inactive)

\* deactivate_user() and suspend_tenant() do not look.
DeactivateUser(r) == \E email \in Emails : Load(r, email, Inactive)
SuspendTenant(r) == \E key \in Tenants : Load(r, key, Inactive)

--------------------------------------------------------------------------------
(* INSERT or UPDATE, audit event and COMMIT. *)

\* Mutation of Insert: the tenant is committed on its own.
InsertTenantFirst(r) ==
  /\ pc[r] = "inserting"
  /\ LET free == {key \in {task[r].key, task[r].admin} \ {Null} : ~KeyTaken(key)}
         columns == task[r].columns
     IN  /\ rows' = rows \cup {[by |-> r, key |-> key, value |-> columns.value,
                                status |-> "ACTIVE"] : key \in free}
         /\ audited' = [key \in Keys |-> IF key \in free THEN Overlay(audited[key], columns)
                                         ELSE audited[key]]
         /\ Answer(r, IF task[r].key \in free THEN "done" ELSE "error")
  /\ UNCHANGED <<attachments, files, contested, cutShort>>

\* A tenant comes with its administrator (one value stands for both names); a key taken meanwhile is an IntegrityError.
Insert(r) ==
  /\ pc[r] = "inserting"
  /\ LET new == {task[r].key, task[r].admin} \ {Null}
         columns == task[r].columns
     IN  IF \E key \in new : KeyTaken(key)
         THEN Answer(r, "error") /\ UNCHANGED <<rows, audited>>
         ELSE /\ rows' = rows \cup {[by |-> r, key |-> key, value |-> columns.value,
                                     status |-> "ACTIVE"] : key \in new}
              /\ audited' = [key \in Keys |-> IF key \in new THEN Overlay(audited[key], columns)
                                              ELSE audited[key]]
              /\ Answer(r, "done")
  /\ UNCHANGED <<attachments, files, contested, cutShort>>

\* Mutation of Write: a column the request leaves out is taken for empty.
WriteUnset(r) ==
  /\ pc[r] = "writing"
  /\ LET t == task[r] IN
     /\ rows' = {IF row.by = t.copy.by /\ row.key = t.key
                 THEN [row EXCEPT !.value = t.columns.value] ELSE row : row \in rows}
     /\ audited' = [audited EXCEPT ![t.key] = Overlay(@, t.columns)]
  /\ Answer(r, "done")
  /\ UNCHANGED <<attachments, files, contested, cutShort>>

\* Mutation of Write: the whole copy is written back.
WriteWholeCopy(r) ==
  /\ pc[r] = "writing"
  /\ LET t == task[r]
         after == Overlay(t.copy, t.columns)
     IN
     /\ rows' = {IF row.by = t.copy.by /\ row.key = t.key
                 THEN [row EXCEPT !.value = after.value, !.status = after.status]
                 ELSE row : row \in rows}
     /\ audited' = [audited EXCEPT ![t.key] = Overlay(@, t.columns)]
  /\ Answer(r, "done")
  /\ UNCHANGED <<attachments, files, contested, cutShort>>

\* UPDATE writes the columns that differ from the copy.
Write(r) ==
  /\ pc[r] = "writing"
  /\ LET t == task[r]
         changed(column) == t.columns[column] \notin {Null, t.copy[column]}
     IN
     /\ rows' = {IF row.by = t.copy.by /\ row.key = t.key
                 THEN [by |-> row.by, key |-> row.key,
                       value |-> IF changed("value") THEN t.columns.value ELSE row.value,
                       status |-> IF changed("status") THEN t.columns.status ELSE row.status]
                 ELSE row : row \in rows}
     /\ audited' = [audited EXCEPT ![t.key] = Overlay(@, t.columns)]
  /\ Answer(r, "done")
  /\ UNCHANGED <<attachments, files, contested, cutShort>>

--------------------------------------------------------------------------------
(* Attachments. *)

\* Mutation of StoreFile: the row is committed before the bytes are stored.
StoreRowFirst(r) ==
  /\ pc[r] = "idle"
  /\ attachments' = attachments \cup {r}
  /\ Goto(r, "stored")
  /\ UNCHANGED <<rows, audited, files, task, contested, cutShort>>

\* upload() up to the provider's answer: the bytes are stored under a key of their own.
StoreFile(r) ==
  /\ pc[r] = "idle"
  /\ files' = files \cup {r}
  /\ Goto(r, "stored")
  /\ UNCHANGED <<rows, audited, attachments, task, contested, cutShort>>

\* upload(): the row, its audit event and COMMIT.
CommitUpload(r) ==
  /\ pc[r] = "stored"
  /\ attachments' = attachments \cup {r}
  /\ Answer(r, "done")
  /\ UNCHANGED <<rows, audited, files, contested, cutShort>>

\* delete(): the attachment, or a 404.
LoadAttachment(r, file) ==
  /\ pc[r] = "idle"
  /\ IF file \in attachments
     THEN Goto(r, "removing") /\ task' = [task EXCEPT ![r].file = file]
     ELSE Answer(r, "refused")
  /\ UNCHANGED <<Stored, contested>>

\* delete(): the provider removes the bytes; a strict one fails when they are gone.
RemoveFile(r) ==
  /\ pc[r] = "removing"
  /\ files' = files \ {task[r].file}
  /\ IF StrictStorage /\ task[r].file \notin files
     THEN Answer(r, "error")
     ELSE Goto(r, "removed") /\ UNCHANGED task
  /\ UNCHANGED <<rows, audited, attachments, contested, cutShort>>

\* delete(): audit event, DELETE and COMMIT; a row another request deleted is a warning.
CommitDelete(r) ==
  /\ pc[r] = "removed"
  /\ attachments' = attachments \ {task[r].file}
  /\ Answer(r, "done")
  /\ UNCHANGED <<rows, audited, files, contested, cutShort>>

--------------------------------------------------------------------------------
\* A crash, a dropped connection, a client that leaves: the transaction is rolled back,
\* files stay as they are.
Abort(r) ==
  /\ pc[r] \in {"checked", "inserting", "writing", "stored", "removing", "removed"}
  /\ cutShort' = cutShort \cup CASE pc[r] = "stored" -> {r}
                                [] pc[r] = "removed" -> {task[r].file}
                                [] OTHER -> {}
  /\ Answer(r, "aborted")
  /\ UNCHANGED <<rows, audited, attachments, files, contested>>

Next ==
  \E r \in Requests :
    \/ \E scope \in Scopes, value \in Values : Upsert(r, scope, value)
    \/ CreateMasterData(r) \/ UpdateMasterData(r) \/ DeactivateMasterData(r)
    \/ CreateUser(r) \/ UpdateUser(r) \/ DeactivateUser(r)
    \/ \E key \in Tenants, admin \in Emails, value \in Values : LookUpTenant(r, key, admin, value)
    \/ LookUpAdmin(r) \/ UpdateTenant(r) \/ SuspendTenant(r)
    \/ Insert(r) \/ Write(r)
    \/ StoreFile(r) \/ CommitUpload(r)
    \/ \E file \in Requests : LoadAttachment(r, file)
    \/ RemoveFile(r) \/ CommitDelete(r)
    \/ Abort(r)

Spec == Init /\ [][Next]_vars

--------------------------------------------------------------------------------
(* resolve(): the rows that apply to a scope asked for, and the most specific ones. *)

Applicable(scope) ==
  {row \in rows :
     /\ row.key \in Scopes
     /\ \A column \in {"tenant", "unit", "module"} : row.key[column] => scope[column]}

\* Mutation of Specificity: the unit weighs more than the module.
SpecificityUnitFirst(scope) ==
  (IF scope.tenant THEN 1 ELSE 0) + (IF scope.unit THEN 4 ELSE 0) + (IF scope.module THEN 2 ELSE 0)

Specificity(scope) ==
  (IF scope.tenant THEN 1 ELSE 0) + (IF scope.unit THEN 2 ELSE 0) + (IF scope.module THEN 4 ELSE 0)

Resolve(scope) ==
  {best.value : best \in {row \in Applicable(scope) :
     \A other \in Applicable(scope) : Specificity(other.key) <= Specificity(row.key)}}

--------------------------------------------------------------------------------
(* Properties. *)

\* A row says what the last audit event of each of its columns says, and is there once,
\* if any event is: a rename that overlaps a deactivation undoes nothing, and of two
\* creations of a unique key one takes place.  Only columns that two requests changed at
\* one time are excused.
RowsMatchAudit ==
  \A key \in Keys :
    /\ Rows(key) = {} <=> audited[key] = Silent
    /\ \A column \in {"value", "status"} :
         <<key, column>> \notin contested /\ audited[key][column] # Null =>
           \E row \in rows : Rows(key) = {row} /\ row[column] = audited[key][column]

\* resolve() gives the value set last at the first scope of the hierarchy that was set,
\* or nothing when none was.
ResolvedAsLastSet ==
  \A scope \in Scopes :
    LET set == {i \in DOMAIN Hierarchy :
                  /\ Hierarchy[i] \in Scopes /\ audited[Hierarchy[i]].value # Null
                  /\ \A column \in DOMAIN scope : Hierarchy[i][column] => scope[column]}
    IN  IF set = {} THEN Resolve(scope) = {}
        ELSE LET first == Hierarchy[Min(set)]
             IN  <<first, "value">> \notin contested => Resolve(scope) = {audited[first].value}

\* No tenant is without the administrator created with it, and no code, slug or email
\* has two rows, whatever step of a creation fails or meets another's.
TenantsHaveAdmins ==
  \A row \in rows :
    /\ row.key \in Tenants => \E admin \in rows : admin.key \in Emails /\ admin.by = row.by
    /\ row.key \notin Scopes => Matching(row.key) = {row}

\* An attachment without its file, and a file without an attachment, come only from a
\* request that is under way or was cut short between the two.
FilesMatchAttachments ==
  \A file \in (files \cup attachments) \ (files \cap attachments) :
    \/ file \in cutShort
    \/ file \in files /\ pc[file] = "stored"
    \/ file \in attachments /\ \E r \in Requests : pc[r] = "removed" /\ task[r].file = file
================================================================================
