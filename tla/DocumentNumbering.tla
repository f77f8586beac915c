--------------------------- MODULE DocumentNumbering ---------------------------
(***************************************************************************)
(* Creation of numbered documents: POST /weighbridge/tickets and POST      *)
(* /production/entries, down to numbering_service.next_number() and the    *)
(* PostgreSQL tables under it (READ COMMITTED).  One tenant: every table   *)
(* and every unique key below starts with the tenant's id.                 *)
(*                                                                         *)
(* A request runs two transactions.  The first finds or inserts the        *)
(* counter row of its scope, increments it and COMMITS; the second inserts *)
(* the document under the number it got.  A statement that changes a row   *)
(* keeps it locked until its transaction ends, an INSERT waits for an      *)
(* uncommitted row with its unique key, a SELECT sees committed rows only, *)
(* and a row whose key contains NULL conflicts with no other row.          *)
(***************************************************************************)
EXTENDS Naturals

CONSTANTS
  Requests,  \* HTTP requests that create a document; a retry is a new request
  Units,     \* organization_unit_id values the request bodies carry
  Null,      \* SQL NULL: a member of Units when a body may omit the unit
  Years      \* fiscal year codes of the tenant

VARIABLES
  activeYears,  \* committed fiscal years with is_active
  pc,           \* where each request stands
  scope,        \* scope[r]: what r numbers its document in
  row,          \* row[r]: the counter row r uses, named by the request that inserted it
  num,          \* num[r]: the number r's UPDATE ... RETURNING returned, 0 before
  rowState,     \* rowState[k]: the counter row request k inserted
  last          \* last[k]: committed last_sequence of that row

vars == <<activeYears, pc, scope, row, num, rowState, last>>

\* The document types; each has a table of documents of its own.
WeighbridgeTicket == "WEIGHBRIDGE_TICKET"
ProductionEntry == "PRODUCTION_ENTRY"
Types == {WeighbridgeTicket, ProductionEntry}

Scopes == [type : Types, unit : Units, year : Years]

\* A scope the unique constraint uq_document_sequence_scope can tell apart.
Named(s) == s.unit # Null

Running == {"lookUp", "insertCounter", "updateCounter", "commitCounter",
            "insertDocument", "commitDocument"}
\* 201; 409 for want of a fiscal year; and the ways to a 500: two rows where
\* scalar_one_or_none() allows one, IntegrityError on the counter's key or on the
\* document's, a request cut short.
Answered == {"created", "conflict", "ambiguous", "duplicateCounter",
             "duplicateNumber", "aborted"}

TypeOK ==
  /\ activeYears \subseteq Years
  /\ pc \in [Requests -> {"idle"} \cup Running \cup Answered]
  /\ scope \in [Requests -> Scopes \cup {Null}]
  /\ row \in [Requests -> Requests \cup {Null}]
  /\ num \in [Requests -> Nat]
  /\ rowState \in [Requests -> {"absent", "pending", "committed"}]
  /\ last \in [Requests -> Nat]

Init ==
  /\ activeYears \in SUBSET Years
  /\ pc = [r \in Requests |-> "idle"]
  /\ scope = [r \in Requests |-> Null]
  /\ row = [r \in Requests |-> Null]
  /\ num = [r \in Requests |-> 0]
  /\ rowState = [r \in Requests |-> "absent"]
  /\ last = [r \in Requests |-> 0]

--------------------------------------------------------------------------------
(* The tables, as a transaction sees them. *)

\* The committed counter rows a SELECT for scope s returns (a NULL unit is
\* compared with IS NULL, so it matches the rows of that scope too).
Counters(s) == {k \in Requests : rowState[k] = "committed" /\ scope[k] = s}

\* A committed or uncommitted counter row that blocks an INSERT for scope s.
KeyTaken(s, state) ==
  Named(s) /\ \E k \in Requests : rowState[k] = state /\ scope[k] = s

\* Mutations of RowLocked: the increment reads without the row's lock, and a request
\* that waits for the lock counts as its holder.
RowNeverLocked(r, k) == FALSE
RowLockedByWaiter(r, k) ==
  \E q \in Requests \ {r} : pc[q] \in {"updateCounter", "commitCounter"} /\ row[q] = k

\* Another transaction has changed counter row k and not ended yet.
RowLocked(r, k) == \E q \in Requests \ {r} : pc[q] = "commitCounter" /\ row[q] = k

\* Another request's document, in state "commitDocument" or "created", carries
\* the number of r: ticket_number and entry_number hold the counter's prefix and
\* value, nothing of its unit or year, and are unique in the tenant.
NumberTaken(r, state) ==
  \E q \in Requests \ {r} :
    pc[q] = state /\ scope[q].type = scope[r].type /\ num[q] = num[r]

\* PostgreSQL answers the statement of r only after another request's transaction: an
\* INSERT waits for an uncommitted row of its key, an UPDATE for the row's lock.
Waits(r) ==
  \/ pc[r] = "insertCounter" /\ KeyTaken(scope[r], "pending")
  \/ pc[r] = "updateCounter" /\ RowLocked(r, row[r])
  \/ pc[r] = "insertDocument" /\ NumberTaken(r, "commitDocument")

--------------------------------------------------------------------------------
(* The handlers, one step per statement that reads or writes the database. *)

\* The route accepts the request and reads the tenant's active fiscal year:
\* none is a 409, more than one makes scalar_one_or_none() raise.
Begin(r, type) ==
  /\ pc[r] = "idle"
  /\ \/ /\ activeYears = {}
        /\ pc' = [pc EXCEPT ![r] = "conflict"]
        /\ UNCHANGED scope
     \/ \E y \in Years, u \in Units :
          /\ activeYears = {y}
          /\ scope' = [scope EXCEPT ![r] = [type |-> type, unit |-> u, year |-> y]]
          /\ pc' = [pc EXCEPT ![r] = "lookUp"]
     \/ /\ \E y, z \in activeYears : y # z
        /\ pc' = [pc EXCEPT ![r] = "ambiguous"]
        /\ UNCHANGED scope
  /\ UNCHANGED <<activeYears, row, num, rowState, last>>

CreateTicket(r) == Begin(r, WeighbridgeTicket)
CreateEntry(r) == Begin(r, ProductionEntry)

\* next_number(): SELECT the counter row of the scope.
LookUp(r) ==
  /\ pc[r] = "lookUp"
  /\ \/ /\ Counters(scope[r]) = {}
        /\ pc' = [pc EXCEPT ![r] = "insertCounter"]
        /\ UNCHANGED row
     \/ \E k \in Requests :
          /\ Counters(scope[r]) = {k}
          /\ row' = [row EXCEPT ![r] = k]
          /\ pc' = [pc EXCEPT ![r] = "updateCounter"]
     \/ /\ \E j, k \in Counters(scope[r]) : j # k
        /\ pc' = [pc EXCEPT ![r] = "ambiguous"]
        /\ UNCHANGED row
  /\ UNCHANGED <<activeYears, scope, num, rowState, last>>

\* next_number(): INSERT the counter row of a scope that had none.
InsertCounter(r) ==
  /\ pc[r] = "insertCounter"
  /\ ~Waits(r)
  /\ \/ /\ KeyTaken(scope[r], "committed")
        /\ pc' = [pc EXCEPT ![r] = "duplicateCounter"]
        /\ UNCHANGED <<row, rowState>>
     \/ /\ ~KeyTaken(scope[r], "committed")
        /\ row' = [row EXCEPT ![r] = r]
        /\ rowState' = [rowState EXCEPT ![r] = "pending"]
        /\ pc' = [pc EXCEPT ![r] = "updateCounter"]
  /\ UNCHANGED <<activeYears, scope, num, last>>

\* next_number(): UPDATE ... SET last_sequence = last_sequence + 1 RETURNING.
UpdateCounter(r) ==
  /\ pc[r] = "updateCounter"
  /\ ~Waits(r)
  /\ num' = [num EXCEPT ![r] = last[row[r]] + 1]
  /\ pc' = [pc EXCEPT ![r] = "commitCounter"]
  /\ UNCHANGED <<activeYears, scope, row, rowState, last>>

\* next_number(): COMMIT, before any document exists.
CommitCounter(r) ==
  /\ pc[r] = "commitCounter"
  /\ last' = [last EXCEPT ![row[r]] = num[r]]
  /\ rowState' = [rowState EXCEPT ![row[r]] = "committed"]
  /\ pc' = [pc EXCEPT ![r] = "insertDocument"]
  /\ UNCHANGED <<activeYears, scope, row, num>>

\* INSERT the document; a number that another committed document of the tenant
\* holds violates the unique key.
InsertDocument(r, type) ==
  /\ pc[r] = "insertDocument"
  /\ scope[r].type = type
  /\ ~Waits(r)
  /\ pc' = [pc EXCEPT ![r] = IF NumberTaken(r, "created") THEN "duplicateNumber"
                                                          ELSE "commitDocument"]
  /\ UNCHANGED <<activeYears, scope, row, num, rowState, last>>

InsertTicket(r) == InsertDocument(r, WeighbridgeTicket)
InsertEntry(r) == InsertDocument(r, ProductionEntry)

\* COMMIT the document with its audit event.
CommitDocument(r) ==
  /\ pc[r] = "commitDocument"
  /\ pc' = [pc EXCEPT ![r] = "created"]
  /\ UNCHANGED <<activeYears, scope, row, num, rowState, last>>

\* Mutation of Abort: the request keeps its number although the increment was rolled
\* back.
AbortKeepingNumber(r) ==
  /\ pc[r] \in Running
  /\ pc' = [pc EXCEPT ![r] = "aborted"]
  /\ rowState' = [rowState EXCEPT ![r] = IF @ = "pending" THEN "absent" ELSE @]
  /\ UNCHANGED <<activeYears, scope, row, num, last>>

\* The process dies, the connection drops or the client goes away: get_db()
\* rolls the open transaction back, what was committed stays.
Abort(r) ==
  /\ pc[r] \in Running
  /\ pc' = [pc EXCEPT ![r] = "aborted"]
  /\ num' = [num EXCEPT ![r] = IF pc[r] = "commitCounter" THEN 0 ELSE @]
  /\ rowState' = [rowState EXCEPT ![r] = IF @ = "pending" THEN "absent" ELSE @]
  /\ UNCHANGED <<activeYears, scope, row, last>>

\* Fiscal years are opened and closed outside the API (seed.py, by hand).
SwitchYear(y) ==
  /\ activeYears' = IF y \in activeYears THEN activeYears \ {y} ELSE activeYears \cup {y}
  /\ UNCHANGED <<pc, scope, row, num, rowState, last>>

Serve(r) ==
  \/ LookUp(r)
  \/ InsertCounter(r)
  \/ UpdateCounter(r)
  \/ CommitCounter(r)
  \/ InsertTicket(r)
  \/ InsertEntry(r)
  \/ CommitDocument(r)

Next ==
  \/ \E r \in Requests : CreateTicket(r) \/ CreateEntry(r) \/ Serve(r) \/ Abort(r)
  \/ \E y \in Years : SwitchYear(y)

Spec == Init /\ [][Next]_vars

--------------------------------------------------------------------------------
(* Properties. *)

\* Request r was handed a number and the hand-out is committed.
Issued(r) == num[r] > 0 /\ pc[r] # "commitCounter"

\* Two requests of one scope that names its unit never get the same number,
\* whatever interleaves with next_number() and whichever request is cut short.
NumbersDistinct ==
  \A q, r \in Requests :
    q # r /\ Issued(q) /\ Issued(r) /\ scope[q] = scope[r] /\ Named(scope[r])
      => num[q] # num[r]

\* uq_document_sequence_scope: two first requests of one scope that names its
\* unit, racing from SELECT to INSERT, leave one counter row.
OneCounterPerScope ==
  \A j, k \in Requests :
    rowState[j] # "absent" /\ rowState[k] # "absent" /\ scope[j] = scope[k]
      /\ Named(scope[k]) => j = k

\* Every increment of a counter row went to one request of the row's scope, and
\* every number a request holds is one of them: no update of last_sequence is
\* lost, and none is committed for a request that is then told another number.
CountersAccountForNumbers ==
  \A k \in Requests :
    {num[r] : r \in {q \in Requests : Issued(q) /\ row[q] = k /\ scope[q] = scope[k]}}
      = 1..last[k]

\* Neither a rollback nor a crash takes a committed counter row or any of its
\* increments back, so a number once handed out is never handed out again.
CountersNeverGoBack ==
  [][\A k \in Requests :
       rowState[k] = "committed" => rowState'[k] = "committed" /\ last'[k] >= last[k]]_vars

\* The statements of next_number() and of the document's INSERT wait for other requests'
\* rows and locks, but never in a circle: as long as requests are being served, the
\* statement of one of them is answered without waiting.
SomeoneIsServed ==
  (\E r \in Requests : pc[r] \in Running)
    => \E r \in Requests : pc[r] \in Running /\ ~Waits(r)

\* The number dispenser of every scope that names its unit, seen through the
\* committed counter rows.
NamedScopes == {s \in Scopes : Named(s)}

LastNumber(s) == IF Counters(s) = {} THEN 0 ELSE last[CHOOSE k \in Counters(s) : TRUE]

NumberGiven(r) == IF Issued(r) /\ Named(scope[r]) THEN num[r] ELSE 0

Dispenser == INSTANCE NumberDispenser WITH
  Scopes <- NamedScopes,
  next <- [s \in NamedScopes |-> LastNumber(s)],
  given <- [r \in Requests |-> NumberGiven(r)]

\* next_number() hands out 1, 2, 3, ... per scope, each number once.
DispensesNumbers == Dispenser!Spec

--------------------------------------------------------------------------------
(* What the comments and the documentation say, and the code does not keep. *)

\* numbering_service.py: concurrent callers of one scope never get the same
\* number, with or without an organization unit.
NumbersDistinctInEveryScope ==
  \A q, r \in Requests :
    q # r /\ Issued(q) /\ Issued(r) /\ scope[q] = scope[r] => num[q] # num[r]

\* docs/weighbridge.md: two plants, or one plant in two fiscal years, produce
\* the same number without colliding.
NumbersNeverCollide == \A r \in Requests : pc[r] # "duplicateNumber"
================================================================================
