--------------------------- MODULE WeighbridgeTickets --------------------------
(***************************************************************************)
(* Weighbridge tickets after their number is known: insertion, second      *)
(* weighment and cancellation (weighbridge_service), with the row lock an  *)
(* UPDATE holds until its transaction commits and the audit event written  *)
(* in the same transaction.  A handler reads the ticket WITHOUT a lock,    *)
(* checks its status on that copy, and writes later; the ORM writes only   *)
(* the columns it changed.                                                 *)
(***************************************************************************)
EXTENDS Integers, Sequences, FiniteSetsExt

CONSTANTS
  Tickets,
  Requests,  \* complete and cancel requests; a retry is a new request
  Weights,   \* weights a client sends, in quarters of the column's 0.001
  Null       \* SQL NULL

ASSUME WeightsAssumption == Weights \subseteq Nat \ {0} /\ Null \notin Nat

VARIABLES
  tickets,  \* committed rows
  audit,    \* committed audit events of each ticket, in commit order
  pc,       \* where each request stands
  task,     \* what each request was asked and read
  contested \* history: tickets two requests were working on at one time

vars == <<tickets, audit, pc, task, contested>>

Statuses == {"OPEN", "COMPLETED", "CANCELLED"}

\* Numeric(12, 3): PostgreSQL rounds to the column's scale, ties away from zero.
Store(w) == ((w + 2) \div 4) * 4

Distance(a, b) == IF a > b THEN a - b ELSE b - a

TicketRow ==
  [status : Statuses \cup {"NONE"}, first : Nat, second : Nat \cup {Null},
   net : Nat \cup {Null}]
AuditEvent == [action : {"CREATED", "COMPLETED", "CANCELLED"}, net : Nat \cup {Null}]
Task ==
  [op : {"none", "complete", "cancel"}, ticket : Tickets \cup {Null},
   seen : Statuses \cup {"NONE"}, second : Nat \cup {Null}, net : Nat \cup {Null}]

TypeOK ==
  /\ tickets \in [Tickets -> TicketRow]
  /\ audit \in [Tickets -> Seq(AuditEvent)]
  /\ pc \in [Requests -> {"idle", "flush", "commit", "done", "refused", "aborted"}]
  /\ task \in [Requests -> Task]
  /\ contested \subseteq Tickets

NoTicket == [status |-> "NONE", first |-> 0, second |-> Null, net |-> Null]
NoTask == [op |-> "none", ticket |-> Null, seen |-> "NONE", second |-> Null, net |-> Null]

\* The tables as the migration creates them, and no request yet.
Init ==
  /\ tickets = [t \in Tickets |-> NoTicket]
  /\ audit = [t \in Tickets |-> <<>>]
  /\ pc = [r \in Requests |-> "idle"]
  /\ task = [r \in Requests |-> NoTask]
  /\ contested = {}

--------------------------------------------------------------------------------
Event(action, net) == [action |-> action, net |-> net]

Working == {"flush", "commit"}

\* create_ticket(): the INSERT of an OPEN ticket with its first weighment commits
\* together with its audit event; nobody sees the row before.
CreateTicket(t, w) ==
  /\ tickets[t].status = "NONE"
  /\ tickets' = [tickets EXCEPT ![t].status = "OPEN", ![t].first = Store(w)]
  /\ audit' = [audit EXCEPT ![t] = Append(@, Event("CREATED", Null))]
  /\ UNCHANGED <<pc, task, contested>>

\* get_ticket() and the status check on what it read; a ticket that does not exist
\* is a 404, a status the operation does not accept a 409.
Load(r, t, op, accepted, second, net) ==
  /\ pc[r] = "idle"
  /\ \/ /\ tickets[t].status \notin accepted
        /\ pc' = [pc EXCEPT ![r] = "refused"]
        /\ UNCHANGED <<task, contested>>
     \/ /\ tickets[t].status \in accepted
        /\ pc' = [pc EXCEPT ![r] = "flush"]
        /\ task' = [task EXCEPT ![r] = [op |-> op, ticket |-> t, seen |-> tickets[t].status,
                                        second |-> second, net |-> net]]
        /\ contested' = IF \E q \in Requests : pc[q] \in Working /\ task[q].ticket = t
                        THEN contested \cup {t} ELSE contested
  /\ UNCHANGED <<tickets, audit>>

\* Mutations of LoadToComplete: the second weight as the net weight, and a CANCELLED ticket
\* not refused.
LoadToCompleteGross(r, t, w) == Load(r, t, "complete", {"OPEN"}, w, w)
LoadToCompleteCancelled(r, t, w) ==
  Load(r, t, "complete", {"OPEN", "CANCELLED"}, w, Distance(tickets[t].first, w))

\* complete_ticket() needs an OPEN ticket and takes the net weight from the first
\* weight it read and the second weight as the client sent it.
LoadToComplete(r, t, w) ==
  Load(r, t, "complete", {"OPEN"}, w, Distance(tickets[t].first, w))

\* cancel_ticket() refuses a COMPLETED ticket only.
LoadToCancel(r, t) == Load(r, t, "cancel", {"OPEN", "CANCELLED"}, Null, Null)

\* The UPDATE has a column to write.  (Cancelling a ticket read as CANCELLED may
\* still write updated_by and wait for the lock; that only delays it.)
Writes(r) == task[r].op = "complete" \/ task[r].seen = "OPEN"

\* flush(): the UPDATE waits for the row lock, then holds it.
Flush(r) ==
  /\ pc[r] = "flush"
  /\ Writes(r) => \A q \in Requests \ {r} :
       ~(pc[q] = "commit" /\ Writes(q) /\ task[q].ticket = task[r].ticket)
  /\ pc' = [pc EXCEPT ![r] = "commit"]
  /\ UNCHANGED <<tickets, audit, task, contested>>

\* Mutation of CommitCompletion: no audit event.
CommitCompletionUnaudited(r) ==
  /\ pc[r] = "commit" /\ task[r].op = "complete"
  /\ tickets' = [tickets EXCEPT ![task[r].ticket].status = "COMPLETED",
                                ![task[r].ticket].second = Store(task[r].second),
                                ![task[r].ticket].net = Store(task[r].net)]
  /\ pc' = [pc EXCEPT ![r] = "done"]
  /\ UNCHANGED <<audit, task, contested>>

\* COMMIT of the completion: weights rounded by the column, the audit event with
\* the net weight as computed.
CommitCompletion(r) ==
  /\ pc[r] = "commit" /\ task[r].op = "complete"
  /\ LET t == task[r].ticket IN
     /\ tickets' = [tickets EXCEPT ![t].status = "COMPLETED",
                                   ![t].second = Store(task[r].second),
                                   ![t].net = Store(task[r].net)]
     /\ audit' = [audit EXCEPT ![t] = Append(@, Event("COMPLETED", task[r].net))]
  /\ pc' = [pc EXCEPT ![r] = "done"]
  /\ UNCHANGED <<task, contested>>

\* Mutation of CommitCancellation: the whole row is written as the request read it.
CommitCancellationOfRow(r) ==
  /\ pc[r] = "commit" /\ task[r].op = "cancel"
  /\ tickets' = [tickets EXCEPT ![task[r].ticket].status = "CANCELLED",
                                ![task[r].ticket].second = Null, ![task[r].ticket].net = Null]
  /\ audit' = [audit EXCEPT ![task[r].ticket] = Append(@, Event("CANCELLED", Null))]
  /\ pc' = [pc EXCEPT ![r] = "done"]
  /\ UNCHANGED <<task, contested>>

\* COMMIT of the cancellation: only a status that changed is written.
CommitCancellation(r) ==
  /\ pc[r] = "commit" /\ task[r].op = "cancel"
  /\ LET t == task[r].ticket IN
     /\ tickets' = IF Writes(r) THEN [tickets EXCEPT ![t].status = "CANCELLED"] ELSE tickets
     /\ audit' = [audit EXCEPT ![t] = Append(@, Event("CANCELLED", Null))]
  /\ pc' = [pc EXCEPT ![r] = "done"]
  /\ UNCHANGED <<task, contested>>

\* The request is cut short and rolled back.
Abort(r) ==
  /\ pc[r] \in Working
  /\ pc' = [pc EXCEPT ![r] = "aborted"]
  /\ UNCHANGED <<tickets, audit, task, contested>>

Serve(r) == Flush(r) \/ CommitCompletion(r) \/ CommitCancellation(r)

Next ==
  \/ \E t \in Tickets, w \in Weights : CreateTicket(t, w)
  \/ \E r \in Requests, t \in Tickets, w \in Weights : LoadToComplete(r, t, w)
  \/ \E r \in Requests, t \in Tickets : LoadToCancel(r, t)
  \/ \E r \in Requests : Serve(r) \/ Abort(r)

Spec == Init /\ [][Next]_vars

--------------------------------------------------------------------------------
(* Properties. *)

\* Where the completions of a ticket stand in its trail.
Completions(t) == {i \in DOMAIN audit[t] : audit[t][i].action = "COMPLETED"}

\* However completions and cancellations race, a row's second and net weight come
\* from one completion: both or neither, and the net weight is within the last
\* digit of the distance of the two weighments.
WeighmentsAgree ==
  \A t \in Tickets : LET k == tickets[t] IN
    /\ (k.second = Null) <=> (k.net = Null)
    /\ k.net # Null => Distance(k.net, Distance(k.first, k.second)) <= 4

\* The net weight a ticket shows is the one its last completion event recorded,
\* up to the column's rounding, and a ticket without one shows none.
NetWeightIsAudited ==
  \A t \in Tickets :
    tickets[t].net = IF Completions(t) = {} THEN Null ELSE Store(audit[t][Max(Completions(t))].net)

\* A ticket is OPEN exactly while its audit trail holds no completion and no
\* cancellation, and the status it shows otherwise is one the trail names.
StatusIsAudited ==
  \A t \in Tickets : LET done == {audit[t][i].action : i \in DOMAIN audit[t]} IN
    /\ tickets[t].status = "NONE" <=> done = {}
    /\ tickets[t].status = "OPEN" <=> done = {"CREATED"}
    /\ tickets[t].status \in {"COMPLETED", "CANCELLED"} => tickets[t].status \in done

\* The life of a ticket: OPEN, then COMPLETED or CANCELLED, then nothing.
Moves == {<<"NONE", "OPEN">>, <<"OPEN", "COMPLETED">>, <<"OPEN", "CANCELLED">>}

\* Two requests on a ticket, one after the other, keep it to that life, and its net
\* weight is computed once: the checks of get_ticket() and of the services are enough
\* as long as no two requests work on the ticket at one time.
LifeUnlessContested ==
  [][\A t \in Tickets \ contested' :
       /\ tickets'[t].status # tickets[t].status => <<tickets[t].status, tickets'[t].status>> \in Moves
       /\ tickets[t].net # Null => tickets'[t].net = tickets[t].net]_vars
================================================================================
