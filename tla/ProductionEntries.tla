---------------------------- MODULE ProductionEntries --------------------------
(***************************************************************************)
(* The status of production entries (production_service): submission and   *)
(* cancellation read an entry without a lock, check its status on that     *)
(* copy, then write the status under a row lock with an audit event in the *)
(* same transaction.  The outputs of an entry are inserted with it and     *)
(* never change.                                                           *)
(***************************************************************************)
EXTENDS Naturals, Sequences, SequencesExt

CONSTANTS
  Entries,
  Requests,  \* submit and cancel requests; a retry is a new request
  NoEntry

ASSUME NoEntryAssumption == NoEntry \notin Entries

VARIABLES
  status,  \* committed status of each entry, "NONE" before its creation
  audit,   \* committed audit events of each entry, in commit order
  pc,      \* where each request stands
  task,    \* the operation each request performs, and on which entry
  contested \* history: entries two requests were working on at one time

vars == <<status, audit, pc, task, contested>>

Statuses == {"DRAFT", "SUBMITTED", "CANCELLED"}
Operations == {"submit", "cancel"}
Working == {"flush", "commit"}

\* Mutation of Accepts: submission reopens a CANCELLED entry.
AcceptsCancelled(op) == IF op = "submit" THEN {"DRAFT", "CANCELLED"} ELSE {"DRAFT", "SUBMITTED"}

\* The statuses an operation accepts, and the one it leaves.
Accepts(op) == IF op = "submit" THEN {"DRAFT"} ELSE {"DRAFT", "SUBMITTED"}
Target(op) == IF op = "submit" THEN "SUBMITTED" ELSE "CANCELLED"

TypeOK ==
  /\ status \in [Entries -> Statuses \cup {"NONE"}]
  /\ audit \in [Entries -> Seq(Statuses)]
  /\ pc \in [Requests -> {"idle", "done", "refused", "aborted"} \cup Working]
  /\ task \in [Requests -> [op : Operations \cup {"none"}, entry : Entries \cup {NoEntry}]]
  /\ contested \subseteq Entries

\* The tables as the migration creates them, and no request yet.
Init ==
  /\ status = [e \in Entries |-> "NONE"]
  /\ audit = [e \in Entries |-> <<>>]
  /\ pc = [r \in Requests |-> "idle"]
  /\ task = [r \in Requests |-> [op |-> "none", entry |-> NoEntry]]
  /\ contested = {}

--------------------------------------------------------------------------------
\* create_entry(): a DRAFT with its outputs and its audit event, in one commit.
CreateEntry(e) ==
  /\ status[e] = "NONE"
  /\ status' = [status EXCEPT ![e] = "DRAFT"]
  /\ audit' = [audit EXCEPT ![e] = Append(@, "DRAFT")]
  /\ UNCHANGED <<pc, task, contested>>

\* get_entry() and the check of the status it read: a 404 or a 409, or on.
Load(r, e, op) ==
  /\ pc[r] = "idle"
  /\ task' = [task EXCEPT ![r] = [op |-> op, entry |-> e]]
  /\ pc' = [pc EXCEPT ![r] = IF status[e] \in Accepts(op) THEN "flush" ELSE "refused"]
  /\ contested' = IF \E q \in Requests : pc'[r] = "flush" /\ pc[q] \in Working /\ task[q].entry = e
                  THEN contested \cup {e} ELSE contested
  /\ UNCHANGED <<status, audit>>

LoadToSubmit(r, e) == Load(r, e, "submit")
LoadToCancel(r, e) == Load(r, e, "cancel")

\* flush(): the status differs from the one read, so the UPDATE always takes the
\* row lock, and waits for whoever holds it.
Flush(r) ==
  /\ pc[r] = "flush"
  /\ \A q \in Requests : pc[q] = "commit" => task[q].entry # task[r].entry
  /\ pc' = [pc EXCEPT ![r] = "commit"]
  /\ UNCHANGED <<status, audit, task, contested>>

\* Mutation of Commit: an entry another request submitted or cancelled meanwhile keeps
\* that status, and the event is written all the same.
CommitEventOnly(r, op) ==
  /\ pc[r] = "commit" /\ task[r].op = op
  /\ status' = [status EXCEPT ![task[r].entry] = IF @ = "DRAFT" THEN Target(op) ELSE @]
  /\ audit' = [audit EXCEPT ![task[r].entry] = Append(@, Target(op))]
  /\ pc' = [pc EXCEPT ![r] = "done"]
  /\ UNCHANGED <<task, contested>>

Commit(r, op) ==
  /\ pc[r] = "commit" /\ task[r].op = op
  /\ status' = [status EXCEPT ![task[r].entry] = Target(op)]
  /\ audit' = [audit EXCEPT ![task[r].entry] = Append(@, Target(op))]
  /\ pc' = [pc EXCEPT ![r] = "done"]
  /\ UNCHANGED <<task, contested>>

CommitSubmission(r) == Commit(r, "submit")
CommitCancellation(r) == Commit(r, "cancel")

\* The request is cut short and rolled back.
Abort(r) ==
  /\ pc[r] \in Working
  /\ pc' = [pc EXCEPT ![r] = "aborted"]
  /\ UNCHANGED <<status, audit, task, contested>>

Serve(r) == Flush(r) \/ CommitSubmission(r) \/ CommitCancellation(r)

Next ==
  \/ \E e \in Entries : CreateEntry(e)
  \/ \E r \in Requests, e \in Entries : LoadToSubmit(r, e) \/ LoadToCancel(r, e)
  \/ \E r \in Requests : Serve(r) \/ Abort(r)

Spec == Init /\ [][Next]_vars

--------------------------------------------------------------------------------
(* Properties. *)

\* However requests on an entry overlap, it shows the status its last audit event
\* names: the row lock makes the order of the writes that of the events.
LastEventNamesStatus ==
  \A e \in Entries :
    status[e] = IF audit[e] = <<>> THEN "NONE" ELSE Last(audit[e])

\* The moves docs/production.md draws: no route reopens a CANCELLED entry.
Moves ==
  {<<"NONE", "DRAFT">>, <<"DRAFT", "SUBMITTED">>, <<"DRAFT", "CANCELLED">>,
   <<"SUBMITTED", "CANCELLED">>}

\* The status checks of submit_entry() and cancel_entry() keep an entry to those moves
\* as long as no two requests work on it at one time.
LifeUnlessContested ==
  [][\A e \in Entries \ contested' :
       status'[e] # status[e] => <<status[e], status'[e]>> \in Moves]_vars
================================================================================
