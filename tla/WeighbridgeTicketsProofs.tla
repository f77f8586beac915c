----------------------- MODULE WeighbridgeTicketsProofs ------------------------
(***************************************************************************)
(* What holds of WeighbridgeTickets for every set of tickets, requests and *)
(* weights.  The inductive invariant says what a request's copy of its     *)
(* ticket still tells about the row when the request commits.              *)
(***************************************************************************)
EXTENDS WeighbridgeTickets, TLAPS

Final == {"COMPLETED", "CANCELLED"}

WorksOn(r, t) == pc[r] \in Working /\ task[r].ticket = t

\* A task k fits its ticket's row: the row exists, its status was one the operation
\* accepts, and a completion has the net weight of the first weight the row still has.
Fit(k, row) ==
  /\ row.status # "NONE"
  /\ \/ /\ k.op = "complete"
        /\ k.seen = "OPEN"
        /\ k.second \in Nat
        /\ k.net = Distance(row.first, k.second)
     \/ /\ k.op = "cancel"
        /\ k.seen \in {"OPEN", "CANCELLED"}
        /\ k.seen = "CANCELLED" => row.status \in Final

\* The task of every request at work fits.
TaskFits ==
  \A r \in Requests : pc[r] \in Working =>
    task[r].ticket \in Tickets /\ Fit(task[r], tickets[task[r].ticket])

\* A ticket that was never completed has no second weighment.
OpenUnweighed ==
  \A t \in Tickets : tickets[t].status \notin Final =>
    tickets[t].second = Null /\ tickets[t].net = Null

\* On a ticket that was never contested one request works at most, and the status it
\* read is still there.
ReadsAreCurrent ==
  \A t \in Tickets \ contested, r \in Requests : WorksOn(r, t) =>
    /\ tickets[t].status = task[r].seen
    /\ \A q \in Requests : WorksOn(q, t) => q = r

--------------------------------------------------------------------------------
(* Weights. *)

\* The column rounds by half its last digit at most.
LEMMA StoreRounds ==
  ASSUME NEW w \in Nat
  PROVE  Store(w) \in Nat /\ Store(w) <= w + 2 /\ w <= Store(w) + 2
  BY DEF Store

LEMMA DistanceType ==
  ASSUME NEW a \in Nat, NEW b \in Nat
  PROVE  Distance(a, b) \in Nat
  BY DEF Distance

\* Rounding the second and the net weight moves them apart by one last digit at most.
LEMMA RoundedNet ==
  ASSUME NEW first \in Nat, NEW second \in Nat
  PROVE  Distance(Store(Distance(first, second)), Distance(first, Store(second))) <= 4
  <1> DEFINE net == Distance(first, second)
             kept == Store(second)
  <1>1. net \in Nat /\ kept \in Nat /\ kept <= second + 2 /\ second <= kept + 2
    BY DistanceType, StoreRounds
  <1>2. Store(net) \in Nat /\ Store(net) <= net + 2 /\ net <= Store(net) + 2
    BY <1>1, StoreRounds
  <1>3. /\ Distance(first, kept) \in Nat
        /\ Distance(first, kept) <= net + 2
        /\ net <= Distance(first, kept) + 2
    <2> HIDE DEF kept
    <2> QED
      BY <1>1 DEF Distance
  <1> HIDE DEF net, kept
  <1>4. Distance(Store(net), Distance(first, kept)) <= 4
    BY <1>1, <1>2, <1>3 DEF Distance
  <1> QED
    BY <1>4 DEF net, kept

--------------------------------------------------------------------------------
(* Audit trails. *)

Actions(trail) == {trail[i].action : i \in DOMAIN trail}

\* The net weight of the last completion of a trail, as its row keeps it.
Weighed(net, trail) ==
  \/ net = Null /\ "COMPLETED" \notin Actions(trail)
  \/ \E i \in DOMAIN trail :
       /\ trail[i].action = "COMPLETED"
       /\ net = Store(trail[i].net)
       /\ \A j \in DOMAIN trail : trail[j].action = "COMPLETED" => j <= i

LEMMA EventType ==
  ASSUME NEW action \in {"CREATED", "COMPLETED", "CANCELLED"}, NEW net \in Nat \cup {Null}
  PROVE  /\ Event(action, net) \in AuditEvent
         /\ Event(action, net).action = action /\ Event(action, net).net = net
  BY DEF Event, AuditEvent

LEMMA ActionsOfAppend ==
  ASSUME NEW trail \in Seq(AuditEvent), NEW e \in AuditEvent
  PROVE  /\ Append(trail, e) \in Seq(AuditEvent)
         /\ Actions(Append(trail, e)) = Actions(trail) \cup {e.action}
  <1>1. /\ Append(trail, e) \in Seq(AuditEvent)
        /\ DOMAIN Append(trail, e) = DOMAIN trail \cup {Len(trail) + 1}
        /\ \A i \in DOMAIN trail : Append(trail, e)[i] = trail[i]
        /\ Append(trail, e)[Len(trail) + 1] = e
    OBVIOUS
  <1> QED
    BY <1>1 DEF Actions

\* A completion becomes the last one; another event leaves the last one where it was.
LEMMA WeighedOfAppend ==
  ASSUME NEW trail \in Seq(AuditEvent), NEW e \in AuditEvent, NEW net
  PROVE  /\ e.action = "COMPLETED" => Weighed(Store(e.net), Append(trail, e))
         /\ e.action # "COMPLETED" /\ Weighed(net, trail) => Weighed(net, Append(trail, e))
  <1> DEFINE more == Append(trail, e)
             n == Len(trail)
  <1>1. /\ DOMAIN trail = 1..n /\ n \in Nat
        /\ DOMAIN more = 1..(n + 1)
        /\ \A i \in 1..n : more[i] = trail[i]
        /\ more[n + 1] = e
    OBVIOUS
  <1>2. Actions(more) = Actions(trail) \cup {e.action}
    BY ActionsOfAppend
  <1> HIDE DEF more, n
  <1>3. /\ n + 1 \in 1..(n + 1)
        /\ \A i \in 1..(n + 1) : i <= n + 1 /\ (i \in 1..n \/ i = n + 1)
        /\ \A i \in 1..n : i \in 1..(n + 1)
    BY <1>1
  <1>4. e.action = "COMPLETED" => Weighed(Store(e.net), more)
    BY <1>1, <1>3 DEF Weighed
  <1>5. ASSUME e.action # "COMPLETED", Weighed(net, trail) PROVE Weighed(net, more)
    <2>1. CASE net = Null /\ "COMPLETED" \notin Actions(trail)
      BY <1>2, <1>5, <2>1 DEF Weighed
    <2>2. CASE \E i \in 1..n :
                 /\ trail[i].action = "COMPLETED"
                 /\ net = Store(trail[i].net)
                 /\ \A j \in 1..n : trail[j].action = "COMPLETED" => j <= i
      <3>1. PICK i \in 1..n :
                 /\ trail[i].action = "COMPLETED"
                 /\ net = Store(trail[i].net)
                 /\ \A j \in 1..n : trail[j].action = "COMPLETED" => j <= i
        BY <2>2
      <3>2. more[i] = trail[i] /\ i \in DOMAIN more
        BY <1>1, <1>3
      <3>3. \A j \in DOMAIN more : more[j].action = "COMPLETED" => j <= i
        BY <1>1, <1>3, <1>5, <3>1
      <3> QED
        BY <3>1, <3>2, <3>3 DEF Weighed
    <2> QED
      BY <1>1, <1>5, <2>1, <2>2 DEF Weighed
  <1> QED
    BY <1>4, <1>5 DEF more

\* The claim of StatusIsAudited about one ticket.
Audited(status, trail) ==
  /\ status = "NONE" <=> Actions(trail) = {}
  /\ status = "OPEN" <=> Actions(trail) = {"CREATED"}
  /\ status \in Final => status \in Actions(trail)

TrailAgrees ==
  \A t \in Tickets : Audited(tickets[t].status, audit[t]) /\ Weighed(tickets[t].net, audit[t])

IInv ==
  /\ TypeOK
  /\ TaskFits
  /\ OpenUnweighed
  /\ ReadsAreCurrent
  /\ WeighmentsAgree
  /\ TrailAgrees

--------------------------------------------------------------------------------
LEMMA InitIInv == Init => IInv
  <1> SUFFICES ASSUME Init PROVE IInv
    OBVIOUS
  <1>1. TypeOK
    BY DEF Init, TypeOK, TicketRow, Task, NoTicket, NoTask
  <1>2. TaskFits /\ OpenUnweighed /\ ReadsAreCurrent /\ WeighmentsAgree
    BY DEF Init, TaskFits, OpenUnweighed, ReadsAreCurrent, WeighmentsAgree, NoTicket, NoTask,
       WorksOn, Working, Final
  <1>3. TrailAgrees
    BY DEF Init, TrailAgrees, Audited, Weighed, Actions, NoTicket, Final
  <1> QED
    BY <1>1, <1>2, <1>3 DEF IInv

\* A task fits a row as long as the row exists, keeps its first weight and, once final,
\* stays so.
LEMMA FitCarries ==
  ASSUME NEW k, NEW row, NEW next, Fit(k, row), next.first = row.first,
         next.status \in {"CANCELLED", "COMPLETED"}
  PROVE  Fit(k, next)
  BY DEF Fit, Final

\* What one event adds to the trail of its ticket.
LEMMA TrailStep ==
  ASSUME TypeOK, NEW t \in Tickets, NEW e \in AuditEvent,
         audit' = [audit EXCEPT ![t] = Append(@, e)]
  PROVE  /\ audit' \in [Tickets -> Seq(AuditEvent)]
         /\ audit[t] \in Seq(AuditEvent)
         /\ audit'[t] = Append(audit[t], e)
         /\ Actions(audit'[t]) = Actions(audit[t]) \cup {e.action}
         /\ \A u \in Tickets \ {t} : audit'[u] = audit[u]
  <1>1. audit \in [Tickets -> Seq(AuditEvent)]
    BY DEF TypeOK
  <1>2. /\ audit'[t] = Append(audit[t], e) /\ audit[t] \in Seq(AuditEvent)
        /\ \A u \in Tickets \ {t} : audit'[u] = audit[u]
    BY <1>1
  <1>3. Append(audit[t], e) \in Seq(AuditEvent)
    BY <1>2, ActionsOfAppend
  <1>4. audit' \in [Tickets -> Seq(AuditEvent)]
    BY <1>1, <1>3
  <1> QED
    BY <1>2, <1>4, ActionsOfAppend

\* Nobody works on a ticket before its creation.
LEMMA CreateKeepsIInv ==
  ASSUME IInv, NEW t \in Tickets, NEW w \in Weights, CreateTicket(t, w)
  PROVE  IInv'
  <1> DEFINE e == Event("CREATED", Null)
  <1>1. TypeOK /\ TaskFits /\ OpenUnweighed /\ ReadsAreCurrent /\ WeighmentsAgree /\ TrailAgrees
    BY DEF IInv
  <1>0. /\ tickets[t].status = "NONE" /\ UNCHANGED <<pc, task, contested>>
        /\ tickets' = [tickets EXCEPT ![t].status = "OPEN", ![t].first = Store(w)]
        /\ audit' = [audit EXCEPT ![t] = Append(@, e)]
    BY DEF CreateTicket
  <1>a. e \in AuditEvent /\ e.action = "CREATED"
    BY EventType
  <1> HIDE DEF e
  <1>2. /\ tickets[t] \in TicketRow /\ Store(w) \in Nat
        /\ tickets[t].second = Null /\ tickets[t].net = Null
    BY <1>0, <1>1, WeightsAssumption, StoreRounds DEF TypeOK, OpenUnweighed, Final
  <1>3. /\ tickets'[t] = [tickets[t] EXCEPT !.status = "OPEN", !.first = Store(w)]
        /\ \A u \in Tickets \ {t} : tickets'[u] = tickets[u]
    BY <1>0, <1>1 DEF TypeOK
  <1>4. /\ tickets'[t] \in TicketRow /\ tickets'[t].status = "OPEN"
        /\ tickets'[t].second = Null /\ tickets'[t].net = Null
    BY <1>2, <1>3 DEF TicketRow, Statuses
  <1>5. /\ audit' \in [Tickets -> Seq(AuditEvent)] /\ audit[t] \in Seq(AuditEvent)
        /\ audit'[t] = Append(audit[t], e)
        /\ Actions(audit'[t]) = Actions(audit[t]) \cup {"CREATED"}
        /\ \A u \in Tickets \ {t} : audit'[u] = audit[u]
    BY <1>0, <1>1, <1>a, TrailStep
  <1>6. TypeOK'
    <2>1. tickets' \in [Tickets -> TicketRow]
      BY <1>0, <1>1, <1>4 DEF TypeOK
    <2> QED
      BY <1>0, <1>1, <1>5, <2>1 DEF TypeOK
  <1>7. \A r \in Requests : ~WorksOn(r, t)
    BY <1>0, <1>1 DEF TaskFits, Fit, WorksOn
  <1>8. TaskFits'
    <2>1. \A r \in Requests : pc[r] \in Working => task[r].ticket \in Tickets \ {t}
      BY <1>1, <1>7 DEF TaskFits, WorksOn
    <2> QED
      BY <1>0, <1>1, <1>3, <2>1 DEF TaskFits
  <1>9. OpenUnweighed'
    BY <1>1, <1>3, <1>4 DEF OpenUnweighed
  <1>10. ReadsAreCurrent'
    <2>1. ASSUME NEW u \in Tickets \ contested, NEW r \in Requests, WorksOn(r, u)
          PROVE  /\ tickets'[u].status = task[r].seen
                 /\ \A q \in Requests : WorksOn(q, u) => q = r
      <3>1. tickets'[u] = tickets[u]
        BY <1>3, <1>7, <2>1
      <3> QED
        BY <1>1, <2>1, <3>1 DEF ReadsAreCurrent
    <2>2. \A q \in Requests, u \in Tickets : WorksOn(q, u)' <=> WorksOn(q, u)
      BY <1>0 DEF WorksOn
    <2>3. contested' = contested /\ task' = task
      BY <1>0
    <2> QED
      BY <2>1, <2>2, <2>3 DEF ReadsAreCurrent
  <1>11. WeighmentsAgree'
    BY <1>1, <1>3, <1>4 DEF WeighmentsAgree
  <1>12. TrailAgrees'
    <2>1. Actions(audit[t]) = {} /\ Weighed(tickets[t].net, audit[t])
      BY <1>0, <1>1 DEF TrailAgrees, Audited
    <2>2. Audited(tickets'[t].status, audit'[t])
      BY <1>4, <1>5, <2>1 DEF Audited, Final
    <2>3. Weighed(tickets'[t].net, audit'[t])
      BY <1>a, <1>2, <1>4, <1>5, <2>1, WeighedOfAppend
    <2> QED
      BY <1>1, <1>3, <1>5, <2>2, <2>3 DEF TrailAgrees
  <1> QED
    BY <1>6, <1>8, <1>9, <1>10, <1>11, <1>12 DEF IInv

\* A request that goes on holds a current copy, and marks a ticket others work on.
LEMMA LoadKeepsIInv ==
  ASSUME IInv, NEW r \in Requests, NEW t \in Tickets, NEW op, NEW accepted, NEW second, NEW net,
         Load(r, t, op, accepted, second, net),
         \/ /\ op = "complete" /\ accepted = {"OPEN"} /\ second \in Nat
            /\ net = Distance(tickets[t].first, second)
         \/ /\ op = "cancel" /\ accepted = {"OPEN", "CANCELLED"} /\ second = Null /\ net = Null
  PROVE  IInv'
  <1>1. TypeOK /\ TaskFits /\ OpenUnweighed /\ ReadsAreCurrent /\ WeighmentsAgree /\ TrailAgrees
    BY DEF IInv
  <1>0. pc[r] = "idle" /\ UNCHANGED <<tickets, audit>>
    BY DEF Load
  <1>2. OpenUnweighed' /\ WeighmentsAgree' /\ TrailAgrees'
    BY <1>0, <1>1 DEF OpenUnweighed, WeighmentsAgree, TrailAgrees
  <1>3. CASE pc' = [pc EXCEPT ![r] = "refused"] /\ UNCHANGED <<task, contested>>
    <2>1. pc'[r] = "refused" /\ \A q \in Requests \ {r} : pc'[q] = pc[q]
      BY <1>1, <1>3 DEF TypeOK
    <2>2. TypeOK'
      BY <1>0, <1>1, <1>3 DEF TypeOK
    <2>3. \A q \in Requests : pc'[q] \in Working => pc[q] \in Working
      BY <2>1 DEF Working
    <2>4. TaskFits'
      BY <1>0, <1>1, <1>3, <2>3 DEF TaskFits
    <2>5. ReadsAreCurrent'
      BY <1>0, <1>1, <1>3, <2>3 DEF ReadsAreCurrent, WorksOn
    <2> QED
      BY <1>2, <2>2, <2>4, <2>5 DEF IInv
  <1> DEFINE k == [op |-> op, ticket |-> t, seen |-> tickets[t].status, second |-> second,
                   net |-> net]
  <1>4. CASE /\ tickets[t].status \in accepted
             /\ pc' = [pc EXCEPT ![r] = "flush"]
             /\ task' = [task EXCEPT ![r] = k]
             /\ contested' = IF \E q \in Requests : pc[q] \in Working /\ task[q].ticket = t
                             THEN contested \cup {t} ELSE contested
    <2>1. tickets[t] \in TicketRow /\ tickets[t].first \in Nat
      BY <1>1 DEF TypeOK, TicketRow
    <2>2. net \in Nat \cup {Null} /\ second \in Nat \cup {Null}
      BY <2>1, DistanceType
    <2>3. k \in Task
      BY <1>4, <2>1, <2>2 DEF Task, Statuses
    <2>4. Fit(k, tickets[t])
      BY <1>4 DEF Fit, Final
    <2>5. k.ticket = t /\ k.seen = tickets[t].status
      OBVIOUS
    <2> HIDE DEF k
    <2>6. /\ pc'[r] = "flush" /\ \A q \in Requests \ {r} : pc'[q] = pc[q]
          /\ task'[r] = k /\ \A q \in Requests \ {r} : task'[q] = task[q]
      BY <1>1, <1>4 DEF TypeOK
    <2>7. TypeOK'
      <3>1. /\ task' \in [Requests -> Task]
            /\ pc' \in [Requests -> {"idle", "flush", "commit", "done", "refused", "aborted"}]
        BY <1>1, <1>4, <2>3 DEF TypeOK
      <3> QED
        BY <1>0, <1>1, <1>4, <3>1 DEF TypeOK
    <2>8. TaskFits'
      BY <1>0, <1>1, <2>4, <2>5, <2>6 DEF TaskFits
    <2>9. /\ contested \subseteq contested'
          /\ \A q \in Requests : WorksOn(q, t) => t \in contested'
      BY <1>4 DEF WorksOn
    <2>10. \A q \in Requests, u \in Tickets :
             WorksOn(q, u)' <=> (q = r /\ u = t) \/ (q # r /\ WorksOn(q, u))
      BY <2>5, <2>6 DEF WorksOn, Working
    <2>11. ReadsAreCurrent'
      <3> SUFFICES ASSUME NEW u \in Tickets, u \notin contested', NEW q \in Requests, WorksOn(q, u)'
                   PROVE  /\ tickets[u].status = task'[q].seen
                          /\ \A p \in Requests : WorksOn(p, u)' => p = q
        BY <1>0 DEF ReadsAreCurrent
      <3>1. CASE u = t
        <4>1. \A p \in Requests : WorksOn(p, t)' => p = r
          BY <2>9, <2>10, <3>1
        <4> QED
          BY <2>5, <2>6, <3>1, <4>1
      <3>2. CASE u # t
        <4>1. q # r /\ WorksOn(q, u) /\ task'[q] = task[q] /\ u \notin contested
          BY <2>6, <2>9, <2>10, <3>2
        <4> QED
          BY <1>1, <2>10, <3>2, <4>1 DEF ReadsAreCurrent
      <3> QED
        BY <3>1, <3>2
    <2> QED
      BY <1>2, <2>7, <2>8, <2>11 DEF IInv
  <1> QED
    BY <1>3, <1>4 DEF Load

\* Steps that leave the tickets and their audit trails alone.
LEMMA FlushOrAbortKeepsIInv ==
  ASSUME IInv, NEW r \in Requests, Flush(r) \/ Abort(r)
  PROVE  IInv'
  <1>1. TypeOK /\ TaskFits /\ OpenUnweighed /\ ReadsAreCurrent /\ WeighmentsAgree /\ TrailAgrees
    BY DEF IInv
  <1>2. /\ pc[r] \in Working /\ UNCHANGED <<tickets, audit, task, contested>>
        /\ pc' = [pc EXCEPT ![r] = "commit"] \/ pc' = [pc EXCEPT ![r] = "aborted"]
    BY DEF Flush, Abort, Working
  <1>3. \A q \in Requests : pc'[q] \in Working => pc[q] \in Working
    BY <1>1, <1>2 DEF TypeOK
  <1>4. TypeOK'
    BY <1>1, <1>2 DEF TypeOK
  <1>5. TaskFits'
    BY <1>1, <1>2, <1>3 DEF TaskFits
  <1>6. OpenUnweighed' /\ WeighmentsAgree' /\ TrailAgrees'
    BY <1>1, <1>2 DEF OpenUnweighed, WeighmentsAgree, TrailAgrees
  <1>7. ReadsAreCurrent'
    BY <1>1, <1>2, <1>3 DEF ReadsAreCurrent, WorksOn
  <1> QED
    BY <1>4, <1>5, <1>6, <1>7 DEF IInv

\* The tasks of the others still fit, and on a ticket never contested there are none,
\* when a request ends and its ticket keeps its first weight and is final.
LEMMA EndKeepsTasks ==
  ASSUME TypeOK, TaskFits, ReadsAreCurrent, NEW r \in Requests, NEW t \in Tickets,
         pc[r] \in Working, task[r].ticket = t, pc' = [pc EXCEPT ![r] = "done"],
         UNCHANGED <<task, contested>>,
         tickets'[t].first = tickets[t].first, tickets'[t].status \in Final,
         \A u \in Tickets \ {t} : tickets'[u] = tickets[u]
  PROVE  TaskFits' /\ ReadsAreCurrent'
  <1>1. pc'[r] = "done" /\ \A q \in Requests \ {r} : pc'[q] = pc[q]
    BY DEF TypeOK
  <1>2. \A q \in Requests : pc'[q] \in Working => q # r /\ pc[q] \in Working
    BY <1>1 DEF Working
  <1>3. TaskFits'
    <2> SUFFICES ASSUME NEW q \in Requests, pc'[q] \in Working
                 PROVE  task[q].ticket \in Tickets /\ Fit(task[q], tickets'[task[q].ticket])
      BY DEF TaskFits
    <2>1. task[q].ticket \in Tickets /\ Fit(task[q], tickets[task[q].ticket])
      BY <1>2 DEF TaskFits
    <2>2. CASE task[q].ticket = t
      BY <2>1, <2>2, FitCarries DEF Final
    <2>3. CASE task[q].ticket # t
      BY <2>1, <2>3
    <2> QED
      BY <2>2, <2>3
  <1>4. ReadsAreCurrent'
    <2> SUFFICES ASSUME NEW u \in Tickets \ contested, NEW q \in Requests, WorksOn(q, u)'
                 PROVE  /\ tickets'[u].status = task[q].seen
                        /\ \A p \in Requests : WorksOn(p, u)' => p = q
      BY DEF ReadsAreCurrent
    <2>1. q # r /\ WorksOn(q, u) /\ \A p \in Requests : WorksOn(p, u)' => WorksOn(p, u)
      BY <1>2 DEF WorksOn
    <2>2. u # t
      BY <2>1 DEF ReadsAreCurrent, WorksOn
    <2> QED
      BY <2>1, <2>2 DEF ReadsAreCurrent
  <1> QED
    BY <1>3, <1>4

\* A completion writes the weights of one weighing, whatever became of the status.
LEMMA CompletionKeepsIInv ==
  ASSUME IInv, NEW r \in Requests, CommitCompletion(r)
  PROVE  IInv'
  <1> DEFINE t == task[r].ticket
             second == task[r].second
             net == task[r].net
             e == Event("COMPLETED", net)
  <1>1. TypeOK /\ TaskFits /\ OpenUnweighed /\ ReadsAreCurrent /\ WeighmentsAgree /\ TrailAgrees
    BY DEF IInv
  <1>2. /\ pc[r] = "commit" /\ task[r].op = "complete"
        /\ tickets' = [tickets EXCEPT ![t].status = "COMPLETED", ![t].second = Store(second),
                                      ![t].net = Store(net)]
        /\ audit' = [audit EXCEPT ![t] = Append(@, e)]
        /\ pc' = [pc EXCEPT ![r] = "done"] /\ UNCHANGED <<task, contested>>
    BY DEF CommitCompletion
  <1>3. t \in Tickets /\ Fit(task[r], tickets[t])
    BY <1>1, <1>2 DEF TaskFits, Working
  <1>4. tickets[t] \in TicketRow /\ tickets[t].first \in Nat
    BY <1>1, <1>3 DEF TypeOK, TicketRow
  <1>5. /\ second \in Nat /\ net \in Nat /\ tickets[t].status # "NONE"
        /\ net = Distance(tickets[t].first, second)
    BY <1>2, <1>3, <1>4, DistanceType DEF Fit
  <1>6. e \in AuditEvent /\ e.action = "COMPLETED" /\ e.net = net
    BY <1>5, EventType
  <1>7. task[r].ticket = t
    OBVIOUS
  <1>8. Store(second) \in Nat /\ Store(net) \in Nat /\ Store(second) # Null /\ Store(net) # Null
    BY <1>5, StoreRounds, WeightsAssumption
  <1> HIDE DEF t, second, net, e
  <1>9. /\ tickets'[t] = [tickets[t] EXCEPT !.status = "COMPLETED", !.second = Store(second),
                                            !.net = Store(net)]
        /\ \A u \in Tickets \ {t} : tickets'[u] = tickets[u]
    BY <1>1, <1>2, <1>3 DEF TypeOK
  <1>10. /\ tickets'[t].status = "COMPLETED" /\ tickets'[t].first = tickets[t].first
         /\ tickets'[t].second = Store(second) /\ tickets'[t].net = Store(net)
         /\ tickets'[t] \in TicketRow
    BY <1>4, <1>8, <1>9 DEF TicketRow, Statuses
  <1>11. /\ audit' \in [Tickets -> Seq(AuditEvent)] /\ audit[t] \in Seq(AuditEvent)
         /\ audit'[t] = Append(audit[t], e)
         /\ Actions(audit'[t]) = Actions(audit[t]) \cup {"COMPLETED"}
         /\ \A u \in Tickets \ {t} : audit'[u] = audit[u]
    BY <1>1, <1>2, <1>3, <1>6, TrailStep
  <1>12. TypeOK'
    <2>1. /\ tickets' \in [Tickets -> TicketRow]
          /\ pc' \in [Requests -> {"idle", "flush", "commit", "done", "refused", "aborted"}]
      BY <1>1, <1>2, <1>10 DEF TypeOK
    <2> QED
      BY <1>1, <1>2, <1>11, <2>1 DEF TypeOK
  <1>13. TaskFits' /\ ReadsAreCurrent'
    <2>1. pc[r] \in Working /\ tickets'[t].status \in Final
      BY <1>2, <1>10 DEF Working, Final
    <2> QED
      BY <1>1, <1>2, <1>3, <1>7, <1>9, <1>10, <2>1, EndKeepsTasks
  <1>14. OpenUnweighed'
    BY <1>1, <1>9, <1>10 DEF OpenUnweighed, Final
  <1>15. WeighmentsAgree'
    <2>1. Distance(Store(net), Distance(tickets[t].first, Store(second))) <= 4
      BY <1>4, <1>5, RoundedNet
    <2>2. LET k == tickets'[t] IN
            /\ (k.second = Null) <=> (k.net = Null)
            /\ k.net # Null => Distance(k.net, Distance(k.first, k.second)) <= 4
      BY <1>8, <1>10, <2>1
    <2> QED
      BY <1>1, <1>9, <2>2 DEF WeighmentsAgree
  <1>16. TrailAgrees'
    <2>1. Actions(audit[t]) # {}
      BY <1>1, <1>3, <1>5 DEF TrailAgrees, Audited
    <2>2. Audited(tickets'[t].status, audit'[t])
      BY <1>10, <1>11, <2>1 DEF Audited, Final
    <2>3. Weighed(tickets'[t].net, audit'[t])
      BY <1>6, <1>10, <1>11, WeighedOfAppend
    <2> QED
      BY <1>1, <1>9, <1>11, <2>2, <2>3 DEF TrailAgrees
  <1> QED
    BY <1>12, <1>13, <1>14, <1>15, <1>16 DEF IInv

\* A cancellation writes the status at most.
LEMMA CancellationKeepsIInv ==
  ASSUME IInv, NEW r \in Requests, CommitCancellation(r)
  PROVE  IInv'
  <1> DEFINE t == task[r].ticket
             e == Event("CANCELLED", Null)
  <1>1. TypeOK /\ TaskFits /\ OpenUnweighed /\ ReadsAreCurrent /\ WeighmentsAgree /\ TrailAgrees
    BY DEF IInv
  <1>2. /\ pc[r] = "commit" /\ task[r].op = "cancel"
        /\ tickets' = IF Writes(r) THEN [tickets EXCEPT ![t].status = "CANCELLED"] ELSE tickets
        /\ audit' = [audit EXCEPT ![t] = Append(@, e)]
        /\ pc' = [pc EXCEPT ![r] = "done"] /\ UNCHANGED <<task, contested>>
    BY DEF CommitCancellation
  <1>3. t \in Tickets /\ Fit(task[r], tickets[t])
    BY <1>1, <1>2 DEF TaskFits, Working
  <1>4. tickets[t] \in TicketRow
    BY <1>1, <1>3 DEF TypeOK
  <1>5. /\ tickets[t].status # "NONE"
        /\ task[r].seen = "CANCELLED" => tickets[t].status \in Final
        /\ task[r].seen \in {"OPEN", "CANCELLED"}
        /\ Writes(r) <=> task[r].seen = "OPEN"
    BY <1>2, <1>3 DEF Fit, Writes
  <1>6. e \in AuditEvent /\ e.action = "CANCELLED"
    BY EventType
  <1>7. task[r].ticket = t
    OBVIOUS
  <1> HIDE DEF t, e
  <1>8. /\ tickets'[t] = IF Writes(r) THEN [tickets[t] EXCEPT !.status = "CANCELLED"] ELSE tickets[t]
        /\ \A u \in Tickets \ {t} : tickets'[u] = tickets[u]
    BY <1>1, <1>2, <1>3 DEF TypeOK
  <1>9. /\ tickets'[t] \in TicketRow
        /\ tickets'[t].status \in Final
        /\ tickets'[t].status \in {"CANCELLED", tickets[t].status}
        /\ tickets'[t].first = tickets[t].first
        /\ tickets'[t].second = tickets[t].second /\ tickets'[t].net = tickets[t].net
    <2>1. CASE Writes(r)
      BY <1>4, <1>8, <2>1 DEF TicketRow, Statuses, Final
    <2>2. CASE ~Writes(r)
      BY <1>4, <1>5, <1>8, <2>2
    <2> QED
      BY <2>1, <2>2
  <1>10. /\ audit' \in [Tickets -> Seq(AuditEvent)] /\ audit[t] \in Seq(AuditEvent)
         /\ audit'[t] = Append(audit[t], e)
         /\ Actions(audit'[t]) = Actions(audit[t]) \cup {"CANCELLED"}
         /\ \A u \in Tickets \ {t} : audit'[u] = audit[u]
    BY <1>1, <1>2, <1>3, <1>6, TrailStep
  <1>11. TypeOK'
    <2>1. tickets' \in [Tickets -> TicketRow]
      BY <1>1, <1>2, <1>9 DEF TypeOK
    <2>2. pc' \in [Requests -> {"idle", "flush", "commit", "done", "refused", "aborted"}]
      BY <1>1, <1>2 DEF TypeOK
    <2> QED
      BY <1>1, <1>2, <1>10, <2>1, <2>2 DEF TypeOK
  <1>12. TaskFits' /\ ReadsAreCurrent'
    <2>1. pc[r] \in Working
      BY <1>2 DEF Working
    <2> QED
      BY <1>1, <1>2, <1>3, <1>7, <1>8, <1>9, <2>1, EndKeepsTasks
  <1>13. OpenUnweighed'
    BY <1>1, <1>8, <1>9 DEF OpenUnweighed
  <1>14. WeighmentsAgree'
    BY <1>1, <1>8, <1>9 DEF WeighmentsAgree
  <1>15. TrailAgrees'
    <2>1. Audited(tickets[t].status, audit[t]) /\ Weighed(tickets[t].net, audit[t])
      BY <1>1, <1>3 DEF TrailAgrees
    <2>2. Audited(tickets'[t].status, audit'[t])
      BY <1>5, <1>9, <1>10, <2>1 DEF Audited, Final
    <2>3. Weighed(tickets'[t].net, audit'[t])
      BY <1>6, <1>9, <1>10, <2>1, WeighedOfAppend
    <2> QED
      BY <1>1, <1>8, <1>10, <2>2, <2>3 DEF TrailAgrees
  <1> QED
    BY <1>11, <1>12, <1>13, <1>14, <1>15 DEF IInv

LEMMA NextKeepsIInv == IInv /\ [Next]_vars => IInv'
  <1> SUFFICES ASSUME IInv, [Next]_vars PROVE IInv'
    OBVIOUS
  <1>1. CASE UNCHANGED vars
    <2>1. TypeOK' /\ TaskFits' /\ OpenUnweighed' /\ ReadsAreCurrent'
      BY <1>1 DEF vars, IInv, TypeOK, TaskFits, OpenUnweighed, ReadsAreCurrent, WorksOn
    <2>2. WeighmentsAgree' /\ TrailAgrees'
      BY <1>1 DEF vars, IInv, WeighmentsAgree, TrailAgrees
    <2> QED
      BY <2>1, <2>2 DEF IInv
  <1>2. ASSUME NEW t \in Tickets, NEW w \in Weights, CreateTicket(t, w) PROVE IInv'
    BY <1>2, CreateKeepsIInv
  <1>3. ASSUME NEW r \in Requests, NEW t \in Tickets, NEW w \in Weights, LoadToComplete(r, t, w)
        PROVE  IInv'
    BY <1>3, LoadKeepsIInv, WeightsAssumption DEF LoadToComplete
  <1>4. ASSUME NEW r \in Requests, NEW t \in Tickets, LoadToCancel(r, t) PROVE IInv'
    BY <1>4, LoadKeepsIInv DEF LoadToCancel
  <1>5. ASSUME NEW r \in Requests, Serve(r) \/ Abort(r) PROVE IInv'
    BY <1>5, FlushOrAbortKeepsIInv, CompletionKeepsIInv, CancellationKeepsIInv DEF Serve
  <1> QED
    BY <1>1, <1>2, <1>3, <1>4, <1>5 DEF Next

LEMMA IInvAlways == Spec => []IInv
  BY InitIInv, NextKeepsIInv, PTL DEF Spec

--------------------------------------------------------------------------------
\* Every reachable row, audit trail and request is well typed.
THEOREM TypeCorrect == Spec => []TypeOK
  <1>1. IInv => TypeOK
    BY DEF IInv
  <1> QED
    BY <1>1, IInvAlways, PTL

\* complete_ticket() and cancel_ticket(), racing in any way, leave a second and a net
\* weight of one weighing or none, for weights of any size and with any rounding.
THEOREM WeightsBelongTogether == Spec => []WeighmentsAgree
  <1>1. IInv => WeighmentsAgree
    BY DEF IInv
  <1> QED
    BY <1>1, IInvAlways, PTL

\* The status and the audit trail of a ticket agree, however its requests race.
THEOREM StatusIsInTrail == Spec => []StatusIsAudited
  <1>1. IInv => StatusIsAudited
    BY DEF IInv, TrailAgrees, Audited, Actions, Final, StatusIsAudited
  <1> QED
    BY <1>1, IInvAlways, PTL

\* However the requests race, the net weight a ticket shows is the one the last completion
\* event of its trail recorded, rounded by the column, and without one it shows none.
THEOREM NetIsInTrail == Spec => []NetWeightIsAudited
  <1>1. IInv => NetWeightIsAudited
    <2> SUFFICES ASSUME IInv, NEW t \in Tickets
                 PROVE  tickets[t].net = IF Completions(t) = {} THEN Null
                                         ELSE Store(audit[t][Max(Completions(t))].net)
      BY DEF NetWeightIsAudited
    <2>1. Weighed(tickets[t].net, audit[t]) /\ audit[t] \in Seq(AuditEvent)
      BY DEF IInv, TrailAgrees, TypeOK
    <2>2. Completions(t) \subseteq Nat
      BY <2>1 DEF Completions
    <2>3. CASE tickets[t].net = Null /\ "COMPLETED" \notin Actions(audit[t])
      BY <2>3 DEF Completions, Actions
    <2>4. ASSUME NEW i \in DOMAIN audit[t], audit[t][i].action = "COMPLETED",
                 tickets[t].net = Store(audit[t][i].net),
                 \A j \in DOMAIN audit[t] : audit[t][j].action = "COMPLETED" => j <= i
          PROVE  tickets[t].net = Store(audit[t][Max(Completions(t))].net) /\ Completions(t) # {}
      <3>1. i \in Completions(t) /\ \A j \in Completions(t) : i >= j
        BY <2>1, <2>4 DEF Completions
      <3>2. \A j \in Completions(t) : (\A k \in Completions(t) : j >= k) => j = i
        BY <2>2, <3>1
      <3>3. Max(Completions(t)) = i
        BY <3>1, <3>2 DEF Max
      <3> QED
        BY <2>4, <3>1, <3>3
    <2> QED
      BY <2>1, <2>3, <2>4 DEF Weighed
  <1> QED
    BY <1>1, IInvAlways, PTL

\* The checks of get_ticket() and of the services keep every ticket that two requests
\* never worked on at one time to the documented life, with one net weight.
THEOREM UncontestedLife == Spec => LifeUnlessContested
  <1> DEFINE Kept == \A t \in Tickets \ contested' :
               /\ tickets'[t].status # tickets[t].status =>
                    <<tickets[t].status, tickets'[t].status>> \in Moves
               /\ tickets[t].net # Null => tickets'[t].net = tickets[t].net
  <1>1. IInv /\ [Next]_vars => [Kept]_vars
    <2> SUFFICES ASSUME IInv, Next PROVE Kept
      OBVIOUS
    <2>0. TypeOK /\ TaskFits /\ OpenUnweighed /\ ReadsAreCurrent
      BY DEF IInv
    <2>1. ASSUME NEW u \in Tickets, NEW w \in Weights, CreateTicket(u, w) PROVE Kept
      <3>1. /\ tickets[u].status = "NONE" /\ tickets'[u].status = "OPEN"
            /\ tickets'[u].net = tickets[u].net
            /\ \A t \in Tickets \ {u} : tickets'[t] = tickets[t]
        BY <2>0, <2>1 DEF CreateTicket, TypeOK, TicketRow
      <3> QED
        BY <3>1 DEF Moves
    <2>2. ASSUME NEW r \in Requests, CommitCompletion(r) PROVE Kept
      <3>1. task[r].ticket \in Tickets /\ task[r].seen = "OPEN" /\ WorksOn(r, task[r].ticket)
        BY <2>0, <2>2 DEF CommitCompletion, TaskFits, Fit, Working, WorksOn
      <3>2. task[r].ticket \notin contested =>
              tickets[task[r].ticket].status = "OPEN" /\ tickets[task[r].ticket].net = Null
        BY <2>0, <3>1 DEF ReadsAreCurrent, OpenUnweighed, Final
      <3>3. /\ contested' = contested /\ tickets'[task[r].ticket].status = "COMPLETED"
            /\ \A t \in Tickets \ {task[r].ticket} : tickets'[t] = tickets[t]
        BY <2>0, <2>2, <3>1 DEF CommitCompletion, TypeOK, TicketRow
      <3> QED
        BY <3>2, <3>3 DEF Moves
    <2>3. ASSUME NEW r \in Requests, CommitCancellation(r) PROVE Kept
      <3>1. /\ task[r].ticket \in Tickets /\ task[r].seen \in {"OPEN", "CANCELLED"}
            /\ WorksOn(r, task[r].ticket) /\ (Writes(r) <=> task[r].seen = "OPEN")
        BY <2>0, <2>3 DEF CommitCancellation, TaskFits, Fit, Working, WorksOn, Writes
      <3>2. task[r].ticket \notin contested => tickets[task[r].ticket].status = task[r].seen
        BY <2>0, <3>1 DEF ReadsAreCurrent
      <3>3. /\ contested' = contested /\ tickets'[task[r].ticket].net = tickets[task[r].ticket].net
            /\ Writes(r) => tickets'[task[r].ticket].status = "CANCELLED"
            /\ ~Writes(r) => tickets' = tickets
            /\ \A t \in Tickets \ {task[r].ticket} : tickets'[t] = tickets[t]
        BY <2>0, <2>3, <3>1 DEF CommitCancellation, TypeOK, TicketRow
      <3> QED
        BY <3>1, <3>2, <3>3 DEF Moves
    <2> QED
      BY <2>1, <2>2, <2>3 DEF Next, Serve, LoadToComplete, LoadToCancel, Load, Flush, Abort
  <1> QED
    BY <1>1, IInvAlways, PTL DEF Spec, LifeUnlessContested
================================================================================
