------------------------ MODULE DocumentNumberingProofs ------------------------
(***************************************************************************)
(* What holds of DocumentNumbering for every set of requests, units and    *)
(* fiscal years.  The inductive invariant says who owns a counter row and  *)
(* how a request's number relates to it at every point of next_number().   *)
(***************************************************************************)
EXTENDS DocumentNumbering, TLAPS

Holding(r) == pc[r] \in {"updateCounter", "commitCounter"}

\* A request that has not reached its INSERT of the counter owns no row, and one
\* that has not reached its UPDATE holds no number.
NothingEarly ==
  \A r \in Requests :
    /\ pc[r] \in {"idle", "lookUp", "insertCounter"} => rowState[r] = "absent"
    /\ pc[r] \in {"idle", "lookUp", "insertCounter", "updateCounter"} => num[r] = 0
    /\ pc[r] \in {"lookUp", "insertCounter"} => scope[r] \in Scopes

\* The row a request uses is of its scope; it is committed, or the request's own.
RowOfScope ==
  \A r \in Requests : Holding(r) \/ Issued(r) =>
    /\ scope[r] \in Scopes
    /\ row[r] \in Requests
    /\ scope[row[r]] = scope[r]
    /\ \/ rowState[row[r]] = "committed"
       \/ Holding(r) /\ row[r] = r /\ rowState[r] = "pending"

\* An uncommitted row belongs to the transaction that inserted it, and counts 0.
PendingRows ==
  \A k \in Requests :
    /\ rowState[k] = "pending" => Holding(k) /\ row[k] = k
    /\ rowState[k] # "committed" => last[k] = 0

\* The row lock: one transaction at a time is between UPDATE and COMMIT, and its
\* number is the next one of the row.
LockedRows ==
  \A r \in Requests : pc[r] = "commitCounter" =>
    /\ num[r] = last[row[r]] + 1
    /\ \A q \in Requests : pc[q] = "commitCounter" /\ row[q] = row[r] => q = r

\* Numbers of one row are distinct and bounded by its counter.
RowNumbers ==
  \A r \in Requests : Issued(r) =>
    /\ num[r] \in 1..last[row[r]]
    /\ \A q \in Requests : Issued(q) /\ row[q] = row[r] /\ num[q] = num[r] => q = r

\* Every value a counter went through is some request's number.
NumbersCoverCounter ==
  \A k \in Requests : \A n \in 1..last[k] :
    \E r \in Requests : Issued(r) /\ row[r] = k /\ scope[r] = scope[k] /\ num[r] = n

IInv ==
  /\ TypeOK
  /\ NothingEarly
  /\ RowOfScope
  /\ PendingRows
  /\ LockedRows
  /\ RowNumbers
  /\ NumbersCoverCounter
  /\ OneCounterPerScope

--------------------------------------------------------------------------------
LEMMA InitIInv == Init => IInv
  BY DEF Init, IInv, TypeOK, NothingEarly, RowOfScope, PendingRows, LockedRows,
         RowNumbers, NumbersCoverCounter, OneCounterPerScope, Holding, Issued

\* A request that has just read its fiscal year owns no row and holds no number.
LEMMA BeginKeepsIInv ==
  ASSUME IInv, NEW r \in Requests, NEW type \in Types, Begin(r, type)
  PROVE  IInv'
  <1> USE DEF IInv, Holding, Issued, Running, Answered, Types
  <1>1. TypeOK'
    BY SMT DEF TypeOK, Begin, Scopes
  <1>2. NothingEarly'
    BY SMT DEF TypeOK, NothingEarly, Begin, Scopes
  <1>3. RowOfScope'
    BY SMT DEF TypeOK, RowOfScope, NothingEarly, Begin
  <1>4. PendingRows'
    BY SMT DEF TypeOK, PendingRows, Begin
  <1>5. LockedRows'
    BY SMT DEF TypeOK, LockedRows, Begin
  <1>6. RowNumbers'
    BY SMT DEF TypeOK, RowNumbers, Begin
  <1>7. NumbersCoverCounter'
    BY SMT DEF TypeOK, NumbersCoverCounter, NothingEarly, PendingRows, Begin
  <1>8. OneCounterPerScope'
    BY SMT DEF TypeOK, OneCounterPerScope, NothingEarly, Begin
  <1> QED
    BY <1>1, <1>2, <1>3, <1>4, <1>5, <1>6, <1>7, <1>8 DEF IInv

\* The row a SELECT returns is committed and of the request's scope.
LEMMA LookUpKeepsIInv ==
  ASSUME IInv, NEW r \in Requests, LookUp(r)
  PROVE  IInv'
  <1> USE DEF IInv, Holding, Issued, Running, Answered, Types
  <1>1. TypeOK'
    BY SMT DEF TypeOK, LookUp
  <1>2. NothingEarly'
    BY SMT DEF TypeOK, NothingEarly, LookUp
  <1>3. RowOfScope'
    BY SMT DEF TypeOK, RowOfScope, NothingEarly, LookUp, Counters
  <1>4. PendingRows'
    BY SMT DEF TypeOK, PendingRows, LookUp
  <1>5. LockedRows'
    BY SMT DEF TypeOK, LockedRows, LookUp
  <1>6. RowNumbers'
    BY SMT DEF TypeOK, RowNumbers, NothingEarly, LookUp
  <1>7. NumbersCoverCounter'
    BY SMT DEF TypeOK, NumbersCoverCounter, NothingEarly, LookUp
  <1>8. OneCounterPerScope'
    BY SMT DEF OneCounterPerScope, LookUp
  <1> QED
    BY <1>1, <1>2, <1>3, <1>4, <1>5, <1>6, <1>7, <1>8 DEF IInv

\* An INSERT that is not refused is the first row of its scope.
LEMMA InsertCounterKeepsIInv ==
  ASSUME IInv, NEW r \in Requests, InsertCounter(r)
  PROVE  IInv'
  <1> USE DEF IInv, Holding, Issued, Running, Answered, Types
  <1>1. TypeOK'
    BY SMT DEF TypeOK, InsertCounter
  <1>2. NothingEarly'
    BY SMT DEF TypeOK, NothingEarly, InsertCounter
  <1>3. RowOfScope'
    BY SMT DEF TypeOK, RowOfScope, NothingEarly, InsertCounter
  <1>4. PendingRows'
    BY SMT DEF TypeOK, PendingRows, NothingEarly, InsertCounter
  <1>5. LockedRows'
    BY SMT DEF TypeOK, LockedRows, InsertCounter
  <1>6. RowNumbers'
    BY SMT DEF TypeOK, RowNumbers, NothingEarly, InsertCounter
  <1>7. NumbersCoverCounter'
    BY SMT DEF TypeOK, NumbersCoverCounter, NothingEarly, InsertCounter
  <1>8. OneCounterPerScope'
    BY SMT DEF TypeOK, OneCounterPerScope, InsertCounter, Waits, KeyTaken
  <1> QED
    BY <1>1, <1>2, <1>3, <1>4, <1>5, <1>6, <1>7, <1>8 DEF IInv

\* The UPDATE takes a lock nobody holds.
LEMMA UpdateCounterKeepsIInv ==
  ASSUME IInv, NEW r \in Requests, UpdateCounter(r)
  PROVE  IInv'
  <1> USE DEF IInv, Holding, Issued, Running, Answered, Types
  <1>1. TypeOK'
    BY SMT DEF TypeOK, RowOfScope, UpdateCounter
  <1>2. NothingEarly'
    BY SMT DEF TypeOK, NothingEarly, UpdateCounter
  <1>3. RowOfScope'
    BY SMT DEF RowOfScope, UpdateCounter
  <1>4. PendingRows'
    BY SMT DEF PendingRows, UpdateCounter
  <1>5. LockedRows'
    BY SMT DEF TypeOK, LockedRows, UpdateCounter, Waits, RowLocked
  <1>6. RowNumbers'
    BY SMT DEF TypeOK, RowNumbers, UpdateCounter
  <1>7. NumbersCoverCounter'
    BY SMT DEF NumbersCoverCounter, NothingEarly, UpdateCounter
  <1>8. OneCounterPerScope'
    BY SMT DEF OneCounterPerScope, UpdateCounter
  <1> QED
    BY <1>1, <1>2, <1>3, <1>4, <1>5, <1>6, <1>7, <1>8 DEF IInv

\* The COMMIT makes the number the row's last one.
LEMMA CommitCounterKeepsIInv ==
  ASSUME IInv, NEW r \in Requests, CommitCounter(r)
  PROVE  IInv'
  <1> USE DEF IInv, Holding, Issued, Running, Answered, Types
  <1>1. TypeOK'
    BY SMT DEF TypeOK, RowOfScope, CommitCounter
  <1>2. NothingEarly'
    BY SMT DEF NothingEarly, RowOfScope, CommitCounter
  <1>3. RowOfScope'
    BY SMT DEF TypeOK, RowOfScope, CommitCounter
  <1>4. PendingRows'
    BY SMT DEF TypeOK, PendingRows, CommitCounter
  <1>5. LockedRows'
    BY SMT DEF TypeOK, LockedRows, CommitCounter
  <1>6. RowNumbers'
    BY SMT DEF TypeOK, RowNumbers, RowOfScope, LockedRows, CommitCounter
  <1>7. NumbersCoverCounter'
    <2> SUFFICES ASSUME NEW k \in Requests, NEW n \in 1..last'[k]
                 PROVE  \E q \in Requests :
                          Issued(q)' /\ row'[q] = k /\ scope'[q] = scope'[k] /\ num'[q] = n
      BY DEF NumbersCoverCounter
    <2> USE DEF TypeOK, RowOfScope, LockedRows, CommitCounter
    <2>1. CASE k = row[r] /\ n = num[r]
      <3>1. Issued(r)' /\ row'[r] = k /\ scope'[r] = scope'[k] /\ num'[r] = n
        BY <2>1
      <3> QED
        BY <3>1
    <2>2. CASE ~(k = row[r] /\ n = num[r])
      <3>1. n \in 1..last[k]
        BY <2>2
      <3>2. PICK q \in Requests : Issued(q) /\ row[q] = k /\ scope[q] = scope[k] /\ num[q] = n
        BY <3>1 DEF NumbersCoverCounter
      <3>3. Issued(q)' /\ row'[q] = k /\ scope'[q] = scope'[k] /\ num'[q] = n
        BY <3>2
      <3> QED
        BY <3>3
    <2> QED
      BY <2>1, <2>2
  <1>8. OneCounterPerScope'
    BY SMT DEF OneCounterPerScope, RowOfScope, CommitCounter
  <1> QED
    BY <1>1, <1>2, <1>3, <1>4, <1>5, <1>6, <1>7, <1>8 DEF IInv

\* Documents do not touch the counters.
LEMMA InsertDocumentKeepsIInv ==
  ASSUME IInv, NEW r \in Requests, NEW type \in Types, InsertDocument(r, type)
  PROVE  IInv'
  <1> USE DEF IInv, Holding, Issued, Running, Answered, Types
  <1>1. TypeOK'
    BY SMT DEF TypeOK, InsertDocument
  <1>2. NothingEarly'
    BY SMT DEF NothingEarly, InsertDocument
  <1>3. RowOfScope'
    BY SMT DEF RowOfScope, InsertDocument
  <1>4. PendingRows'
    BY SMT DEF PendingRows, InsertDocument
  <1>5. LockedRows'
    BY SMT DEF LockedRows, InsertDocument
  <1>6. RowNumbers'
    BY SMT DEF RowNumbers, InsertDocument
  <1>7. NumbersCoverCounter'
    BY SMT DEF NumbersCoverCounter, InsertDocument
  <1>8. OneCounterPerScope'
    BY SMT DEF OneCounterPerScope, InsertDocument
  <1> QED
    BY <1>1, <1>2, <1>3, <1>4, <1>5, <1>6, <1>7, <1>8 DEF IInv

\* Nor does their COMMIT.
LEMMA CommitDocumentKeepsIInv ==
  ASSUME IInv, NEW r \in Requests, CommitDocument(r)
  PROVE  IInv'
  <1> USE DEF IInv, Holding, Issued, Running, Answered, Types
  <1>1. TypeOK'
    BY SMT DEF TypeOK, CommitDocument
  <1>2. NothingEarly'
    BY SMT DEF NothingEarly, CommitDocument
  <1>3. RowOfScope'
    BY SMT DEF RowOfScope, CommitDocument
  <1>4. PendingRows'
    BY SMT DEF PendingRows, CommitDocument
  <1>5. LockedRows'
    BY SMT DEF LockedRows, CommitDocument
  <1>6. RowNumbers'
    BY SMT DEF RowNumbers, CommitDocument
  <1>7. NumbersCoverCounter'
    BY SMT DEF NumbersCoverCounter, CommitDocument
  <1>8. OneCounterPerScope'
    BY SMT DEF OneCounterPerScope, CommitDocument
  <1> QED
    BY <1>1, <1>2, <1>3, <1>4, <1>5, <1>6, <1>7, <1>8 DEF IInv

\* A rollback forgets an uncommitted row with its number, and nothing else.
LEMMA AbortKeepsIInv ==
  ASSUME IInv, NEW r \in Requests, Abort(r)
  PROVE  IInv'
  <1> USE DEF IInv, Holding, Issued, Running, Answered, Types
  <1>1. TypeOK'
    BY SMT DEF TypeOK, Abort
  <1>2. NothingEarly'
    BY SMT DEF NothingEarly, Abort
  <1>3. RowOfScope'
    BY SMT DEF TypeOK, RowOfScope, PendingRows, RowNumbers, Abort
  <1>4. PendingRows'
    BY SMT DEF TypeOK, PendingRows, Abort
  <1>5. LockedRows'
    BY SMT DEF TypeOK, LockedRows, Abort
  <1>6. RowNumbers'
    BY SMT DEF TypeOK, RowNumbers, Abort
  <1>7. NumbersCoverCounter'
    BY SMT DEF NumbersCoverCounter, Abort
  <1>8. OneCounterPerScope'
    BY SMT DEF OneCounterPerScope, Abort
  <1> QED
    BY <1>1, <1>2, <1>3, <1>4, <1>5, <1>6, <1>7, <1>8 DEF IInv

\* The invariant is inductive: one case per action, and the external change of
\* the active fiscal year, which no counter depends on.
LEMMA NextKeepsIInv == IInv /\ [Next]_vars => IInv'
  <1> SUFFICES ASSUME IInv, [Next]_vars PROVE IInv'
    OBVIOUS
  <1>1. ASSUME NEW r \in Requests, CreateTicket(r) \/ CreateEntry(r) PROVE IInv'
    BY <1>1, BeginKeepsIInv DEF CreateTicket, CreateEntry, Types
  <1>2. ASSUME NEW r \in Requests, Serve(r) PROVE IInv'
    BY <1>2, LookUpKeepsIInv, InsertCounterKeepsIInv, UpdateCounterKeepsIInv,
       CommitCounterKeepsIInv, InsertDocumentKeepsIInv, CommitDocumentKeepsIInv
       DEF Serve, InsertTicket, InsertEntry, Types
  <1>3. ASSUME NEW r \in Requests, Abort(r) PROVE IInv'
    BY <1>3, AbortKeepsIInv
  <1>4. CASE (\E y \in Years : SwitchYear(y)) \/ UNCHANGED vars
    <2>1. activeYears' \subseteq Years /\ UNCHANGED <<pc, scope, row, num, rowState, last>>
      BY <1>4 DEF SwitchYear, vars, IInv, TypeOK
    <2> QED
      BY <2>1 DEF IInv, TypeOK, NothingEarly, RowOfScope, PendingRows, LockedRows,
         RowNumbers, NumbersCoverCounter, OneCounterPerScope, Holding, Issued
  <1> QED
    BY <1>1, <1>2, <1>3, <1>4 DEF Next

LEMMA IInvAlways == Spec => []IInv
  BY InitIInv, NextKeepsIInv, PTL DEF Spec

--------------------------------------------------------------------------------
\* Every step of a handler keeps every variable in its set, whatever the bodies of
\* the requests carry and wherever they are cut short.
THEOREM TypeCorrect == Spec => []TypeOK
  <1>1. IInv => TypeOK
    BY DEF IInv
  <1> QED
    BY <1>1, IInvAlways, PTL

\* Any number of concurrent create requests, with any interleaving and any of them
\* cut short: numbering_service.next_number() never gives two of them the same
\* number in a scope that names its organization unit.
THEOREM NumbersAreDistinct == Spec => []NumbersDistinct
  <1>1. IInv => NumbersDistinct
    BY SMT DEF IInv, NumbersDistinct, OneCounterPerScope, RowOfScope, RowNumbers, Issued,
       Holding
  <1> QED
    BY <1>1, IInvAlways, PTL

\* The race of two first requests from SELECT to INSERT never leaves two counter
\* rows of a scope that names its organization unit.
THEOREM CountersAreUnique == Spec => []OneCounterPerScope
  <1>1. IInv => OneCounterPerScope
    BY DEF IInv
  <1> QED
    BY <1>1, IInvAlways, PTL

\* The numbers handed out from a counter row are exactly 1 to last_sequence: no
\* increment is lost and none is committed for nobody.
THEOREM CountersAccount == Spec => []CountersAccountForNumbers
  <1>1. IInv => CountersAccountForNumbers
    <2> SUFFICES ASSUME IInv, NEW k \in Requests
                 PROVE  {num[r] : r \in {q \in Requests :
                           Issued(q) /\ row[q] = k /\ scope[q] = scope[k]}} = 1..last[k]
      BY DEF CountersAccountForNumbers
    <2>1. \A r \in Requests : Issued(r) /\ row[r] = k => num[r] \in 1..last[k]
      BY DEF IInv, RowNumbers
    <2>2. \A n \in 1..last[k] : \E r \in Requests :
            Issued(r) /\ row[r] = k /\ scope[r] = scope[k] /\ num[r] = n
      BY DEF IInv, NumbersCoverCounter
    <2> QED
      BY <2>1, <2>2
  <1> QED
    BY <1>1, IInvAlways, PTL

\* Requests never wait for each other in a circle inside next_number() and the INSERT of the
\* document: the wait for an uncommitted counter row leads to the request that inserted it, whose
\* UPDATE waits for nothing or for the lock of a row, and whoever holds a lock or a number is at
\* its COMMIT, which waits for nobody.
THEOREM NobodyWaitsInACircle == Spec => []SomeoneIsServed
  <1>1. ASSUME IInv PROVE SomeoneIsServed
    <2> SUFFICES ASSUME NEW r \in Requests, pc[r] \in Running
                 PROVE  \E q \in Requests : pc[q] \in Running /\ ~Waits(q)
      BY DEF SomeoneIsServed
    <2>1. CASE \E q \in Requests : pc[q] \in {"commitCounter", "commitDocument"}
      BY <2>1, SMT DEF Waits, Running
    <2>2. CASE \A q \in Requests : pc[q] \notin {"commitCounter", "commitDocument"}
      <3>1. \A q \in Requests : pc[q] # "insertCounter" => ~Waits(q)
        BY <2>2, SMT DEF Waits, RowLocked, NumberTaken
      <3>2. CASE KeyTaken(scope[r], "pending")
        <4>1. PICK k \in Requests : rowState[k] = "pending"
          BY <3>2 DEF KeyTaken
        <4>2. pc[k] = "updateCounter"
          BY <1>1, <2>2, <4>1 DEF IInv, PendingRows, Holding
        <4> QED
          BY <3>1, <4>2, SMT DEF Running
      <3>3. CASE ~KeyTaken(scope[r], "pending")
        BY <3>1, <3>3, SMT DEF Waits
      <3> QED
        BY <3>2, <3>3
    <2> QED
      BY <2>1, <2>2
  <1> QED
    BY <1>1, IInvAlways, PTL

\* A committed counter row stays committed and never counts down, through every
\* rollback and crash.
THEOREM CountersPersist == Spec => CountersNeverGoBack
  <1> DEFINE Kept == \A k \in Requests :
               rowState[k] = "committed" => rowState'[k] = "committed" /\ last'[k] >= last[k]
  <1>1. IInv /\ [Next]_vars => [Kept]_vars
    <2> SUFFICES ASSUME IInv, Next PROVE Kept
      BY DEF vars
    <2> USE DEF IInv, TypeOK
    <2>1. ASSUME NEW r \in Requests, CommitCounter(r) PROVE Kept
      <3>1. row[r] \in Requests /\ num[r] = last[row[r]] + 1
        BY <2>1 DEF CommitCounter, RowOfScope, LockedRows, Holding
      <3> QED
        BY <2>1, <3>1 DEF CommitCounter
    <2>2. ASSUME NEW r \in Requests, InsertCounter(r) PROVE Kept
      BY <2>2 DEF InsertCounter, NothingEarly
    <2>3. ASSUME NEW r \in Requests, Abort(r) PROVE Kept
      BY <2>3 DEF Abort
    <2>4. CASE UNCHANGED <<rowState, last>>
      BY <2>4
    <2> QED
      BY <2>1, <2>2, <2>3, <2>4
         DEF Next, Serve, CreateTicket, CreateEntry, Begin, LookUp, UpdateCounter,
             InsertTicket, InsertEntry, InsertDocument, CommitDocument, SwitchYear
  <1> QED
    BY <1>1, IInvAlways, PTL DEF Spec, CountersNeverGoBack

--------------------------------------------------------------------------------
\* A step that leaves the committed counters and the numbers handed out alone is
\* a stutter of the dispenser.
LEMMA StutterRefines ==
  ASSUME UNCHANGED last,
         \A k \in Requests : (rowState'[k] = "committed") <=> (rowState[k] = "committed"),
         \A k \in Requests : rowState[k] = "committed" => scope'[k] = scope[k],
         \A r \in Requests : NumberGiven(r)' = NumberGiven(r)
  PROVE  UNCHANGED Dispenser!vars
  <1>1. \A s \in NamedScopes : Counters(s)' = Counters(s)
    BY DEF Counters
  <1>2. ASSUME NEW s \in NamedScopes PROVE LastNumber(s)' = LastNumber(s)
    <2>1. Counters(s)' = Counters(s)
      BY <1>1
    <2> QED
      BY <2>1 DEF LastNumber
  <1>3. NamedScopes' = NamedScopes
    BY DEF NamedScopes, Scopes, Named, Types, WeighbridgeTicket, ProductionEntry
  <1> QED
    BY <1>2, <1>3 DEF Dispenser!vars

\* The COMMIT of next_number() is the dispenser's step.
LEMMA CommitRefines ==
  ASSUME IInv, IInv', NEW r \in Requests, CommitCounter(r),
         NEW s, s = scope[r], Named(s), NEW k, k = row[r]
  PROVE  Dispenser!Dispense(r, s)
  <1> USE DEF IInv, TypeOK, CommitCounter
  <1>1. s \in NamedScopes /\ k \in Requests /\ scope[k] = s /\ num[r] = last[k] + 1
    BY DEF RowOfScope, LockedRows, Holding, NamedScopes
  <1>2. \A j \in Requests : rowState[j] # "absent" /\ scope[j] = s => j = k
    BY <1>1 DEF RowOfScope, OneCounterPerScope, Holding
  <1>3. Counters(s)' = {k}
    BY <1>1, <1>2 DEF Counters
  <1>4. LastNumber(s) = last[k]
    <2>1. CASE rowState[k] = "committed"
      BY <1>1, <1>2, <2>1 DEF LastNumber, Counters
    <2>2. CASE rowState[k] # "committed"
      BY <1>1, <1>2, <2>2 DEF LastNumber, Counters, PendingRows
    <2> QED
      BY <2>1, <2>2
  <1>5. LastNumber(s)' = LastNumber(s) + 1
    BY <1>1, <1>3, <1>4 DEF LastNumber
  <1>6. \A t \in NamedScopes \ {s} : LastNumber(t)' = LastNumber(t)
    <2> SUFFICES ASSUME NEW t \in NamedScopes \ {s} PROVE LastNumber(t)' = LastNumber(t)
      OBVIOUS
    <2>1. Counters(t)' = Counters(t) /\ k \notin Counters(t)
      BY <1>1 DEF Counters
    <2>2. \A j \in Counters(t) : last'[j] = last[j]
      BY <2>1 DEF Counters
    <2> QED
      BY <2>1, <2>2 DEF LastNumber
  <1>7. NumberGiven(r) = 0 /\ NumberGiven(r)' = num[r]
    BY <1>1 DEF NumberGiven, Issued, Named
  <1>8. \A q \in Requests \ {r} : NumberGiven(q)' = NumberGiven(q)
    BY DEF NumberGiven, Issued, Named
  <1>9. NamedScopes' = NamedScopes
    BY DEF NamedScopes, Scopes, Named, Types, WeighbridgeTicket, ProductionEntry
  <1> HIDE DEF IInv, TypeOK, CommitCounter
  <1>10. [t \in NamedScopes |-> LastNumber(t)]'
           = [[t \in NamedScopes |-> LastNumber(t)] EXCEPT ![s] = @ + 1]
    BY <1>1, <1>5, <1>6, <1>9
  <1>11. [q \in Requests |-> NumberGiven(q)]'
           = [[q \in Requests |-> NumberGiven(q)] EXCEPT
                ![r] = [t \in NamedScopes |-> LastNumber(t)][s] + 1]
    BY <1>1, <1>4, <1>7, <1>8
  <1> QED
    BY <1>7, <1>10, <1>11 DEF Dispenser!Dispense

\* next_number(), with every interleaving and every crash, implements a dispenser
\* that hands out 1, 2, 3, ... in each scope that names its organization unit.
THEOREM NumberingRefinesDispenser == Spec => DispensesNumbers
  <1>1. Init => Dispenser!Init
    BY DEF Init, Dispenser!Init, LastNumber, Counters, NumberGiven, Issued
  <1>2. IInv /\ IInv' /\ [Next]_vars => [Dispenser!Next]_(Dispenser!vars)
    <2> SUFFICES ASSUME IInv, IInv', [Next]_vars
                 PROVE  Dispenser!Next \/ UNCHANGED Dispenser!vars
      OBVIOUS
    <2> USE DEF IInv, TypeOK
    <2>1. ASSUME NEW r \in Requests, CommitCounter(r)
          PROVE  Dispenser!Next \/ UNCHANGED Dispenser!vars
      <3>1. CASE Named(scope[r])
        <4>1. scope[r] \in NamedScopes
          BY <2>1, <3>1 DEF CommitCounter, RowOfScope, Holding, NamedScopes
        <4> QED
          BY <2>1, <3>1, <4>1, CommitRefines DEF Dispenser!Next
      <3>2. CASE ~Named(scope[r])
        <4>1. \A s \in NamedScopes : Counters(s)' = Counters(s) /\ row[r] \notin Counters(s)
          BY <2>1, <3>2 DEF CommitCounter, Counters, RowOfScope, Holding, NamedScopes
        <4>2. ASSUME NEW s \in NamedScopes PROVE LastNumber(s)' = LastNumber(s)
          <5>1. Counters(s)' = Counters(s) /\ \A j \in Counters(s) : last'[j] = last[j]
            BY <2>1, <4>1 DEF CommitCounter, Counters
          <5> QED
            BY <5>1 DEF LastNumber
        <4>3. \A q \in Requests : NumberGiven(q)' = NumberGiven(q)
          BY <2>1, <3>2 DEF CommitCounter, NumberGiven, Issued, Named
        <4>4. NamedScopes' = NamedScopes
          BY DEF NamedScopes, Scopes, Named, Types, WeighbridgeTicket, ProductionEntry
        <4> QED
          BY <4>2, <4>3, <4>4 DEF Dispenser!vars
      <3> QED
        BY <3>1, <3>2
    <2>2. ASSUME NEW r \in Requests, Abort(r) PROVE UNCHANGED Dispenser!vars
      <3>1. \A q \in Requests : NumberGiven(q)' = NumberGiven(q)
        BY <2>2 DEF Abort, NumberGiven, Issued, Named, Running, NothingEarly
      <3> QED
        BY <2>2, <3>1, StutterRefines DEF Abort
    <2>3. ASSUME NEW r \in Requests, InsertCounter(r) PROVE UNCHANGED Dispenser!vars
      <3>1. \A q \in Requests : NumberGiven(q)' = NumberGiven(q)
        BY <2>3 DEF InsertCounter, NumberGiven, Issued, Named
      <3> QED
        BY <2>3, <3>1, StutterRefines DEF InsertCounter, NothingEarly
    <2>4. ASSUME NEW r \in Requests, NEW type \in Types, Begin(r, type)
          PROVE  UNCHANGED Dispenser!vars
      <3>1. \A q \in Requests : NumberGiven(q)' = NumberGiven(q)
        BY <2>4 DEF Begin, NumberGiven, Issued, Named, NothingEarly
      <3> QED
        BY <2>4, <3>1, StutterRefines DEF Begin, NothingEarly
    <2>5. ASSUME NEW r \in Requests,
                 LookUp(r) \/ UpdateCounter(r) \/ InsertTicket(r) \/ InsertEntry(r)
                   \/ CommitDocument(r)
          PROVE  UNCHANGED Dispenser!vars
      <3>1. \A q \in Requests : NumberGiven(q)' = NumberGiven(q)
        BY <2>5 DEF LookUp, UpdateCounter, InsertTicket, InsertEntry, InsertDocument,
              CommitDocument, NumberGiven, Issued, Named, NothingEarly
      <3> QED
        BY <2>5, <3>1, StutterRefines
           DEF LookUp, UpdateCounter, InsertTicket, InsertEntry, InsertDocument, CommitDocument
    <2>6. CASE (\E y \in Years : SwitchYear(y)) \/ UNCHANGED vars
      <3>1. UNCHANGED <<pc, scope, num, rowState, last>>
        BY <2>6 DEF SwitchYear, vars
      <3> QED
        BY <3>1, StutterRefines DEF NumberGiven, Issued, Named
    <2> QED
      BY <2>1, <2>2, <2>3, <2>4, <2>5, <2>6 DEF Next, Serve, CreateTicket, CreateEntry, Types
  <1> QED
    BY <1>1, <1>2, IInvAlways, PTL DEF Spec, DispensesNumbers, Dispenser!Spec
================================================================================
