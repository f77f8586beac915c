-------------------------- MODULE AuthSessionsProofs ---------------------------
(***************************************************************************)
(* What holds of AuthSessions for every finite set of requests, every set  *)
(* of passwords and every limit.  The inductive invariant ties the step a  *)
(* request stands at to the rows its commit relies on, and bounds what a   *)
(* stale copy of the account can hold.                                     *)
(***************************************************************************)
EXTENDS AuthSessions, FiniteSetTheorems, TLAPS

Wrong == {r \in Requests : pc[r] = "wrongPassword"}

Administered == \E r \in Requests : pc[r] = "done" /\ task[r].op = "setStatus"

\* A step belongs to its endpoint, and the token row it works on is there.
WorkFits ==
  \A r \in Requests :
    /\ pc[r] \in {"fail", "issue"} => task[r].op = "login"
    /\ pc[r] \in {"readUser", "rotate"} => task[r].op = "refresh" /\ sessions[task[r].token] # "none"
    /\ pc[r] = "revoke" => task[r].op = "logout" /\ sessions[task[r].token] # "none"
    /\ pc[r] = "mint" => task[r].op = "forgot"
    /\ pc[r] = "change" =>
         task[r].op = "reset" /\ task[r].wanted \in Passwords /\ resets[task[r].token] # "none"
    /\ pc[r] = "update" => task[r].op = "setStatus" /\ task[r].wanted \in Statuses

\* A request's own rows appear with its answer.
RowsOfAnswers ==
  \A r \in Requests :
    /\ sessions[r] # "none" => pc[r] = "granted"
    /\ resets[r] # "none" => pc[r] = "done"

\* The token of a granted refresh or reset is spent.
SpentByGrant ==
  \A r \in Requests :
    /\ Granted(r, "refresh") => sessions[task[r].token] = "revoked"
    /\ Granted(r, "reset") => resets[task[r].token] = "used"

\* While requests do not overlap, what the one being served has read is still so.
ReadsAreCurrent ==
  ~overlapped => \A r \in Requests : pc[r] \in Working =>
    /\ \A q \in Requests : pc[q] \in Working => q = r
    /\ task[r].seen = account
    /\ pc[r] \in {"readUser", "rotate"} => sessions[task[r].token] = "live"
    /\ pc[r] = "change" => resets[task[r].token] = "unused"

\* Unless an administrator sets the status, an account read as LOCKED stays LOCKED.
LockedStaysLocked ==
  ~Administered => \A r \in Requests :
    pc[r] \in Working /\ task[r].seen.status = "LOCKED" => account.status = "LOCKED"

\* A copy never holds more failures than were committed.
CopiesNotOvercounted ==
  \A r \in Requests : pc[r] \in Working => task[r].seen.failed <= Cardinality(Wrong)

\* While requests do not overlap and nobody logged in, none is lost either.
CountIsExact ==
  ~overlapped /\ (\A r \in Requests : ~Granted(r, "login")) =>
    account.failed = Cardinality(Wrong)

\* The token of an answered logout is revoked, or expired with no refresh at work on it.
LoggedOut ==
  ~overlapped => \A q \in Requests : pc[q] = "done" /\ task[q].op = "logout" =>
    \/ sessions[task[q].token] = "revoked"
    \/ /\ task[q].token \in expired
       /\ \A r \in Requests : pc[r] \in {"readUser", "rotate"} => task[r].token # task[q].token

IInv ==
  /\ TypeOK
  /\ WorkFits
  /\ RowsOfAnswers
  /\ SpentByGrant
  /\ ReadsAreCurrent
  /\ LockedStaysLocked
  /\ LimitMeansLocked
  /\ FailuresNotOvercounted
  /\ CopiesNotOvercounted
  /\ CountIsExact
  /\ LoggedOut
  /\ TokensUsedOnce

--------------------------------------------------------------------------------
LEMMA WrongIsFinite == IsFiniteSet(Wrong) /\ Cardinality(Wrong) \in Nat
  <1>1. Wrong \in SUBSET Requests
    BY DEF Wrong
  <1>2. IsFiniteSet(Wrong)
    BY <1>1, RequestsAssumption, FS_Subset
  <1> QED
    BY <1>2, FS_CardinalityType

\* Only CommitFailure answers with wrongPassword, and nothing takes that answer back.
LEMMA WrongUnchanged ==
  ASSUME TypeOK, NEW r \in Requests, NEW step, pc' = [pc EXCEPT ![r] = step],
         pc[r] # "wrongPassword", step # "wrongPassword"
  PROVE  Wrong' = Wrong
  BY DEF TypeOK, Wrong

LEMMA AccountWritten ==
  ASSUME NEW a \in Account, NEW failed \in Nat, NEW status \in Statuses
  PROVE  [a EXCEPT !.failed = failed, !.status = status] \in Account
  BY DEF Account

LEMMA InitIInv == Init => IInv
  <1> SUFFICES ASSUME Init PROVE IInv
    OBVIOUS
  <1>1. Wrong = {} /\ Cardinality(Wrong) = 0
    BY FS_EmptySet DEF Init, Wrong
  <1>2. TypeOK
    <2>1. account \in Account
      BY DEF Init, Account, Statuses
    <2> QED
      BY <2>1 DEF Init, TypeOK, Task
  <1>3. FailuresNotOvercounted /\ CountIsExact /\ CopiesNotOvercounted
    BY <1>1 DEF Init, FailuresNotOvercounted, CountIsExact, CopiesNotOvercounted, Wrong
  <1>4. LimitMeansLocked
    BY LimitAssumption DEF Init, LimitMeansLocked
  <1> QED
    BY <1>2, <1>3, <1>4 DEF Init, IInv, WorkFits, RowsOfAnswers, SpentByGrant, Granted,
       ReadsAreCurrent, LockedStaysLocked, LoggedOut, Working,
       TokensUsedOnce, UsedOnce

\* A request that starts has read the account as it is.
LEMMA StartKeepsIInv ==
  ASSUME IInv, NEW r \in Requests, NEW op \in Endpoints, NEW token \in Requests,
         NEW wanted \in Statuses \cup Passwords \cup {"none"},
         NEW next \in Working \cup {"denied", "done"}, Start(r, op, token, wanted, next),
         next \in {"fail", "issue"} => op = "login",
         next # "rotate",
         next = "readUser" => op = "refresh" /\ sessions[token] = "live" /\ token \notin expired,
         next = "revoke" => op = "logout" /\ sessions[token] # "none",
         next = "mint" => op = "forgot",
         next = "change" => op = "reset" /\ wanted \in Passwords /\ resets[token] = "unused",
         next = "update" => op = "setStatus" /\ wanted \in Statuses,
         next = "done" /\ op = "logout" => token \in expired,
         next = "done" => op # "setStatus"
  PROVE  IInv'
  <1> USE DEF IInv, Start
  <1>0. Wrong' = Wrong
    BY WrongUnchanged DEF Working
  <1>a. task'[r] = [op |-> op, token |-> token, wanted |-> wanted, seen |-> account]
    BY DEF TypeOK
  <1>b. \A q \in Requests \ {r} : task'[q] = task[q] /\ pc'[q] = pc[q]
    BY DEF TypeOK
  <1>c. pc'[r] = next /\ next \notin {"idle", "granted"}
    BY DEF TypeOK, Working
  <1>1. TypeOK'
    BY DEF TypeOK, Task, Answered
  <1>2. WorkFits'
    BY DEF TypeOK, WorkFits
  <1>3. RowsOfAnswers'
    BY DEF RowsOfAnswers
  <1>4. SpentByGrant'
    BY <1>b, <1>c DEF SpentByGrant, Granted
  <1>5. ReadsAreCurrent'
    <2> SUFFICES ASSUME ~overlapped', NEW p \in Requests, pc'[p] \in Working
                 PROVE  /\ \A q \in Requests : pc'[q] \in Working => q = p
                        /\ task'[p].seen = account'
                        /\ pc'[p] \in {"readUser", "rotate"} => sessions'[task'[p].token] = "live"
                        /\ pc'[p] = "change" => resets'[task'[p].token] = "unused"
      BY DEF ReadsAreCurrent
    <2>1. \A q \in Requests : pc[q] \notin Working
      OBVIOUS
    <2>2. p = r
      BY <1>b, <2>1
    <2> QED
      BY <1>a, <1>b, <1>c, <2>1, <2>2
  <1>6. LockedStaysLocked'
    BY DEF TypeOK, LockedStaysLocked, Administered
  <1>7. LimitMeansLocked'
    BY DEF LimitMeansLocked
  <1>8. FailuresNotOvercounted'
    BY <1>0, WrongIsFinite DEF FailuresNotOvercounted, Wrong
  <1>9. CopiesNotOvercounted'
    BY <1>0, WrongIsFinite DEF TypeOK, CopiesNotOvercounted, FailuresNotOvercounted, Wrong
  <1>10. CountIsExact'
    BY <1>0, WrongIsFinite DEF TypeOK, CountIsExact, Granted
  <1>11. LoggedOut'
    <2> SUFFICES ASSUME ~overlapped', NEW p \in Requests, pc'[p] = "done", task'[p].op = "logout"
                 PROVE  \/ sessions'[task'[p].token] = "revoked"
                        \/ /\ task'[p].token \in expired'
                           /\ \A q \in Requests : pc'[q] \in {"readUser", "rotate"}
                                                     => task'[q].token # task'[p].token
      BY DEF LoggedOut
    <2>1. \A q \in Requests : pc[q] \notin Working
      OBVIOUS
    <2>2. CASE p = r
      BY <1>a, <1>b, <1>c, <2>1, <2>2 DEF Working
    <2>3. CASE p # r
      <3>1. pc[p] = "done" /\ task[p].op = "logout" /\ task'[p] = task[p] /\ ~overlapped
        BY <1>b, <2>3
      <3>2. CASE sessions[task[p].token] = "revoked"
        BY <3>1, <3>2
      <3>3. CASE task[p].token \in expired
        <4>1. pc'[r] \in {"readUser", "rotate"} => task'[r].token # task'[p].token
          BY <1>a, <1>c, <3>1, <3>3
        <4>2. \A q \in Requests \ {r} : pc'[q] \notin {"readUser", "rotate"}
          BY <1>b, <2>1 DEF Working
        <4> QED
          BY <3>1, <3>3, <4>1, <4>2
      <3> QED
        BY <3>1, <3>2, <3>3 DEF LoggedOut
    <2> QED
      BY <2>2, <2>3
  <1>12. TokensUsedOnce'
    BY DEF TypeOK, TokensUsedOnce, UsedOnce, Granted, Working
  <1> QED
    BY <1>1, <1>2, <1>3, <1>4, <1>5, <1>6, <1>7, <1>8, <1>9, <1>10, <1>11, <1>12

\* A failure is counted on the copy read; the row ends with at most one more.
LEMMA CommitFailureKeepsIInv ==
  ASSUME IInv, NEW r \in Requests, CommitFailure(r)
  PROVE  IInv'
  <1> USE DEF IInv, CommitFailure, Finish
  <1>0. Wrong' = Wrong \cup {r} /\ Cardinality(Wrong') = Cardinality(Wrong) + 1
    <2>1. Wrong' = Wrong \cup {r} /\ r \notin Wrong
      BY DEF TypeOK, Wrong
    <2> QED
      BY <2>1, WrongIsFinite, FS_AddElement
  <1>1. TypeOK'
    <2>1. task[r].seen.failed \in Nat /\ account \in Account
      BY DEF TypeOK, Task, Account
    <2> DEFINE new == IF task[r].seen.failed + 1 >= MaxFailed /\ task[r].seen.status # "LOCKED"
                      THEN "LOCKED" ELSE account.status
    <2>2. new \in Statuses /\ account.status \in Statuses
      BY <2>1 DEF Account, Statuses
    <2>3. account' = [account EXCEPT !.failed = task[r].seen.failed + 1, !.status = new]
      OBVIOUS
    <2> HIDE DEF new
    <2>4. task[r].seen.failed + 1 \in Nat
      BY <2>1
    <2>5. account' \in Account
      <3>1. [account EXCEPT !.failed = task[r].seen.failed + 1, !.status = new] \in Account
        BY <2>1, <2>2, <2>4, AccountWritten
      <3> QED
        BY <2>3, <3>1
    <2> QED
      BY <2>5 DEF TypeOK, Answered
  <1>2. WorkFits'
    BY DEF TypeOK, Task, WorkFits, Statuses
  <1>3. RowsOfAnswers'
    BY DEF TypeOK, Task, RowsOfAnswers, WorkFits, Working
  <1>4. SpentByGrant'
    BY DEF TypeOK, Task, SpentByGrant, RowsOfAnswers, WorkFits, Granted
  <1>5. ReadsAreCurrent'
    BY DEF TypeOK, Task, ReadsAreCurrent, RowsOfAnswers, WorkFits, Working
  <1>6. LockedStaysLocked'
    BY DEF TypeOK, LockedStaysLocked, Administered, WorkFits, Working, Account, Task
  <1>7. LimitMeansLocked'
    BY LimitAssumption DEF TypeOK, LimitMeansLocked, LockedStaysLocked, Administered, WorkFits, Working, Account, Task
  <1>8. FailuresNotOvercounted'
    <2>1. /\ task[r].seen.failed \in Nat
          /\ task[r].seen.failed <= Cardinality(Wrong)
          /\ account'.failed = task[r].seen.failed + 1
      BY DEF TypeOK, Task, Account, CopiesNotOvercounted, Working
    <2> QED
      BY <1>0, <2>1, WrongIsFinite DEF FailuresNotOvercounted, Wrong
  <1>9. CopiesNotOvercounted'
    <2> SUFFICES ASSUME NEW q \in Requests, pc'[q] \in Working
                 PROVE  task'[q].seen.failed <= Cardinality(Wrong')
      BY DEF CopiesNotOvercounted
    <2>1. task'[q] = task[q] /\ task[q].seen.failed \in Nat /\ pc[q] \in Working
      BY DEF TypeOK, Task, Account, Working
    <2> QED
      BY <1>0, <2>1, WrongIsFinite DEF CopiesNotOvercounted
  <1>10. CountIsExact'
    <2> SUFFICES ASSUME ~overlapped', \A q \in Requests : ~Granted(q, "login")'
                 PROVE  account'.failed = Cardinality(Wrong')
      BY DEF CountIsExact
    <2>1. \A q \in Requests : ~Granted(q, "login")
      BY DEF TypeOK, Granted
    <2>2. task[r].seen = account
      BY DEF ReadsAreCurrent, Working
    <2>3. account'.failed = account.failed + 1
      BY <2>2 DEF TypeOK, Account
    <2> QED
      BY <1>0, <2>1, <2>3 DEF CountIsExact
  <1>11. LoggedOut'
    BY DEF TypeOK, Task, LoggedOut, ReadsAreCurrent, RowsOfAnswers, WorkFits, Working
  <1>12. TokensUsedOnce'
    BY DEF TypeOK, Task, TokensUsedOnce, UsedOnce, Granted, SpentByGrant, ReadsAreCurrent, WorkFits, Working
  <1> QED
    BY <1>1, <1>2, <1>3, <1>4, <1>5, <1>6, <1>7, <1>8, <1>9, <1>10, <1>11, <1>12

\* A login resets the counter and gives a session to a request that had none.
LEMMA CommitLoginKeepsIInv ==
  ASSUME IInv, NEW r \in Requests, CommitLogin(r)
  PROVE  IInv'
  <1> USE DEF IInv, CommitLogin, Finish
  <1>0. Wrong' = Wrong
    BY WrongUnchanged DEF TypeOK
  <1>1. TypeOK'
    BY DEF TypeOK, Account, Task, Statuses, Working, Answered
  <1>2. WorkFits'
    BY DEF TypeOK, Task, WorkFits, Statuses
  <1>3. RowsOfAnswers'
    BY DEF TypeOK, Task, RowsOfAnswers, WorkFits, Working
  <1>4. SpentByGrant'
    BY DEF TypeOK, Task, SpentByGrant, RowsOfAnswers, WorkFits, Granted
  <1>5. ReadsAreCurrent'
    BY DEF TypeOK, Task, ReadsAreCurrent, RowsOfAnswers, WorkFits, Working
  <1>6. LockedStaysLocked'
    BY DEF TypeOK, LockedStaysLocked, Administered, WorkFits, Working, Account, Task
  <1>7. LimitMeansLocked'
    BY LimitAssumption DEF TypeOK, LimitMeansLocked, LockedStaysLocked, Administered, WorkFits, Working, Account, Task
  <1>8. FailuresNotOvercounted'
    <2>1. account'.failed \in {0, account.failed}
      BY DEF TypeOK, Account
    <2> QED
      BY <1>0, <2>1, WrongIsFinite DEF FailuresNotOvercounted, Wrong
  <1>9. CopiesNotOvercounted'
    BY <1>0, WrongIsFinite DEF TypeOK, CopiesNotOvercounted, FailuresNotOvercounted, Working, Wrong
  <1>10. CountIsExact'
    BY <1>0, WrongIsFinite DEF TypeOK, CountIsExact, Granted, WorkFits, Working
  <1>11. LoggedOut'
    BY DEF TypeOK, Task, LoggedOut, ReadsAreCurrent, RowsOfAnswers, WorkFits, Working
  <1>12. TokensUsedOnce'
    BY DEF TypeOK, Task, TokensUsedOnce, UsedOnce, Granted, SpentByGrant, ReadsAreCurrent, WorkFits, Working
  <1> QED
    BY <1>1, <1>2, <1>3, <1>4, <1>5, <1>6, <1>7, <1>8, <1>9, <1>10, <1>11, <1>12

\* The account is read again, the token is not.
LEMMA ReadUserKeepsIInv ==
  ASSUME IInv, NEW r \in Requests, ReadUser(r)
  PROVE  IInv'
  <1> USE DEF IInv, ReadUser, Finish
  <1>0. Wrong' = Wrong
    BY WrongUnchanged DEF TypeOK
  <1>1. TypeOK'
    BY DEF TypeOK, Working, Answered
  <1>2. WorkFits'
    BY DEF WorkFits
  <1>3. RowsOfAnswers'
    BY DEF RowsOfAnswers
  <1>4. SpentByGrant'
    BY DEF SpentByGrant, Granted
  <1>5. ReadsAreCurrent'
    BY DEF ReadsAreCurrent, Working
  <1>6. LockedStaysLocked'
    BY DEF LockedStaysLocked, Administered, Working
  <1>7. LimitMeansLocked'
    BY LimitAssumption DEF LimitMeansLocked
  <1>8. FailuresNotOvercounted'
    BY <1>0, WrongIsFinite DEF FailuresNotOvercounted
  <1>9. CopiesNotOvercounted'
    BY <1>0, WrongIsFinite DEF CopiesNotOvercounted, Working
  <1>10. CountIsExact'
    BY <1>0, WrongIsFinite DEF CountIsExact, Granted
  <1>11. LoggedOut'
    BY DEF LoggedOut
  <1>12. TokensUsedOnce'
    BY DEF TokensUsedOnce, UsedOnce, Granted
  <1> QED
    BY <1>1, <1>2, <1>3, <1>4, <1>5, <1>6, <1>7, <1>8, <1>9, <1>10, <1>11, <1>12

\* A rotation revokes the token it presents, which is not its own.
LEMMA CommitRotationKeepsIInv ==
  ASSUME IInv, NEW r \in Requests, CommitRotation(r)
  PROVE  IInv'
  <1> USE DEF IInv, CommitRotation, Finish
  <1>0. Wrong' = Wrong
    BY WrongUnchanged DEF TypeOK
  <1>1. TypeOK'
    BY DEF TypeOK, Answered
  <1>2. WorkFits'
    BY DEF TypeOK, Task, WorkFits
  <1>3. RowsOfAnswers'
    BY DEF TypeOK, RowsOfAnswers, WorkFits
  <1>4. SpentByGrant'
    BY DEF TypeOK, Task, SpentByGrant, RowsOfAnswers, WorkFits, Granted
  <1>5. ReadsAreCurrent'
    BY DEF TypeOK, ReadsAreCurrent, Working
  <1>6. LockedStaysLocked'
    BY DEF LockedStaysLocked, Administered, Working
  <1>7. LimitMeansLocked'
    BY LimitAssumption DEF LimitMeansLocked
  <1>8. FailuresNotOvercounted'
    BY <1>0, WrongIsFinite DEF FailuresNotOvercounted, Wrong
  <1>9. CopiesNotOvercounted'
    BY <1>0, WrongIsFinite DEF CopiesNotOvercounted, Working
  <1>10. CountIsExact'
    BY <1>0, WrongIsFinite DEF CountIsExact, Granted
  <1>11. LoggedOut'
    BY DEF TypeOK, Task, LoggedOut, RowsOfAnswers
  <1>12. TokensUsedOnce'
    BY DEF TokensUsedOnce, UsedOnce, Granted, SpentByGrant, ReadsAreCurrent, WorkFits, Working
  <1> QED
    BY <1>1, <1>2, <1>3, <1>4, <1>5, <1>6, <1>7, <1>8, <1>9, <1>10, <1>11, <1>12

\* A logout revokes its token.
LEMMA CommitLogoutKeepsIInv ==
  ASSUME IInv, NEW r \in Requests, CommitLogout(r)
  PROVE  IInv'
  <1> USE DEF IInv, CommitLogout, Finish
  <1>0. Wrong' = Wrong
    BY WrongUnchanged DEF TypeOK
  <1>1. TypeOK'
    BY DEF TypeOK, Answered
  <1>2. WorkFits'
    BY DEF WorkFits
  <1>3. RowsOfAnswers'
    BY DEF RowsOfAnswers, WorkFits
  <1>4. SpentByGrant'
    BY DEF SpentByGrant, Granted
  <1>5. ReadsAreCurrent'
    BY DEF ReadsAreCurrent, Working
  <1>6. LockedStaysLocked'
    BY DEF LockedStaysLocked, Administered, Working
  <1>7. LimitMeansLocked'
    BY LimitAssumption DEF LimitMeansLocked
  <1>8. FailuresNotOvercounted'
    BY <1>0, WrongIsFinite DEF FailuresNotOvercounted, Wrong
  <1>9. CopiesNotOvercounted'
    BY <1>0, WrongIsFinite DEF CopiesNotOvercounted, Working
  <1>10. CountIsExact'
    BY <1>0, WrongIsFinite DEF CountIsExact, Granted
  <1>11. LoggedOut'
    BY DEF TypeOK, Task, LoggedOut
  <1>12. TokensUsedOnce'
    BY DEF TokensUsedOnce, UsedOnce, Granted
  <1> QED
    BY <1>1, <1>2, <1>3, <1>4, <1>5, <1>6, <1>7, <1>8, <1>9, <1>10, <1>11, <1>12

\* A reset token appears with the answer.
LEMMA CommitResetTokenKeepsIInv ==
  ASSUME IInv, NEW r \in Requests, CommitResetToken(r)
  PROVE  IInv'
  <1> USE DEF IInv, CommitResetToken, Finish
  <1>0. Wrong' = Wrong
    BY WrongUnchanged DEF TypeOK
  <1>1. TypeOK'
    BY DEF TypeOK, Answered
  <1>2. WorkFits'
    BY DEF WorkFits
  <1>3. RowsOfAnswers'
    BY DEF TypeOK, RowsOfAnswers
  <1>4. SpentByGrant'
    BY DEF SpentByGrant, RowsOfAnswers, Granted
  <1>5. ReadsAreCurrent'
    BY DEF ReadsAreCurrent, Working
  <1>6. LockedStaysLocked'
    BY DEF LockedStaysLocked, Administered, Working
  <1>7. LimitMeansLocked'
    BY LimitAssumption DEF LimitMeansLocked
  <1>8. FailuresNotOvercounted'
    BY <1>0, WrongIsFinite DEF FailuresNotOvercounted
  <1>9. CopiesNotOvercounted'
    BY <1>0, WrongIsFinite DEF CopiesNotOvercounted, Working
  <1>10. CountIsExact'
    BY <1>0, WrongIsFinite DEF CountIsExact, Granted
  <1>11. LoggedOut'
    BY DEF LoggedOut, WorkFits
  <1>12. TokensUsedOnce'
    BY DEF TokensUsedOnce, UsedOnce, Granted
  <1> QED
    BY <1>1, <1>2, <1>3, <1>4, <1>5, <1>6, <1>7, <1>8, <1>9, <1>10, <1>11, <1>12

\* A reset spends its token and changes the password only.
LEMMA CommitResetKeepsIInv ==
  ASSUME IInv, NEW r \in Requests, CommitReset(r)
  PROVE  IInv'
  <1> USE DEF IInv, CommitReset, Finish
  <1>0. Wrong' = Wrong
    BY WrongUnchanged DEF TypeOK
  <1>1. TypeOK'
    <2>1. task[r].wanted \in Passwords /\ task[r].token \in Requests
      BY DEF TypeOK, Task, WorkFits
    <2>2. account' \in Account
      BY <2>1 DEF TypeOK, Account
    <2> QED
      BY <2>1, <2>2 DEF TypeOK, Answered
  <1>2. WorkFits'
    BY DEF WorkFits
  <1>3. RowsOfAnswers'
    BY DEF RowsOfAnswers, WorkFits
  <1>4. SpentByGrant'
    BY DEF TypeOK, Task, SpentByGrant, WorkFits, Granted
  <1>5. ReadsAreCurrent'
    BY DEF TypeOK, ReadsAreCurrent, Working
  <1>6. LockedStaysLocked'
    BY DEF LockedStaysLocked, Administered, Working
  <1>7. LimitMeansLocked'
    BY LimitAssumption DEF LimitMeansLocked
  <1>8. FailuresNotOvercounted'
    BY <1>0, WrongIsFinite DEF FailuresNotOvercounted, Wrong
  <1>9. CopiesNotOvercounted'
    BY <1>0, WrongIsFinite DEF CopiesNotOvercounted, Working
  <1>10. CountIsExact'
    BY <1>0, WrongIsFinite DEF CountIsExact, Granted
  <1>11. LoggedOut'
    BY DEF LoggedOut
  <1>12. TokensUsedOnce'
    BY DEF TokensUsedOnce, UsedOnce, Granted, SpentByGrant, ReadsAreCurrent, WorkFits, Working
  <1> QED
    BY <1>1, <1>2, <1>3, <1>4, <1>5, <1>6, <1>7, <1>8, <1>9, <1>10, <1>11, <1>12

\* An administrator sets the status.
LEMMA CommitStatusKeepsIInv ==
  ASSUME IInv, NEW r \in Requests, CommitStatus(r)
  PROVE  IInv'
  <1> USE DEF IInv, CommitStatus, Finish
  <1>0. Wrong' = Wrong
    BY WrongUnchanged DEF TypeOK
  <1>1. TypeOK'
    <2>1. task[r].wanted \in Statuses
      BY DEF WorkFits
    <2>2. account' \in Account
      BY <2>1 DEF TypeOK, Account
    <2> QED
      BY <2>2 DEF TypeOK, Answered
  <1>2. WorkFits'
    BY DEF WorkFits
  <1>3. RowsOfAnswers'
    BY DEF RowsOfAnswers
  <1>4. SpentByGrant'
    BY DEF SpentByGrant, Granted
  <1>5. ReadsAreCurrent'
    BY DEF TypeOK, ReadsAreCurrent, Working
  <1>6. LockedStaysLocked'
    BY DEF TypeOK, LockedStaysLocked, Administered, WorkFits
  <1>7. LimitMeansLocked'
    BY LimitAssumption DEF TypeOK, LimitMeansLocked, WorkFits
  <1>8. FailuresNotOvercounted'
    BY <1>0, WrongIsFinite DEF FailuresNotOvercounted
  <1>9. CopiesNotOvercounted'
    BY <1>0, WrongIsFinite DEF CopiesNotOvercounted, Working
  <1>10. CountIsExact'
    BY <1>0, WrongIsFinite DEF CountIsExact, Granted
  <1>11. LoggedOut'
    BY DEF LoggedOut, WorkFits
  <1>12. TokensUsedOnce'
    BY DEF TokensUsedOnce, UsedOnce, Granted
  <1> QED
    BY <1>1, <1>2, <1>3, <1>4, <1>5, <1>6, <1>7, <1>8, <1>9, <1>10, <1>11, <1>12

\* A rollback leaves every row alone.
LEMMA AbortKeepsIInv ==
  ASSUME IInv, NEW r \in Requests, Abort(r)
  PROVE  IInv'
  <1> USE DEF IInv, Abort, Finish
  <1>0. Wrong' = Wrong
    BY WrongUnchanged DEF Working
  <1>1. TypeOK'
    BY DEF TypeOK, Answered
  <1>2. WorkFits'
    BY DEF WorkFits
  <1>3. RowsOfAnswers'
    BY DEF RowsOfAnswers, Working
  <1>4. SpentByGrant'
    BY DEF SpentByGrant, Granted
  <1>5. ReadsAreCurrent'
    BY DEF ReadsAreCurrent
  <1>6. LockedStaysLocked'
    BY DEF LockedStaysLocked, Administered, Working
  <1>7. LimitMeansLocked'
    BY LimitAssumption DEF LimitMeansLocked, Working
  <1>8. FailuresNotOvercounted'
    BY <1>0, WrongIsFinite DEF FailuresNotOvercounted, Wrong
  <1>9. CopiesNotOvercounted'
    BY <1>0, WrongIsFinite DEF CopiesNotOvercounted
  <1>10. CountIsExact'
    BY <1>0, WrongIsFinite DEF CountIsExact, Granted, Working
  <1>11. LoggedOut'
    BY DEF LoggedOut
  <1>12. TokensUsedOnce'
    BY DEF TokensUsedOnce, UsedOnce, Granted
  <1> QED
    BY <1>1, <1>2, <1>3, <1>4, <1>5, <1>6, <1>7, <1>8, <1>9, <1>10, <1>11, <1>12

\* Time only adds to the expired tokens.
LEMMA ExpireKeepsIInv ==
  ASSUME IInv, NEW k \in Requests, Expire(k)
  PROVE  IInv'
  BY DEF IInv, Expire, TypeOK, WorkFits, RowsOfAnswers, SpentByGrant, Granted, ReadsAreCurrent,
     LockedStaysLocked, Administered, LimitMeansLocked, FailuresNotOvercounted,
     CopiesNotOvercounted, CountIsExact, LoggedOut, TokensUsedOnce, UsedOnce, Wrong

LEMMA NextKeepsIInv == IInv /\ [Next]_vars => IInv'
  <1> SUFFICES ASSUME IInv, [Next]_vars PROVE IInv'
    OBVIOUS
  <1>1. CASE UNCHANGED vars
    BY <1>1 DEF vars, IInv, TypeOK, WorkFits, RowsOfAnswers, SpentByGrant, Granted,
       ReadsAreCurrent, LockedStaysLocked, Administered, LimitMeansLocked,
       FailuresNotOvercounted, CopiesNotOvercounted, CountIsExact, LoggedOut, TokensUsedOnce,
       UsedOnce, Wrong
  <1>2. ASSUME NEW r \in Requests, Begin(r) PROVE IInv'
    <2> USE DEF Endpoints, Working, Statuses
    <2>1. ASSUME NEW p \in Passwords, Login(r, p) PROVE IInv'
      BY <1>2, <2>1, StartKeepsIInv DEF Login
    <2>2. ASSUME NEW k \in Requests, Refresh(r, k) PROVE IInv'
      BY <1>2, <2>2, StartKeepsIInv DEF Refresh
    <2>3. ASSUME NEW k \in Requests, Logout(r, k) PROVE IInv'
      BY <1>2, <2>3, StartKeepsIInv DEF Logout
    <2>4. ASSUME ForgotPassword(r) PROVE IInv'
      BY <1>2, <2>4, StartKeepsIInv DEF ForgotPassword
    <2>5. ASSUME NEW k \in Requests, NEW p \in Passwords, ResetPassword(r, k, p) PROVE IInv'
      BY <1>2, <2>5, StartKeepsIInv DEF ResetPassword
    <2>6. ASSUME NEW s \in Statuses, SetStatus(r, s) PROVE IInv'
      BY <1>2, <2>6, StartKeepsIInv DEF SetStatus
    <2> QED
      BY <1>2, <2>1, <2>2, <2>3, <2>4, <2>5, <2>6 DEF Begin
  <1>3. ASSUME NEW r \in Requests, Commit(r) PROVE IInv'
    BY <1>3, CommitFailureKeepsIInv, CommitLoginKeepsIInv, ReadUserKeepsIInv,
       CommitRotationKeepsIInv, CommitLogoutKeepsIInv, CommitResetTokenKeepsIInv,
       CommitResetKeepsIInv, CommitStatusKeepsIInv DEF Commit
  <1>4. ASSUME NEW r \in Requests, Abort(r) PROVE IInv'
    BY <1>4, AbortKeepsIInv
  <1>5. ASSUME NEW k \in Requests, Expire(k) PROVE IInv'
    BY <1>5, ExpireKeepsIInv
  <1> QED
    BY <1>1, <1>2, <1>3, <1>4, <1>5 DEF Next

LEMMA IInvAlways == Spec => []IInv
  BY InitIInv, NextKeepsIInv, PTL DEF Spec

--------------------------------------------------------------------------------
\* Every reachable state of the account, its tokens and the requests is well typed.
THEOREM TypeCorrect == Spec => []TypeOK
  <1>1. IInv => TypeOK
    BY DEF IInv
  <1> QED
    BY <1>1, IInvAlways, PTL

\* login() and its racing copies of failed_login_attempts never count a wrong password
\* twice.
THEOREM NothingOvercounted == Spec => []FailuresNotOvercounted
  <1>1. IInv => FailuresNotOvercounted
    BY DEF IInv
  <1> QED
    BY <1>1, IInvAlways, PTL

\* Until an administrator sets the status, a counter at the limit means LOCKED.
THEOREM LimitLocks == Spec => []LimitMeansLocked
  <1>1. IInv => LimitMeansLocked
    BY DEF IInv
  <1> QED
    BY <1>1, IInvAlways, PTL

\* A session refresh() issued never exists next to the live session it replaces.
THEOREM RotationIsAtomic == Spec => []ReplacedIsRevoked
  <1>1. IInv => ReplacedIsRevoked
    BY DEF IInv, ReplacedIsRevoked, RowsOfAnswers, SpentByGrant, Granted
  <1> QED
    BY <1>1, IInvAlways, PTL

\* While requests do not overlap, a refresh token and a reset token are good once.
THEOREM OnceUnlessOverlapped == Spec => []TokensUsedOnce
  <1>1. IInv => TokensUsedOnce
    BY DEF IInv
  <1> QED
    BY <1>1, IInvAlways, PTL

\* While requests do not overlap, the wrong passwords that reach the limit, with no login
\* and no administrator in between, leave the account not ACTIVE.
THEOREM LocksAtLimit == Spec => []LockedAfterLimit
  <1>1. IInv => LockedAfterLimit
    <2> SUFFICES ASSUME IInv, ~overlapped, Cardinality(Wrong) >= MaxFailed, ~Administered,
                        \A r \in Requests : ~Granted(r, "login")
                 PROVE  account.status = "LOCKED"
      BY DEF LockedAfterLimit, LockedAtLimit, Wrong, Administered
    <2>1. account.failed = Cardinality(Wrong)
      BY DEF IInv, CountIsExact
    <2> QED
      BY <2>1 DEF IInv, LimitMeansLocked, Administered
  <1> QED
    BY <1>1, IInvAlways, PTL

\* While requests do not overlap, a refresh is never granted with a token that a logout
\* was answered for.
THEOREM LogoutIsFinal == Spec => NoRefreshAfterLogout
  <1> DEFINE Kept == ~overlapped' => \A q, r \in Requests :
               pc[q] = "done" /\ task[q].op = "logout" /\ pc[r] # "granted" /\ Granted(r, "refresh")'
                 => task[q].token # task[r].token
  <1>1. IInv /\ [Next]_vars => [Kept]_vars
    <2> SUFFICES ASSUME IInv, Next, ~overlapped', NEW q \in Requests, NEW r \in Requests,
                        pc[q] = "done", task[q].op = "logout",
                        pc[r] # "granted", Granted(r, "refresh")'
                 PROVE  task[q].token # task[r].token
      OBVIOUS
    <2>1. CommitRotation(r) \/ CommitLogin(r) \/ CommitReset(r)
      <3> USE DEF IInv, TypeOK, Granted, Working
      <3>1. ASSUME NEW p \in Requests, Begin(p) PROVE FALSE
        <4>1. \A wanted, next : \A op \in Endpoints, token \in Requests :
                Start(p, op, token, wanted, next) /\ next # "granted" => pc'[r] # "granted"
          BY DEF Start
        <4> QED
          BY <3>1, <4>1 DEF Begin, Login, Refresh, Logout, ForgotPassword, ResetPassword,
             SetStatus, Endpoints
      <3>2. ASSUME NEW p \in Requests, CommitRotation(p) \/ CommitLogin(p) \/ CommitReset(p)
            PROVE  p = r
        BY <3>2 DEF CommitRotation, CommitLogin, CommitReset, Finish
      <3>3. ASSUME NEW p \in Requests, \/ CommitFailure(p) \/ ReadUser(p) \/ CommitLogout(p)
                                       \/ CommitResetToken(p) \/ CommitStatus(p) \/ Abort(p)
            PROVE  FALSE
        BY <3>3 DEF CommitFailure, ReadUser, CommitLogout, CommitResetToken, CommitStatus, Abort,
           Finish
      <3>4. ASSUME NEW k \in Requests, Expire(k) PROVE FALSE
        BY <3>4 DEF Expire
      <3> QED
        BY <3>1, <3>2, <3>3, <3>4 DEF Next, Commit
    <2>2. pc[r] = "rotate" /\ ~overlapped
      BY <2>1 DEF IInv, TypeOK, WorkFits, Granted, CommitRotation, CommitLogin, CommitReset, Finish
    <2> QED
      BY <2>2 DEF IInv, LoggedOut, ReadsAreCurrent, Working
  <1> QED
    BY <1>1, IInvAlways, PTL DEF Spec, NoRefreshAfterLogout
================================================================================
