------------------------------ MODULE AuthSessions -----------------------------
(***************************************************************************)
(* One account and its credentials: login with the failure counter, the    *)
(* refresh-token rows that login and refresh create and refresh and logout *)
(* revoke, password-reset tokens, and an administrator's change of the     *)
(* account's status (auth_service, user_service).                          *)
(*                                                                         *)
(* A handler reads rows without a lock, decides on that copy and commits   *)
(* its writes together.  The ORM writes values computed from the copy, and *)
(* only columns whose value differs from it.  Handlers that write the same *)
(* row queue for its lock and so commit one after the other: a handler's   *)
(* flush and COMMIT are one step here.                                     *)
(***************************************************************************)
EXTENDS Naturals, FiniteSets

CONSTANTS
  Requests,    \* HTTP requests; a token is named by the request that issued it
  Ops,         \* the endpoints they call
  Passwords,
  MaxFailed    \* _MAX_FAILED_ATTEMPTS

Endpoints == {"login", "refresh", "logout", "forgot", "reset", "setStatus"}

ASSUME RequestsAssumption == IsFiniteSet(Requests)
ASSUME OpsAssumption == Ops \subseteq Endpoints
ASSUME LimitAssumption == MaxFailed \in Nat \ {0}

VARIABLES
  account,   \* committed row of the user: status, failure counter, password
  sessions,  \* sessions[k]: the RefreshSession row whose jti request k minted
  resets,    \* resets[k]: the PasswordResetToken row request k minted
  expired,   \* tokens whose expires_at has passed
  pc,        \* where each request stands
  task,      \* its endpoint, the token it presents, and what it read
  overlapped \* history: two requests were being served at one time

vars == <<account, sessions, resets, expired, pc, task, overlapped>>

Statuses == {"ACTIVE", "INACTIVE", "LOCKED"}
Working == {"fail", "issue", "readUser", "rotate", "revoke", "mint", "change", "update"}
Answered == {"granted", "done", "denied", "wrongPassword", "aborted"}

\* status, failed and password hold the value read, or the one to write where the
\* request brings it; unused fields keep the values of NoTask.
Account == [status : Statuses, failed : Nat, password : Passwords]
Task == [op : Endpoints \cup {"none"}, token : Requests, wanted : Statuses \cup Passwords \cup {"none"},
         seen : Account]

TypeOK ==
  /\ account \in Account
  /\ sessions \in [Requests -> {"none", "live", "revoked"}]
  /\ resets \in [Requests -> {"none", "unused", "used"}]
  /\ expired \subseteq Requests
  /\ pc \in [Requests -> {"idle"} \cup Working \cup Answered]
  /\ task \in [Requests -> Task]
  /\ overlapped \in BOOLEAN

Init ==
  /\ account \in [status : {"ACTIVE"}, failed : {0}, password : Passwords]
  /\ sessions = [k \in Requests |-> "none"]
  /\ resets = [k \in Requests |-> "none"]
  /\ expired = {}
  /\ pc = [r \in Requests |-> "idle"]
  /\ task = [r \in Requests |-> [op |-> "none", token |-> r, wanted |-> "none", seen |-> account]]
  /\ overlapped = FALSE

--------------------------------------------------------------------------------
\* Request r calls endpoint op with a token and an argument, reads the account
\* and goes on at step next.
Start(r, op, token, wanted, next) ==
  /\ pc[r] = "idle" /\ op \in Ops
  /\ task' = [task EXCEPT ![r] = [op |-> op, token |-> token, wanted |-> wanted,
                                  seen |-> account]]
  /\ pc' = [pc EXCEPT ![r] = next]
  /\ overlapped' = (overlapped \/ \E q \in Requests : pc[q] \in Working)
  /\ UNCHANGED <<account, sessions, resets, expired>>

Finish(r, answer) == pc' = [pc EXCEPT ![r] = answer] /\ UNCHANGED <<task, overlapped>>

\* login(): the password first, then the status.
Login(r, p) ==
  Start(r, "login", r, p,
        IF p # account.password THEN "fail"
        ELSE IF account.status = "ACTIVE" THEN "issue" ELSE "denied")

\* Mutations of CommitFailure: the limit missed by one, and a failure counted twice.
CommitFailureLate(r) ==
  /\ pc[r] = "fail"
  /\ LET seen == task[r].seen IN
     account' = [account EXCEPT
       !.failed = seen.failed + 1,
       !.status = IF seen.failed + 1 > MaxFailed /\ seen.status # "LOCKED" THEN "LOCKED" ELSE @]
  /\ Finish(r, "wrongPassword")
  /\ UNCHANGED <<sessions, resets, expired>>
CommitFailureTwice(r) ==
  /\ pc[r] = "fail"
  /\ account' = [account EXCEPT !.failed = task[r].seen.failed + 2]
  /\ Finish(r, "wrongPassword")
  /\ UNCHANGED <<sessions, resets, expired>>

\* A wrong password: failed_login_attempts += 1 on the copy, LOCKED at the limit.
CommitFailure(r) ==
  /\ pc[r] = "fail"
  /\ LET seen == task[r].seen IN
     account' = [account EXCEPT
       !.failed = seen.failed + 1,
       !.status = IF seen.failed + 1 >= MaxFailed /\ seen.status # "LOCKED"
                  THEN "LOCKED" ELSE @]
  /\ Finish(r, "wrongPassword")
  /\ UNCHANGED <<sessions, resets, expired>>

\* A right password: the counter back to 0 unless it was read as 0, and a session.
CommitLogin(r) ==
  /\ pc[r] = "issue"
  /\ account' = [account EXCEPT !.failed = IF task[r].seen.failed # 0 THEN 0 ELSE @]
  /\ sessions' = [sessions EXCEPT ![r] = "live"]
  /\ Finish(r, "granted")
  /\ UNCHANGED <<resets, expired>>

\* refresh(): the token's row must be there, live and not expired ...
Refresh(r, k) ==
  /\ sessions[k] # "none"
  /\ Start(r, "refresh", k, "none",
           IF sessions[k] = "live" /\ k \notin expired THEN "readUser" ELSE "denied")

\* ... then, in a later SELECT, the account ACTIVE.
ReadUser(r) ==
  /\ pc[r] = "readUser"
  /\ Finish(r, IF account.status = "ACTIVE" THEN "rotate" ELSE "denied")
  /\ UNCHANGED <<account, sessions, resets, expired>>

\* Mutation of CommitRotation: the presented token is not revoked.
CommitRotationKeepingOld(r) ==
  /\ pc[r] = "rotate"
  /\ sessions' = [sessions EXCEPT ![r] = "live"]
  /\ Finish(r, "granted")
  /\ UNCHANGED <<account, resets, expired>>

\* Rotation: the presented token revoked and a new one inserted, in one commit.
CommitRotation(r) ==
  /\ pc[r] = "rotate"
  /\ sessions' = [sessions EXCEPT ![task[r].token] = "revoked", ![r] = "live"]
  /\ Finish(r, "granted")
  /\ UNCHANGED <<account, resets, expired>>

\* logout(): a token that no longer decodes is not an error, and nothing happens.
Logout(r, k) ==
  /\ sessions[k] # "none"
  /\ Start(r, "logout", k, "none", IF k \in expired THEN "done" ELSE "revoke")

\* Mutation of CommitLogout: the commit is missing.
CommitLogoutLost(r) ==
  /\ pc[r] = "revoke"
  /\ Finish(r, "done")
  /\ UNCHANGED <<account, sessions, resets, expired>>

CommitLogout(r) ==
  /\ pc[r] = "revoke"
  /\ sessions' = [sessions EXCEPT ![task[r].token] = "revoked"]
  /\ Finish(r, "done")
  /\ UNCHANGED <<account, resets, expired>>

\* request_password_reset(): a token for an ACTIVE account, the same answer always.
ForgotPassword(r) ==
  Start(r, "forgot", r, "none", IF account.status = "ACTIVE" THEN "mint" ELSE "done")

CommitResetToken(r) ==
  /\ pc[r] = "mint"
  /\ resets' = [resets EXCEPT ![r] = "unused"]
  /\ Finish(r, "done")
  /\ UNCHANGED <<account, sessions, expired>>

\* reset_password(): a token among the unused ones, not expired; the status of the
\* account and its sessions play no part.
ResetPassword(r, k, p) ==
  /\ resets[k] # "none"
  /\ Start(r, "reset", k, p,
           IF resets[k] = "unused" /\ k \notin expired THEN "change" ELSE "denied")

CommitReset(r) ==
  /\ pc[r] = "change"
  /\ account' = [account EXCEPT !.password = task[r].wanted]
  /\ resets' = [resets EXCEPT ![task[r].token] = "used"]
  /\ Finish(r, "granted")
  /\ UNCHANGED <<sessions, expired>>

\* update_user() and deactivate_user() by an administrator: the status is written
\* if it differs from the one read; the counter and the sessions stay.
SetStatus(r, s) == Start(r, "setStatus", r, s, "update")

CommitStatus(r) ==
  /\ pc[r] = "update"
  /\ account' = [account EXCEPT !.status = IF task[r].seen.status # task[r].wanted
                                           THEN task[r].wanted ELSE @]
  /\ Finish(r, "done")
  /\ UNCHANGED <<sessions, resets, expired>>

\* Time passes the expires_at of a token.
Expire(k) ==
  /\ sessions[k] # "none" \/ resets[k] # "none"
  /\ k \notin expired
  /\ expired' = expired \cup {k}
  /\ UNCHANGED <<account, sessions, resets, pc, task, overlapped>>

\* The request is cut short and rolled back.
Abort(r) ==
  /\ pc[r] \in Working
  /\ Finish(r, "aborted")
  /\ UNCHANGED <<account, sessions, resets, expired>>

Begin(r) ==
  \/ \E p \in Passwords : Login(r, p)
  \/ \E k \in Requests : Refresh(r, k) \/ Logout(r, k)
  \/ ForgotPassword(r)
  \/ \E k \in Requests, p \in Passwords : ResetPassword(r, k, p)
  \/ \E s \in Statuses : SetStatus(r, s)

Commit(r) ==
  \/ CommitFailure(r) \/ CommitLogin(r) \/ ReadUser(r) \/ CommitRotation(r)
  \/ CommitLogout(r) \/ CommitResetToken(r) \/ CommitReset(r) \/ CommitStatus(r)

Next ==
  \/ \E r \in Requests : Begin(r) \/ Commit(r) \/ Abort(r)
  \/ \E k \in Requests : Expire(k)

Spec == Init /\ [][Next]_vars

--------------------------------------------------------------------------------
(* Properties. *)

Granted(r, op) == pc[r] = "granted" /\ task[r].op = op

\* However logins race, the counter never exceeds the wrong passwords committed: a
\* stale copy may lose failures or bring back ones a login had cleared, but never
\* count one twice, so the account is not locked before its limit is reached.
FailuresNotOvercounted ==
  account.failed <= Cardinality({r \in Requests : pc[r] = "wrongPassword"})

\* The counter at its limit means a LOCKED account, until an administrator sets the
\* status: a stale commit never writes one without the other.
LimitMeansLocked ==
  (\A r \in Requests : ~(pc[r] = "done" /\ task[r].op = "setStatus"))
    => (account.failed >= MaxFailed => account.status = "LOCKED")

\* Rotation is atomic: a session issued by refresh() exists only with the session
\* it replaces revoked, so a chain of refreshes has one live end at most.
ReplacedIsRevoked ==
  \A r \in Requests :
    sessions[r] # "none" /\ task[r].op = "refresh" => sessions[task[r].token] = "revoked"

UsedOnce(op) ==
  \A q, r \in Requests :
    Granted(q, op) /\ Granted(r, op) /\ task[q].token = task[r].token => q = r

LockedAtLimit ==
  Cardinality({r \in Requests : pc[r] = "wrongPassword"}) >= MaxFailed
    /\ (\A r \in Requests : ~Granted(r, "login")
                            /\ ~(pc[r] = "done" /\ task[r].op = "setStatus"))
    => account.status # "ACTIVE"

\* As long as no two requests are served at one time, refresh() and reset_password() grant
\* a token once: the check of revoked or used and the write of it have nobody between them.
TokensUsedOnce == ~overlapped => UsedOnce("refresh") /\ UsedOnce("reset")

\* As long as no two requests are served at one time, an account whose wrong passwords
\* reached the limit of login(), with no login and no administrator in between, is locked.
LockedAfterLimit == ~overlapped => LockedAtLimit

\* auth_service.py says of logout that it flips revoked, "which refresh() checks on
\* every use": while requests do not overlap, no refresh of a token is granted once a
\* logout with it is answered.
NoRefreshAfterLogout ==
  [][~overlapped' => \A q, r \in Requests :
       pc[q] = "done" /\ task[q].op = "logout" /\ pc[r] # "granted" /\ Granted(r, "refresh")'
         => task[q].token # task[r].token]_vars
================================================================================
