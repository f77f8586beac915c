----------------------------- MODULE BrowserSession ----------------------------
(***************************************************************************)
(* The frontend's session (core/auth/auth.service.ts and the interceptor   *)
(* in core/http): tabs of one browser that share the token pair in         *)
(* localStorage, API calls that answer late, the silent refresh and retry  *)
(* after a 401, login, logout and page reload.  Of the backend this module *)
(* has the refresh tokens, checked in one step and rotated in a later one, *)
(* and the expiry of access tokens; the user's status, the failed logins   *)
(* and the rest of it are the matter of AuthSessions.                      *)
(***************************************************************************)
EXTENDS Naturals, FiniteSets

CONSTANTS
  Tabs, Users,
  MaxPairs,  \* bound on the token pairs the backend issues
  Calls,     \* API calls: the bound of an instance
  Null,
  Acts       \* what users and the network do: "login", "logout", "reload", "error"

ASSUME PairsAssumption == MaxPairs \in Nat \ {0} /\ Null \notin Nat
ASSUME ActsAssumption == Acts \subseteq {"login", "logout", "reload", "error"}

VARIABLES
  owner,         \* owner[k]: the user token pair k was issued to
  refreshToken,  \* refreshToken[k]: its RefreshSession row
  expired,       \* pairs whose access token is known to have expired
  abandoned,     \* tokens of requests nobody waits for that the backend has yet to process
  storage,       \* the pair in localStorage
  currentUser,   \* the currentUser signal of each tab
  refreshing,    \* refreshInFlight$ of each tab, with the backend's answer
  signing,       \* the login or logout POST of each tab
  calls,         \* the other HTTP calls, /auth/me among them
  cutOff         \* history: stored tokens whose rotation or logout a reload left unanswered

browser == <<storage, currentUser>>
backend == <<owner, refreshToken, expired, abandoned>>
vars == <<backend, browser, refreshing, signing, calls, cutOff>>

Pairs == 1..MaxPairs
PairOrNull == Pairs \cup {Null}
NoRefresh == [state |-> "none", token |-> Null, pair |-> Null]
NotSigning == [state |-> "none", user |-> Null, pair |-> Null]
Idle == [state |-> "idle", tab |-> Null, kind |-> "api", pair |-> Null, retried |-> FALSE]
Ended(state) == [Idle EXCEPT !.state = state]

Settled(c) == calls[c].state \in {"done", "failed"}

TypeOK ==
  /\ owner \in [Pairs -> Users \cup {Null}]
  /\ refreshToken \in [Pairs -> {"none", "live", "revoked"}]
  /\ expired \subseteq Pairs
  /\ abandoned \subseteq Pairs
  /\ storage \in PairOrNull
  /\ currentUser \in [Tabs -> Users \cup {Null}]
  /\ refreshing \in [Tabs -> [state : {"none", "sent", "checked", "granted", "refused"},
                              token : PairOrNull, pair : PairOrNull]]
  /\ signing \in [Tabs -> [state : {"none", "login", "loggedIn", "logout", "loggedOut"},
                           user : Users \cup {Null}, pair : PairOrNull]]
  /\ calls \in [Calls -> [state : {"idle", "sent", "200", "401", "error", "waiting",
                                   "done", "failed"},
                          tab : Tabs \cup {Null}, kind : {"api", "me", "bootstrap"},
                          pair : PairOrNull, retried : BOOLEAN]]
  /\ cutOff \subseteq Pairs

\* A user is signed in on every tab; the first pair is the stored one.
Init ==
  \E u \in Users :
    /\ owner = [k \in Pairs |-> IF k = 1 THEN u ELSE Null]
    /\ refreshToken = [k \in Pairs |-> IF k = 1 THEN "live" ELSE "none"]
    /\ expired = {}
    /\ abandoned = {}
    /\ storage = 1
    /\ currentUser = [t \in Tabs |-> u]
    /\ refreshing = [t \in Tabs |-> NoRefresh]
    /\ signing = [t \in Tabs |-> NotSigning]
    /\ calls = [c \in Calls |-> Idle]
    /\ cutOff = {}

--------------------------------------------------------------------------------
(* The backend. *)

\* Pairs are issued in the order of their numbers.
Issue(k, u) ==
  /\ refreshToken[k] = "none" /\ \A j \in 1..(k - 1) : refreshToken[j] # "none"
  /\ owner' = [owner EXCEPT ![k] = u]

\* An authenticated route answers 401 without an access token or with one past its exp, else
\* 200 or an error (403, 409, 5xx, no connection).  The token may have reached its exp at any
\* time since the last answer it got.
AnswerCall(c) ==
  /\ calls[c].state = "sent"
  /\ \/ /\ calls[c].pair \notin expired \cup {Null}
        /\ calls' = [calls EXCEPT ![c].state = "200"]
        /\ UNCHANGED expired
     \/ /\ calls' = [calls EXCEPT ![c].state = "401"]
        /\ expired' = expired \cup ({calls[c].pair} \ {Null})
     \/ /\ "error" \in Acts
        /\ calls' = [calls EXCEPT ![c].state = "error"]
        /\ UNCHANGED expired
  /\ UNCHANGED <<owner, refreshToken, abandoned, browser, refreshing, signing, cutOff>>

\* /auth/refresh up to its commit: a token that is not live is refused.
CheckRefresh(t) ==
  /\ refreshing[t].state = "sent"
  /\ refreshing' = [refreshing EXCEPT ![t].state =
                      IF refreshToken[refreshing[t].token] = "live" THEN "checked" ELSE "refused"]
  /\ UNCHANGED <<backend, browser, signing, calls, cutOff>>

\* Its commit: the token is rotated, even if another request has rotated it since.  If the
\* answer is lost the tab takes it for a refusal.
CommitRefresh(t) ==
  /\ refreshing[t].state = "checked"
  /\ LET token == refreshing[t].token IN
     \E k \in Pairs :
       /\ Issue(k, owner[token])
       /\ refreshToken' = [refreshToken EXCEPT ![token] = "revoked", ![k] = "live"]
       /\ \/ refreshing' = [refreshing EXCEPT ![t].state = "granted", ![t].pair = k]
          \/ "error" \in Acts /\ refreshing' = [refreshing EXCEPT ![t].state = "refused"]
  /\ UNCHANGED <<expired, abandoned, browser, signing, calls, cutOff>>

\* The connection is lost while the backend is still at it.
LoseRefresh(t) ==
  /\ "error" \in Acts
  /\ refreshing[t].state \in {"sent", "checked"}
  /\ refreshing' = [refreshing EXCEPT ![t].state = "refused"]
  /\ abandoned' = abandoned \cup {refreshing[t].token}
  /\ UNCHANGED <<owner, refreshToken, expired, browser, signing, calls, cutOff>>

AnswerRefresh(t) == CheckRefresh(t) \/ CommitRefresh(t) \/ LoseRefresh(t)

\* The backend gets to such a refresh or logout after all, if it ever does.  The pair a refresh
\* then issues reaches no tab and is not followed.
ProcessAbandoned(k) ==
  /\ k \in abandoned
  /\ refreshToken' = [refreshToken EXCEPT ![k] = "revoked"]
  /\ abandoned' = abandoned \ {k}
  /\ UNCHANGED <<owner, expired, browser, refreshing, signing, calls, cutOff>>

AnswerSigning(t) ==
  /\ \/ /\ signing[t].state = "login"
        /\ \E k \in Pairs :
             /\ Issue(k, signing[t].user)
             /\ refreshToken' = [refreshToken EXCEPT ![k] = "live"]
             /\ signing' = [signing EXCEPT ![t].state = "loggedIn", ![t].pair = k]
        /\ UNCHANGED abandoned
     \/ /\ signing[t].state = "logout"
        /\ \/ /\ refreshToken' = [refreshToken EXCEPT ![signing[t].pair] = "revoked"]
              /\ UNCHANGED abandoned
           \/ /\ "error" \in Acts
              /\ abandoned' = abandoned \cup {signing[t].pair}
              /\ UNCHANGED refreshToken
        /\ signing' = [signing EXCEPT ![t].state = "loggedOut"]
        /\ UNCHANGED owner
     \/ /\ signing[t].state = "login" /\ "error" \in Acts
        /\ signing' = [signing EXCEPT ![t] = NotSigning]
        /\ UNCHANGED <<owner, refreshToken, abandoned>>
  /\ UNCHANGED <<expired, browser, refreshing, calls, cutOff>>

--------------------------------------------------------------------------------
(* A tab. *)

ClearSession(t) == storage' = Null /\ currentUser' = [currentUser EXCEPT ![t] = Null]

\* The interceptor attaches the access token stored when the call is made.
Request(t, kind, pair) ==
  [state |-> "sent", tab |-> t, kind |-> kind, pair |-> pair, retried |-> FALSE]

Send(c, t) ==
  /\ calls[c].state = "idle" /\ currentUser[t] # Null
  /\ calls' = [calls EXCEPT ![c] = Request(t, "api", storage)]
  /\ UNCHANGED <<backend, browser, refreshing, signing, cutOff>>

\* A 200; the answer of /auth/me says who the token's user is.
ReceiveOk(c) ==
  /\ calls[c].state = "200"
  /\ calls' = [calls EXCEPT ![c] = Ended("done")]
  /\ currentUser' = IF calls[c].kind = "api" THEN currentUser
                    ELSE [currentUser EXCEPT ![calls[c].tab] = owner[calls[c].pair]]
  /\ UNCHANGED <<backend, storage, refreshing, signing, cutOff>>

\* A 401 to a first attempt: join the tab's refresh in flight, or start one; without
\* a refresh token the session is over.
Receive401(c) ==
  /\ calls[c].state = "401" /\ ~calls[c].retried
  /\ LET t == calls[c].tab IN
     \/ /\ refreshing[t].state # "none"
        /\ calls' = [calls EXCEPT ![c].state = "waiting"]
        /\ UNCHANGED <<browser, refreshing>>
     \/ /\ refreshing[t].state = "none" /\ storage # Null
        /\ refreshing' = [refreshing EXCEPT ![t] = [NoRefresh EXCEPT !.state = "sent",
                                                                     !.token = storage]]
        /\ calls' = [calls EXCEPT ![c].state = "waiting"]
        /\ UNCHANGED browser
     \/ /\ refreshing[t].state = "none" /\ storage = Null
        /\ calls' = [calls EXCEPT ![c] = Ended("failed")]
        /\ ClearSession(t)
        /\ UNCHANGED refreshing
  /\ UNCHANGED <<backend, signing, cutOff>>

\* Any other error to a first attempt is the caller's; bootstrap() clears the session.
ReceiveError(c) ==
  /\ calls[c].state = "error" /\ ~calls[c].retried
  /\ calls' = [calls EXCEPT ![c] = Ended("failed")]
  /\ IF calls[c].kind = "bootstrap" THEN ClearSession(calls[c].tab) ELSE UNCHANGED browser
  /\ UNCHANGED <<backend, refreshing, signing, cutOff>>

\* The interceptor's outer catchError also sees every error of the retried call.
ReceiveRetryError(c) ==
  /\ calls[c].state \in {"401", "error"} /\ calls[c].retried
  /\ calls' = [calls EXCEPT ![c] = Ended("failed")]
  /\ ClearSession(calls[c].tab)
  /\ UNCHANGED <<backend, refreshing, signing, cutOff>>

\* Mutation of Waiters: only the call that started the refresh hears of its answer.
OneWaiter(t) ==
  LET waiting == {c \in Calls : calls[c].state = "waiting" /\ calls[c].tab = t}
  IN  {c \in waiting : c = CHOOSE d \in waiting : TRUE}

\* The calls that joined the refresh of tab t.
Waiters(t) == {c \in Calls : calls[c].state = "waiting" /\ calls[c].tab = t}

\* Mutation of StoreTokens: a refresh leaves the stored pair alone.
StoreFirstTokens(pair) == storage' = IF storage = Null THEN pair ELSE storage

StoreTokens(pair) == storage' = pair

\* The refresh answers: the pair is stored and every waiting call of the tab retried
\* with it, or the session is over for all of them.
ReceiveRefresh(t) ==
  /\ \/ /\ refreshing[t].state = "granted"
        /\ StoreTokens(refreshing[t].pair)
        /\ calls' = [c \in Calls |->
             IF c \in Waiters(t)
             THEN [calls[c] EXCEPT !.state = "sent", !.pair = refreshing[t].pair, !.retried = TRUE]
             ELSE calls[c]]
        /\ UNCHANGED currentUser
     \/ /\ refreshing[t].state = "refused"
        /\ ClearSession(t)
        /\ calls' = [c \in Calls |-> IF c \in Waiters(t)
                                     THEN Ended("failed") ELSE calls[c]]
  /\ refreshing' = [refreshing EXCEPT ![t] = NoRefresh]
  /\ UNCHANGED <<backend, signing, cutOff>>

\* A bound: pairs left once every open call and login has had one.
PairsForLogin ==
  Cardinality({k \in Pairs : refreshToken[k] = "none"})
    - Cardinality({c \in Calls : ~Settled(c) /\ ~calls[c].retried})
    - Cardinality({t \in Tabs : signing[t].state = "login"})

\* The form takes no second submission before the first has its user, and there is no
\* form before bootstrap() is through.
Login(t, u) ==
  /\ "login" \in Acts
  /\ currentUser[t] = Null /\ signing[t].state = "none"
  /\ \A c \in Calls : calls[c].tab = t /\ calls[c].kind # "api" => Settled(c)
  /\ PairsForLogin > 0
  /\ signing' = [signing EXCEPT ![t] = [NotSigning EXCEPT !.state = "login", !.user = u]]
  /\ UNCHANGED <<backend, browser, refreshing, calls, cutOff>>

\* logout() posts the stored refresh token, or just clears.
Logout(t) ==
  /\ "logout" \in Acts
  /\ currentUser[t] # Null /\ signing[t].state = "none"
  /\ \/ /\ storage = Null
        /\ ClearSession(t)
        /\ UNCHANGED signing
     \/ /\ storage # Null
        /\ signing' = [signing EXCEPT ![t] = [NotSigning EXCEPT !.state = "logout", !.pair = storage]]
        /\ UNCHANGED browser
  /\ UNCHANGED <<backend, refreshing, calls, cutOff>>

\* The login stores its tokens and asks /auth/me; the logout clears the session.
ReceiveSigning(t) ==
  /\ \/ /\ signing[t].state = "loggedIn"
        /\ StoreTokens(signing[t].pair)
        /\ \E c \in Calls : /\ calls[c].state = "idle"
                            /\ calls' = [calls EXCEPT ![c] = Request(t, "me", signing[t].pair)]
        /\ UNCHANGED currentUser
     \/ /\ signing[t].state = "loggedOut"
        /\ ClearSession(t)
        /\ UNCHANGED calls
  /\ signing' = [signing EXCEPT ![t] = NotSigning]
  /\ UNCHANGED <<backend, refreshing, cutOff>>

\* The tokens of requests the backend has yet to process.
Unprocessed(t) ==
  {k \in Pairs :
     \/ refreshing[t].state \in {"sent", "checked"} /\ refreshing[t].token = k
     \/ signing[t].state = "logout" /\ signing[t].pair = k}

\* The page is reloaded: what was in flight is forgotten by the tab, and bootstrap() asks
\* /auth/me if there is a refresh token.
Reload(t) ==
  /\ "reload" \in Acts
  /\ LET dropped == [c \in Calls |-> IF calls[c].tab = t THEN Ended("failed") ELSE calls[c]]
     IN IF storage = Null THEN calls' = dropped
        ELSE \E c \in Calls : /\ calls[c].state = "idle"
                              /\ calls' = [dropped EXCEPT ![c] = Request(t, "bootstrap", storage)]
  /\ currentUser' = [currentUser EXCEPT ![t] = Null]
  /\ refreshing' = [refreshing EXCEPT ![t] = NoRefresh]
  /\ signing' = [signing EXCEPT ![t] = NotSigning]
  /\ cutOff' = cutOff \cup ({refreshing[t].token, signing[t].pair} \cap ({storage} \ {Null}))
  /\ abandoned' = abandoned \cup Unprocessed(t)
  /\ UNCHANGED <<owner, refreshToken, expired, storage>>

Receive(c) == ReceiveOk(c) \/ Receive401(c) \/ ReceiveError(c) \/ ReceiveRetryError(c)

Next ==
  \/ \E k \in Pairs : ProcessAbandoned(k)
  \/ \E c \in Calls : AnswerCall(c) \/ Receive(c)
  \/ \E t \in Tabs : AnswerRefresh(t) \/ ReceiveRefresh(t)
  \/ \E t \in Tabs : AnswerSigning(t) \/ ReceiveSigning(t)
  \/ \E c \in Calls, t \in Tabs : Send(c, t)
  \/ \E t \in Tabs : Logout(t) \/ Reload(t)
  \/ \E t \in Tabs, u \in Users : Login(t, u)

Spec == Init /\ [][Next]_vars

\* Every request is answered or errors out, and the tab's event loop delivers it.
Fairness ==
  /\ \A c \in Calls : WF_vars(AnswerCall(c)) /\ WF_vars(Receive(c))
  /\ \A t \in Tabs : WF_vars(AnswerRefresh(t)) /\ WF_vars(ReceiveRefresh(t))

FairSpec == Spec /\ Fairness

--------------------------------------------------------------------------------
(* Properties. *)

\* A call that waits for a refresh waits for one that is in flight on its tab: finalize()
\* forgets refreshInFlight$ only when its answer has reached every call that joined it.
NoOrphanedWaiters ==
  \A c \in Calls : calls[c].state = "waiting" => refreshing[calls[c].tab].state # "none"

\* Once no refresh, login or logout is in flight, the stored refresh token is one the
\* backend still accepts: in however many tabs they overlap, none is left with a token
\* already spent, but for those a reload kept from hearing of their rotation.
StorageHoldsLiveToken ==
  (/\ storage # Null /\ storage \notin cutOff
   /\ \A t \in Tabs : refreshing[t].state = "none" /\ signing[t].state = "none")
    => refreshToken[storage] = "live"

\* Every call the interceptor sees ends in an answer or an error for its caller; none is
\* left waiting for a refresh, its retry or another call's refresh.
CallsSettle ==
  \A c \in Calls : calls[c].state = "sent" ~> Settled(c)
================================================================================
