-------------------------- MODULE BrowserSessionProofs -------------------------
(***************************************************************************)
(* The frontend's session for any number of tabs, users, calls and token   *)
(* pairs.  The heart of it is where a pair can be: one just issued is held *)
(* by the one tab that asked for it, unspent and unknown to every other,   *)
(* until that tab stores it; one that is stored and spent was spent by a   *)
(* refresh or a logout whose tab is still to overwrite it.                 *)
(***************************************************************************)
EXTENDS BrowserSession, TLAPS

\* A call under way belongs to a tab, and a 200 was given for an access token.
CallsAreOfTabs ==
  \A c \in Calls :
    /\ calls[c].state \notin {"idle", "done", "failed"} => calls[c].tab \in Tabs
    /\ calls[c].state = "200" => calls[c].pair # Null

\* The tabs that hold a pair they have not stored yet.
Granted(t, k) == refreshing[t].state = "granted" /\ refreshing[t].pair = k
LoggedIn(t, k) == signing[t].state = "loggedIn" /\ signing[t].pair = k

\* What a tab sent or had answered needs a token; what it was given is a pair.
InFlight ==
  \A t \in Tabs :
    /\ refreshing[t].state # "none" => refreshing[t].token \in Pairs
    /\ refreshing[t].state = "granted" => refreshing[t].pair \in Pairs
    /\ signing[t].state \in {"logout", "loggedOut", "loggedIn"} => signing[t].pair \in Pairs

\* The tokens the browser has shown to the backend, or may yet show.
Presented(k) ==
  \/ storage = k
  \/ \E t \in Tabs : refreshing[t].state # "none" /\ refreshing[t].token = k
  \/ \E t \in Tabs : signing[t].state \in {"logout", "loggedOut"} /\ signing[t].pair = k
  \/ k \in abandoned

PresentedWereIssued == \A k \in Pairs : Presented(k) => refreshToken[k] # "none"

HeldAreFresh ==
  \A k \in Pairs, t \in Tabs :
    Granted(t, k) \/ LoggedIn(t, k) => refreshToken[k] = "live" /\ ~Presented(k)

HeldByOne ==
  \A k \in Pairs, s, t \in Tabs :
    /\ Granted(s, k) /\ Granted(t, k) => s = t
    /\ LoggedIn(s, k) /\ LoggedIn(t, k) => s = t
    /\ ~(Granted(s, k) /\ LoggedIn(t, k))

SpentWillBeReplaced ==
  \A k \in Pairs :
    storage = k /\ (refreshToken[k] = "revoked" \/ k \in abandoned) /\ k \notin cutOff =>
      \E t \in Tabs :
        \/ refreshing[t].state \in {"granted", "refused"} /\ refreshing[t].token = k
        \/ signing[t].state = "loggedOut" /\ signing[t].pair = k

SessionInv ==
  /\ InFlight
  /\ PresentedWereIssued
  /\ HeldAreFresh
  /\ HeldByOne
  /\ SpentWillBeReplaced

IInv ==
  /\ TypeOK
  /\ CallsAreOfTabs
  /\ NoOrphanedWaiters
  /\ SessionInv

--------------------------------------------------------------------------------
LEMMA InitIInv == Init => IInv
  <1> SUFFICES ASSUME Init PROVE IInv
    OBVIOUS
  <1>1. PICK u \in Users :
          /\ owner = [k \in Pairs |-> IF k = 1 THEN u ELSE Null]
          /\ currentUser = [t \in Tabs |-> u]
    BY DEF Init
  <1>2. 1 \in Pairs
    BY PairsAssumption DEF Pairs
  <1>3. /\ refreshToken = [k \in Pairs |-> IF k = 1 THEN "live" ELSE "none"]
        /\ expired = {} /\ abandoned = {} /\ storage = 1 /\ cutOff = {}
        /\ refreshing = [t \in Tabs |-> NoRefresh]
        /\ signing = [t \in Tabs |-> NotSigning]
        /\ calls = [c \in Calls |-> Idle]
    BY DEF Init
  <1>4. TypeOK
    BY <1>1, <1>2, <1>3 DEF TypeOK, PairOrNull, NoRefresh, NotSigning, Idle
  <1>5. CallsAreOfTabs /\ NoOrphanedWaiters
    BY <1>3 DEF CallsAreOfTabs, NoOrphanedWaiters, Idle
  <1>6. SessionInv
    BY <1>2, <1>3 DEF SessionInv, InFlight, PresentedWereIssued, Presented, HeldAreFresh, HeldByOne,
       SpentWillBeReplaced, Granted, LoggedIn, NoRefresh, NotSigning
  <1> QED
    BY <1>4, <1>5, <1>6 DEF IInv

\* A tab may forget what it was about, and the session be cleared: only a token that is still
\* stored needs the tab that spent it, or to be known as cut off.
LEMMA ForgettingKeepsSession ==
  ASSUME SessionInv, UNCHANGED refreshToken, cutOff \subseteq cutOff',
         \A t \in Tabs : refreshing'[t] = refreshing[t] \/ refreshing'[t] = NoRefresh,
         \A t \in Tabs : signing'[t] = signing[t] \/ signing'[t] = NotSigning,
         \/ UNCHANGED abandoned
         \/ \A k \in abandoned' : k \in abandoned \/ (Presented(k) /\ (storage = k => k \in cutOff')),
         \/ storage' = Null
         \/ /\ storage' = storage
            /\ \A t \in Tabs :
                 /\ refreshing[t].state # "none" /\ refreshing[t].token = storage
                      => refreshing'[t] = refreshing[t] \/ storage \in cutOff'
                 /\ signing[t].state = "loggedOut" /\ signing[t].pair = storage
                      => signing'[t] = signing[t] \/ storage \in cutOff'
  PROVE  SessionInv'
  <1> USE DEF SessionInv
  <1>0. /\ NoRefresh.state = "none" /\ NotSigning.state = "none"
        /\ \A k \in Pairs : k # Null
    BY PairsAssumption DEF NoRefresh, NotSigning, Pairs
  <1> HIDE DEF NoRefresh, NotSigning
  <1>1. \A k \in Pairs : Presented(k)' => Presented(k)
    BY <1>0 DEF Presented
  <1>2. \A k \in Pairs, t \in Tabs : (Granted(t, k)' => Granted(t, k)) /\ (LoggedIn(t, k)' => LoggedIn(t, k))
    BY <1>0 DEF Granted, LoggedIn
  <1>3. InFlight'
    BY <1>0 DEF InFlight
  <1>4. PresentedWereIssued'
    BY <1>1 DEF PresentedWereIssued
  <1>5. HeldAreFresh'
    BY <1>1, <1>2 DEF HeldAreFresh
  <1>6. HeldByOne'
    BY <1>2 DEF HeldByOne
  <1>7. SpentWillBeReplaced'
    BY <1>0 DEF SpentWillBeReplaced
  <1> QED
    BY <1>3, <1>4, <1>5, <1>6, <1>7

\* A tab stores the pair it holds and is done with the request that brought it.
LEMMA StoringKeepsSession ==
  ASSUME TypeOK, SessionInv, UNCHANGED <<refreshToken, abandoned, cutOff>>,
         NEW t \in Tabs, NEW k \in Pairs,
         storage' = k,
         \/ Granted(t, k) /\ refreshing' = [refreshing EXCEPT ![t] = NoRefresh] /\ UNCHANGED signing
         \/ LoggedIn(t, k) /\ signing' = [signing EXCEPT ![t] = NotSigning] /\ UNCHANGED refreshing
  PROVE  SessionInv'
  <1> USE DEF SessionInv
  <1>0. /\ NoRefresh.state = "none" /\ NotSigning.state = "none"
        /\ k # Null /\ refreshToken[k] = "live"
    BY PairsAssumption DEF NoRefresh, NotSigning, Pairs, HeldAreFresh
  <1>1. /\ \A s \in Tabs : refreshing'[s] = refreshing[s] \/ refreshing'[s] = NoRefresh
        /\ \A s \in Tabs : signing'[s] = signing[s] \/ signing'[s] = NotSigning
    BY DEF TypeOK
  <1>2. \A j \in Pairs : Presented(j)' => Presented(j) \/ j = k
    BY <1>0, <1>1 DEF Presented
  <1>3. \A j \in Pairs, s \in Tabs : (Granted(s, j)' => Granted(s, j)) /\ (LoggedIn(s, j)' => LoggedIn(s, j))
    BY <1>0, <1>1 DEF Granted, LoggedIn
  <1>4. \A s \in Tabs : ~Granted(s, k)' /\ ~LoggedIn(s, k)'
    <2>1. CASE Granted(t, k) /\ refreshing' = [refreshing EXCEPT ![t] = NoRefresh]
      BY <1>0, <1>3, <2>1 DEF HeldByOne, Granted, TypeOK
    <2>2. CASE LoggedIn(t, k) /\ signing' = [signing EXCEPT ![t] = NotSigning]
      BY <1>0, <1>3, <2>2 DEF HeldByOne, LoggedIn, TypeOK
    <2> QED
      BY <2>1, <2>2
  <1>5. InFlight'
    BY <1>0, <1>1 DEF InFlight
  <1>6. PresentedWereIssued'
    BY <1>0, <1>2 DEF PresentedWereIssued
  <1>7. HeldAreFresh'
    BY <1>2, <1>3, <1>4 DEF HeldAreFresh
  <1>8. HeldByOne'
    BY <1>3 DEF HeldByOne
  <1>9. SpentWillBeReplaced'
    <2>1. k \notin abandoned
      BY DEF HeldAreFresh, Presented
    <2> QED
      BY <1>0, <2>1 DEF SpentWillBeReplaced
  <1> QED
    BY <1>5, <1>6, <1>7, <1>8, <1>9

--------------------------------------------------------------------------------
\* The session is about the tabs' requests, the store and the tokens, not about calls.
LEMMA OtherStepsKeepSession ==
  ASSUME SessionInv, UNCHANGED <<refreshToken, abandoned, storage, refreshing, signing, cutOff>>
  PROVE  SessionInv'
  BY ForgettingKeepsSession

\* A 401 starts a refresh with the stored token.
LEMMA StartingKeepsSession ==
  ASSUME TypeOK, SessionInv, NEW t \in Tabs, storage # Null,
         refreshing[t].state = "none",
         refreshing' = [refreshing EXCEPT ![t] = [NoRefresh EXCEPT !.state = "sent", !.token = storage]],
         UNCHANGED <<refreshToken, abandoned, storage, signing, cutOff>>
  PROVE  SessionInv'
  <1> USE DEF SessionInv
  <1>0. storage \in Pairs
    BY DEF TypeOK, PairOrNull
  <1>1. /\ refreshing'[t].state = "sent" /\ refreshing'[t].token = storage
        /\ \A s \in Tabs \ {t} : refreshing'[s] = refreshing[s]
    BY DEF TypeOK, NoRefresh
  <1>2. \A j \in Pairs : Presented(j)' => Presented(j)
    BY <1>1 DEF Presented
  <1>3. \A j \in Pairs, s \in Tabs : (Granted(s, j)' => Granted(s, j)) /\ (LoggedIn(s, j)' => LoggedIn(s, j))
    BY <1>1 DEF Granted, LoggedIn
  <1>4. InFlight'
    BY <1>0, <1>1 DEF InFlight
  <1>5. PresentedWereIssued' /\ HeldAreFresh'
    BY <1>2, <1>3 DEF PresentedWereIssued, HeldAreFresh
  <1>6. HeldByOne'
    BY <1>3 DEF HeldByOne
  <1>7. SpentWillBeReplaced'
    BY <1>1 DEF SpentWillBeReplaced
  <1> QED
    BY <1>4, <1>5, <1>6, <1>7

\* A login or logout is posted.
LEMMA PostingKeepsSession ==
  ASSUME TypeOK, SessionInv, NEW t \in Tabs, NEW form,
         signing[t].state = "none", signing' = [signing EXCEPT ![t] = form],
         form.state = "login" \/ (form.state = "logout" /\ form.pair = storage /\ storage # Null),
         UNCHANGED <<refreshToken, abandoned, storage, refreshing, cutOff>>
  PROVE  SessionInv'
  <1> USE DEF SessionInv
  <1>0. storage \in PairOrNull
    BY DEF TypeOK
  <1>1. signing'[t] = form /\ \A s \in Tabs \ {t} : signing'[s] = signing[s]
    BY DEF TypeOK
  <1>2. \A j \in Pairs : Presented(j)' => Presented(j)
    BY <1>1 DEF Presented
  <1>3. \A j \in Pairs, s \in Tabs : (Granted(s, j)' => Granted(s, j)) /\ (LoggedIn(s, j)' => LoggedIn(s, j))
    BY <1>1 DEF Granted, LoggedIn
  <1>4. InFlight'
    BY <1>0, <1>1 DEF InFlight, PairOrNull
  <1>5. PresentedWereIssued' /\ HeldAreFresh'
    BY <1>2, <1>3 DEF PresentedWereIssued, HeldAreFresh
  <1>6. HeldByOne'
    BY <1>3 DEF HeldByOne
  <1>7. SpentWillBeReplaced'
    BY <1>1 DEF SpentWillBeReplaced
  <1> QED
    BY <1>4, <1>5, <1>6, <1>7

\* A pair that was not issued is in no tab and not stored.
LEMMA UnissuedIsUnknown ==
  ASSUME SessionInv, NEW k \in Pairs, refreshToken[k] = "none"
  PROVE  ~Presented(k) /\ \A t \in Tabs : ~Granted(t, k) /\ ~LoggedIn(t, k)
  BY DEF SessionInv, PresentedWereIssued, HeldAreFresh

\* The refresh of a tab is checked, or refused, or its connection lost with the token unprocessed.
LEMMA AdvancingKeepsSession ==
  ASSUME TypeOK, SessionInv, NEW t \in Tabs, NEW state \in {"checked", "refused"},
         refreshing[t].state \in {"sent", "checked"},
         refreshing' = [refreshing EXCEPT ![t].state = state],
         \/ UNCHANGED abandoned
         \/ state = "refused" /\ abandoned' = abandoned \cup {refreshing[t].token},
         UNCHANGED <<refreshToken, storage, signing, cutOff>>
  PROVE  SessionInv'
  <1> USE DEF SessionInv
  <1> DEFINE token == refreshing[t].token
  <1>0. token \in Pairs /\ Presented(token)
    BY DEF InFlight, Presented
  <1>1. /\ refreshing'[t].state = state /\ refreshing'[t].token = token
        /\ \A s \in Tabs \ {t} : refreshing'[s] = refreshing[s]
    BY DEF TypeOK
  <1>2. \A j \in Pairs : Presented(j)' => Presented(j)
    BY <1>0, <1>1 DEF Presented
  <1>3. \A j \in Pairs, s \in Tabs : (Granted(s, j)' => Granted(s, j)) /\ (LoggedIn(s, j)' => LoggedIn(s, j))
    BY <1>1 DEF Granted, LoggedIn
  <1>4. InFlight'
    BY <1>0, <1>1 DEF InFlight
  <1>5. PresentedWereIssued' /\ HeldAreFresh'
    BY <1>2, <1>3 DEF PresentedWereIssued, HeldAreFresh
  <1>6. HeldByOne'
    BY <1>3 DEF HeldByOne
  <1>7. SpentWillBeReplaced'
    BY <1>1 DEF SpentWillBeReplaced
  <1> QED
    BY <1>4, <1>5, <1>6, <1>7

\* The token is rotated, whatever became of it since its check: no tab holds a token that was
\* shown to the backend.
LEMMA CommitRefreshKeepsSession ==
  ASSUME TypeOK, SessionInv, NEW t \in Tabs, CommitRefresh(t)
  PROVE  SessionInv'
  <1> USE DEF SessionInv
  <1> DEFINE token == refreshing[t].token
  <1>0. /\ refreshing[t].state = "checked" /\ token \in Pairs /\ Presented(token)
        /\ UNCHANGED <<abandoned, storage, signing, cutOff>>
    BY DEF CommitRefresh, InFlight, Presented, browser
  <1>1. PICK k \in Pairs :
          /\ refreshToken[k] = "none"
          /\ refreshToken' = [refreshToken EXCEPT ![token] = "revoked", ![k] = "live"]
          /\ \/ refreshing' = [refreshing EXCEPT ![t].state = "granted", ![t].pair = k]
             \/ refreshing' = [refreshing EXCEPT ![t].state = "refused"]
    BY DEF CommitRefresh, Issue
  <1>2. k # token /\ ~Presented(k) /\ \A s \in Tabs : ~Granted(s, k) /\ ~LoggedIn(s, k)
    BY <1>0, <1>1, UnissuedIsUnknown
  <1>3. /\ refreshing'[t].state \in {"granted", "refused"} /\ refreshing'[t].token = token
        /\ refreshing'[t].state = "granted" => refreshing'[t].pair = k
        /\ \A s \in Tabs \ {t} : refreshing'[s] = refreshing[s]
    BY <1>1 DEF TypeOK
  <1>4. /\ refreshToken'[token] = "revoked" /\ refreshToken'[k] = "live"
        /\ \A j \in Pairs \ {token, k} : refreshToken'[j] = refreshToken[j]
    BY <1>0, <1>1, <1>2 DEF TypeOK
  <1>5. \A j \in Pairs : Presented(j)' => Presented(j)
    BY <1>0, <1>3 DEF Presented
  <1>6. \A j \in Pairs, s \in Tabs : /\ s # t => (Granted(s, j)' <=> Granted(s, j))
                                     /\ LoggedIn(s, j)' <=> LoggedIn(s, j)
    BY <1>0, <1>3 DEF Granted, LoggedIn
  <1>7. \A j \in Pairs : Granted(t, j)' => j = k
    BY <1>3 DEF Granted
  <1>8. InFlight'
    BY <1>0, <1>3 DEF InFlight
  <1>9. PresentedWereIssued'
    BY <1>4, <1>5 DEF PresentedWereIssued
  <1>10. HeldAreFresh'
    <2>1. \A j \in Pairs, s \in Tabs : Granted(s, j) \/ LoggedIn(s, j) => j \notin {k, token}
      BY <1>0, <1>2 DEF HeldAreFresh
    <2> QED
      BY <1>2, <1>4, <1>5, <1>6, <1>7, <2>1 DEF HeldAreFresh
  <1>11. HeldByOne'
    BY <1>2, <1>6, <1>7 DEF HeldByOne
  <1>12. SpentWillBeReplaced'
    BY <1>0, <1>3, <1>4 DEF SpentWillBeReplaced
  <1> QED
    BY <1>8, <1>9, <1>10, <1>11, <1>12

LEMMA AnswerRefreshKeepsSession ==
  ASSUME TypeOK, SessionInv, NEW t \in Tabs, AnswerRefresh(t)
  PROVE  SessionInv'
  <1>1. CASE CheckRefresh(t)
    <2>1. PICK state \in {"checked", "refused"} : refreshing' = [refreshing EXCEPT ![t].state = state]
      BY <1>1 DEF CheckRefresh
    <2> QED
      BY <1>1, <2>1, AdvancingKeepsSession DEF CheckRefresh, backend, browser
  <1>2. CASE LoseRefresh(t)
    BY <1>2, AdvancingKeepsSession DEF LoseRefresh, browser
  <1> QED
    BY <1>1, <1>2, CommitRefreshKeepsSession DEF AnswerRefresh

\* A token whose request was abandoned is spent: it is one the browser has shown.
LEMMA ProcessAbandonedKeepsSession ==
  ASSUME TypeOK, SessionInv, NEW k \in Pairs, ProcessAbandoned(k)
  PROVE  SessionInv'
  <1> USE DEF SessionInv
  <1>1. /\ k \in abandoned /\ abandoned' = abandoned \ {k} /\ Presented(k)
        /\ UNCHANGED <<storage, refreshing, signing, cutOff>>
    BY DEF ProcessAbandoned, Presented, browser
  <1>2. refreshToken'[k] = "revoked" /\ \A j \in Pairs \ {k} : refreshToken'[j] = refreshToken[j]
    BY DEF ProcessAbandoned, TypeOK
  <1>3. \A j \in Pairs : Presented(j)' => Presented(j)
    BY <1>1 DEF Presented
  <1>4. \A j \in Pairs, s \in Tabs : (Granted(s, j)' <=> Granted(s, j)) /\ (LoggedIn(s, j)' <=> LoggedIn(s, j))
    BY <1>1 DEF Granted, LoggedIn
  <1>5. InFlight'
    BY <1>1 DEF InFlight
  <1>6. PresentedWereIssued' /\ HeldAreFresh'
    BY <1>1, <1>2, <1>3, <1>4 DEF PresentedWereIssued, HeldAreFresh
  <1>7. HeldByOne'
    BY <1>4 DEF HeldByOne
  <1>8. SpentWillBeReplaced'
    BY <1>1, <1>2 DEF SpentWillBeReplaced
  <1> QED
    BY <1>5, <1>6, <1>7, <1>8

LEMMA AnswerSigningKeepsSession ==
  ASSUME TypeOK, SessionInv, NEW t \in Tabs, AnswerSigning(t)
  PROVE  SessionInv'
  <1> USE DEF SessionInv
  <1>0. UNCHANGED <<storage, refreshing, cutOff>>
    BY DEF AnswerSigning, browser
  <1>1. ASSUME signing[t].state = "login", NEW k \in Pairs, refreshToken[k] = "none", UNCHANGED abandoned,
               refreshToken' = [refreshToken EXCEPT ![k] = "live"],
               signing' = [signing EXCEPT ![t].state = "loggedIn", ![t].pair = k]
        PROVE  SessionInv'
    <2>1. ~Presented(k) /\ \A s \in Tabs : ~Granted(s, k) /\ ~LoggedIn(s, k)
      BY <1>1, UnissuedIsUnknown
    <2>2. /\ signing[t].state = "login" /\ signing'[t].state = "loggedIn" /\ signing'[t].pair = k
          /\ \A s \in Tabs \ {t} : signing'[s] = signing[s]
      BY <1>1 DEF TypeOK
    <2>3. refreshToken'[k] = "live" /\ \A j \in Pairs \ {k} : refreshToken'[j] = refreshToken[j]
      BY <1>1 DEF TypeOK
    <2>a. UNCHANGED abandoned
      BY <1>1
    <2>4. \A j \in Pairs : Presented(j)' => Presented(j)
      BY <1>0, <2>2, <2>a DEF Presented
    <2>5. \A j \in Pairs, s \in Tabs : /\ Granted(s, j)' <=> Granted(s, j)
                                       /\ s # t => (LoggedIn(s, j)' <=> LoggedIn(s, j))
      BY <1>0, <2>2 DEF Granted, LoggedIn
    <2>6. \A j \in Pairs : LoggedIn(t, j)' => j = k
      BY <2>2 DEF LoggedIn
    <2>7. InFlight'
      BY <1>0, <2>2 DEF InFlight
    <2>8. PresentedWereIssued'
      BY <2>3, <2>4 DEF PresentedWereIssued
    <2>9. HeldAreFresh'
      BY <2>1, <2>3, <2>4, <2>5, <2>6 DEF HeldAreFresh
    <2>10. HeldByOne'
      BY <2>1, <2>5, <2>6 DEF HeldByOne
    <2>11. SpentWillBeReplaced'
      BY <1>0, <2>2, <2>3, <2>a DEF SpentWillBeReplaced
    <2> QED
      BY <2>7, <2>8, <2>9, <2>10, <2>11
  <1>2. CASE /\ signing[t].state = "logout"
             /\ refreshToken' = [refreshToken EXCEPT ![signing[t].pair] = "revoked"] \/ UNCHANGED refreshToken
             /\ abandoned' = abandoned \cup {signing[t].pair} \/ UNCHANGED abandoned
             /\ signing' = [signing EXCEPT ![t].state = "loggedOut"]
    <2> DEFINE k == signing[t].pair
    <2>1. /\ signing'[t].state = "loggedOut" /\ signing'[t].pair = k
          /\ \A s \in Tabs \ {t} : signing'[s] = signing[s]
      BY <1>2 DEF TypeOK
    <2>2. signing[t].state = "logout" /\ k \in Pairs /\ Presented(k)
      BY <1>2 DEF InFlight, Presented
    <2>3. \A j \in Pairs : refreshToken'[j] = refreshToken[j] \/ (j = k /\ refreshToken'[j] = "revoked")
      BY <1>2, <2>2 DEF TypeOK
    <2>a. \A j \in abandoned' : j \in abandoned \/ j = k
      BY <1>2
    <2>4. \A j \in Pairs : Presented(j)' => Presented(j)
      BY <1>0, <2>1, <2>2, <2>a DEF Presented
    <2>5. \A j \in Pairs, s \in Tabs :
            (Granted(s, j)' => Granted(s, j)) /\ (LoggedIn(s, j)' => LoggedIn(s, j))
      BY <1>0, <2>1 DEF Granted, LoggedIn
    <2> HIDE DEF k
    <2>6. InFlight'
      BY <1>0, <2>1, <2>2 DEF InFlight
    <2>7. PresentedWereIssued'
      BY <2>3, <2>4 DEF PresentedWereIssued
    <2>8. HeldAreFresh'
      BY <2>2, <2>3, <2>4, <2>5 DEF HeldAreFresh
    <2>9. HeldByOne'
      BY <2>5 DEF HeldByOne
    <2>10. SpentWillBeReplaced'
      BY <1>0, <2>1, <2>2, <2>3, <2>a DEF SpentWillBeReplaced
    <2> QED
      BY <2>6, <2>7, <2>8, <2>9, <2>10
  <1>3. CASE /\ signing[t].state = "login" /\ UNCHANGED <<refreshToken, abandoned>>
             /\ signing' = [signing EXCEPT ![t] = NotSigning]
    <2>1. \A s \in Tabs : signing'[s] = signing[s] \/ signing'[s] = NotSigning
      BY <1>3 DEF TypeOK
    <2> QED
      BY <1>0, <1>3, <2>1, ForgettingKeepsSession
  <1> QED
    BY <1>1, <1>2, <1>3 DEF AnswerSigning, Issue

\* What a call's answer, whatever it is, does to the session of its tab.
LEMMA ReceiveKeepsSession ==
  ASSUME IInv, NEW c \in Calls, Receive(c)
  PROVE  SessionInv'
  <1> USE DEF IInv, browser, backend
  <1>1. CASE ReceiveOk(c)
    BY <1>1, OtherStepsKeepSession DEF ReceiveOk
  <1>2. CASE Receive401(c)
    <2> DEFINE t == calls[c].tab
    <2>1. calls[c].state = "401" /\ t \in Tabs /\ UNCHANGED <<refreshToken, abandoned, signing, cutOff>>
      BY <1>2 DEF Receive401, CallsAreOfTabs
    <2>2. CASE UNCHANGED <<browser, refreshing>>
      BY <2>1, <2>2, OtherStepsKeepSession
    <2>3. CASE /\ refreshing[t].state = "none" /\ storage # Null /\ UNCHANGED storage
               /\ refreshing' = [refreshing EXCEPT ![t] = [NoRefresh EXCEPT !.state = "sent",
                                                                           !.token = storage]]
      BY <2>1, <2>3, StartingKeepsSession
    <2>4. CASE ClearSession(t) /\ UNCHANGED refreshing
      BY <2>1, <2>4, ForgettingKeepsSession DEF ClearSession
    <2> QED
      BY <1>2, <2>2, <2>3, <2>4 DEF Receive401
  <1>3. CASE ReceiveError(c)
    BY <1>3, ForgettingKeepsSession DEF ReceiveError, ClearSession
  <1>4. CASE ReceiveRetryError(c)
    BY <1>4, ForgettingKeepsSession DEF ReceiveRetryError, ClearSession
  <1> QED
    BY <1>1, <1>2, <1>3, <1>4 DEF Receive

LEMMA ReceiveRefreshKeepsSession ==
  ASSUME IInv, NEW t \in Tabs, ReceiveRefresh(t)
  PROVE  SessionInv'
  <1> USE DEF IInv, backend
  <1>1. /\ refreshing' = [refreshing EXCEPT ![t] = NoRefresh]
        /\ UNCHANGED <<refreshToken, abandoned, signing, cutOff>>
    BY DEF ReceiveRefresh
  <1>2. CASE refreshing[t].state = "granted" /\ StoreTokens(refreshing[t].pair)
    <2>1. refreshing[t].pair \in Pairs /\ Granted(t, refreshing[t].pair)
      BY <1>2 DEF SessionInv, InFlight, Granted
    <2> QED
      BY <1>1, <1>2, <2>1, StoringKeepsSession DEF StoreTokens
  <1>3. CASE ClearSession(t)
    <2>1. \A s \in Tabs : refreshing'[s] = refreshing[s] \/ refreshing'[s] = NoRefresh
      BY <1>1 DEF TypeOK
    <2> QED
      BY <1>1, <1>3, <2>1, ForgettingKeepsSession DEF ClearSession
  <1> QED
    BY <1>2, <1>3 DEF ReceiveRefresh

LEMMA ReceiveSigningKeepsSession ==
  ASSUME IInv, NEW t \in Tabs, ReceiveSigning(t)
  PROVE  SessionInv'
  <1> USE DEF IInv, backend
  <1>1. /\ signing' = [signing EXCEPT ![t] = NotSigning]
        /\ UNCHANGED <<refreshToken, abandoned, refreshing, cutOff>>
    BY DEF ReceiveSigning
  <1>2. CASE signing[t].state = "loggedIn" /\ StoreTokens(signing[t].pair)
    <2>1. signing[t].pair \in Pairs /\ LoggedIn(t, signing[t].pair)
      BY <1>2 DEF SessionInv, InFlight, LoggedIn
    <2> QED
      BY <1>1, <1>2, <2>1, StoringKeepsSession DEF StoreTokens
  <1>3. CASE ClearSession(t)
    <2>1. \A s \in Tabs : signing'[s] = signing[s] \/ signing'[s] = NotSigning
      BY <1>1 DEF TypeOK
    <2> QED
      BY <1>1, <1>3, <2>1, ForgettingKeepsSession DEF ClearSession
  <1> QED
    BY <1>2, <1>3 DEF ReceiveSigning

LEMMA LogoutAndLoginKeepSession ==
  ASSUME IInv, NEW t \in Tabs, Logout(t) \/ \E u \in Users : Login(t, u)
  PROVE  SessionInv'
  <1> USE DEF IInv, browser, backend
  <1>1. CASE Logout(t) /\ storage = Null
    BY <1>1, ForgettingKeepsSession DEF Logout, ClearSession
  <1>2. CASE Logout(t) /\ storage # Null
    <2> DEFINE form == [NotSigning EXCEPT !.state = "logout", !.pair = storage]
    <2>1. form.state = "logout" /\ form.pair = storage
      BY DEF NotSigning
    <2>2. /\ signing[t].state = "none" /\ signing' = [signing EXCEPT ![t] = form]
          /\ UNCHANGED <<refreshToken, abandoned, storage, refreshing, cutOff>>
      BY <1>2 DEF Logout
    <2> HIDE DEF form
    <2> QED
      BY <1>2, <2>1, <2>2, PostingKeepsSession
  <1>3. ASSUME NEW u \in Users, Login(t, u) PROVE SessionInv'
    <2> DEFINE form == [NotSigning EXCEPT !.state = "login", !.user = u]
    <2>1. form.state = "login"
      BY DEF NotSigning
    <2>2. /\ signing[t].state = "none" /\ signing' = [signing EXCEPT ![t] = form]
          /\ UNCHANGED <<refreshToken, abandoned, storage, refreshing, cutOff>>
      BY <1>3 DEF Login
    <2> HIDE DEF form
    <2> QED
      BY <2>1, <2>2, PostingKeepsSession
  <1> QED
    BY <1>1, <1>2, <1>3

\* A reload forgets a refresh or logout, whose token is cut off from then on.
LEMMA ReloadKeepsSession ==
  ASSUME IInv, NEW t \in Tabs, Reload(t)
  PROVE  SessionInv'
  <1> USE DEF IInv
  <1>1. /\ refreshing' = [refreshing EXCEPT ![t] = NoRefresh]
        /\ signing' = [signing EXCEPT ![t] = NotSigning]
        /\ cutOff' = cutOff \cup ({refreshing[t].token, signing[t].pair} \cap ({storage} \ {Null}))
        /\ abandoned' = abandoned \cup Unprocessed(t)
        /\ UNCHANGED <<refreshToken, storage>>
    BY DEF Reload
  <1>2. /\ \A s \in Tabs \ {t} : refreshing'[s] = refreshing[s] /\ signing'[s] = signing[s]
        /\ refreshing'[t] = NoRefresh /\ signing'[t] = NotSigning
    BY <1>1 DEF TypeOK
  <1>3. /\ refreshing[t].state # "none" /\ refreshing[t].token = storage => storage \in cutOff'
        /\ signing[t].state \in {"logout", "loggedOut"} /\ signing[t].pair = storage => storage \in cutOff'
    BY <1>1, PairsAssumption DEF SessionInv, InFlight, Pairs
  <1>4. \A k \in abandoned' : k \in abandoned \/ (Presented(k) /\ (storage = k => k \in cutOff'))
    BY <1>1, <1>3 DEF Unprocessed, Presented
  <1> QED
    BY <1>1, <1>2, <1>3, <1>4, ForgettingKeepsSession

LEMMA SessionKept ==
  ASSUME IInv, [Next]_vars
  PROVE  SessionInv'
  <1> USE DEF backend, browser
  <1>1. ASSUME NEW k \in Pairs, ProcessAbandoned(k) PROVE SessionInv'
    BY <1>1, ProcessAbandonedKeepsSession DEF IInv
  <1>2. ASSUME NEW c \in Calls, AnswerCall(c) PROVE SessionInv'
    BY <1>2, OtherStepsKeepSession DEF AnswerCall, IInv
  <1>3. ASSUME NEW c \in Calls, NEW t \in Tabs, Send(c, t) PROVE SessionInv'
    BY <1>3, OtherStepsKeepSession DEF Send, IInv
  <1>4. CASE UNCHANGED vars
    BY <1>4, OtherStepsKeepSession DEF vars, IInv
  <1> QED
    BY <1>1, <1>2, <1>3, <1>4, ReceiveKeepsSession, AnswerRefreshKeepsSession,
       ReceiveRefreshKeepsSession, AnswerSigningKeepsSession, ReceiveSigningKeepsSession,
       LogoutAndLoginKeepSession, ReloadKeepsSession DEF Next, IInv

--------------------------------------------------------------------------------
LEMMA CallsTyped ==
  ASSUME IInv, [Next]_vars
  PROVE  /\ calls' \in [Calls -> [state : {"idle", "sent", "200", "401", "error", "waiting",
                                           "done", "failed"},
                                  tab : Tabs \cup {Null}, kind : {"api", "me", "bootstrap"},
                                  pair : PairOrNull, retried : BOOLEAN]]
         /\ CallsAreOfTabs'
  <1> DEFINE Call == [state : {"idle", "sent", "200", "401", "error", "waiting", "done", "failed"},
                      tab : Tabs \cup {Null}, kind : {"api", "me", "bootstrap"},
                      pair : PairOrNull, retried : BOOLEAN]
             Good(call) == /\ call \in Call
                           /\ call.state \notin {"idle", "done", "failed"} => call.tab \in Tabs
                           /\ call.state = "200" => call.pair # Null
  <1>0. calls \in [Calls -> Call] /\ \A c \in Calls : Good(calls[c])
    BY DEF IInv, TypeOK, CallsAreOfTabs
  <1>a. /\ storage \in PairOrNull
        /\ \A t \in Tabs : refreshing[t].state = "granted" => refreshing[t].pair \in PairOrNull
        /\ \A t \in Tabs : signing[t].state = "loggedIn" => signing[t].pair \in PairOrNull
    BY DEF IInv, TypeOK, SessionInv, InFlight, PairOrNull
  <1>b. \A t \in Tabs, kind \in {"api", "me", "bootstrap"}, pair \in PairOrNull :
          Good(Request(t, kind, pair))
    BY DEF Request
  <1>c. \A call \in Call, state \in {"401", "error", "waiting"} :
          call.tab \in Tabs => Good([call EXCEPT !.state = state])
    OBVIOUS
  <1>d. \A call \in Call, pair \in PairOrNull :
          call.tab \in Tabs =>
            Good([call EXCEPT !.state = "sent", !.pair = pair, !.retried = TRUE])
    OBVIOUS
  <1>e. \A call \in Call : call.tab \in Tabs /\ call.pair # Null => Good([call EXCEPT !.state = "200"])
    OBVIOUS
  <1>i. Good(Ended("done")) /\ Good(Ended("failed"))
    BY DEF Ended, Idle, PairOrNull
  <1>f. SUFFICES /\ calls' \in [Calls -> Call]
                 /\ \A c \in Calls : Good(calls'[c])
    BY DEF CallsAreOfTabs
  <1>g. /\ \A c \in Calls :
             /\ calls[c] \in Call
             /\ calls[c].state \notin {"idle", "done", "failed"} => calls[c].tab \in Tabs
        /\ \A call : Good(call) => call \in Call
    BY <1>0
  <1> HIDE DEF Good, Call
  <1>h. ASSUME NEW c \in Calls, NEW call, Good(call), calls' = [calls EXCEPT ![c] = call]
        PROVE  calls' \in [Calls -> Call] /\ \A d \in Calls : Good(calls'[d])
    BY <1>0, <1>g, <1>h
  <1>1. ASSUME NEW c \in Calls, AnswerCall(c)
        PROVE  calls' \in [Calls -> Call] /\ \A d \in Calls : Good(calls'[d])
    <2>1. PICK answer \in {"200", "401", "error"} :
            /\ answer = "200" => calls[c].pair # Null
            /\ calls' = [calls EXCEPT ![c] = [calls[c] EXCEPT !.state = answer]]
      BY <1>1 DEF AnswerCall
    <2>2. calls[c].tab \in Tabs
      BY <1>1, <1>g DEF AnswerCall
    <2>3. Good([calls[c] EXCEPT !.state = answer])
      BY <1>c, <1>e, <1>g, <2>1, <2>2
    <2> QED
      BY <1>h, <2>1, <2>3
  <1>2. ASSUME NEW c \in Calls, Receive(c)
        PROVE  calls' \in [Calls -> Call] /\ \A d \in Calls : Good(calls'[d])
    <2>1. \/ calls' = [calls EXCEPT ![c] = [calls[c] EXCEPT !.state = "waiting"]]
          \/ \E state \in {"done", "failed"} : calls' = [calls EXCEPT ![c] = Ended(state)]
      BY <1>2 DEF Receive, ReceiveOk, Receive401, ReceiveError, ReceiveRetryError
    <2>2. calls[c].state \notin {"idle", "done", "failed"}
      BY <1>2 DEF Receive, ReceiveOk, Receive401, ReceiveError, ReceiveRetryError
    <2>3. Good([calls[c] EXCEPT !.state = "waiting"])
      BY <1>c, <1>g, <2>2
    <2> QED
      BY <1>h, <1>i, <2>1, <2>3
  <1>3. ASSUME NEW t \in Tabs, ReceiveRefresh(t)
        PROVE  calls' \in [Calls -> Call] /\ \A d \in Calls : Good(calls'[d])
    <2>1. \A c \in Waiters(t) : calls[c].tab \in Tabs
      BY <1>g DEF Waiters
    <2>2. CASE /\ refreshing[t].state = "granted"
               /\ calls' = [c \in Calls |->
                     IF c \in Waiters(t)
                     THEN [calls[c] EXCEPT !.state = "sent", !.pair = refreshing[t].pair, !.retried = TRUE]
                     ELSE calls[c]]
      <3>1. \A c \in Waiters(t) :
              Good([calls[c] EXCEPT !.state = "sent", !.pair = refreshing[t].pair, !.retried = TRUE])
        BY <1>a, <1>d, <1>g, <2>1, <2>2 DEF Waiters
      <3> QED
        BY <1>0, <1>g, <2>2, <3>1
    <2>3. CASE calls' = [c \in Calls |-> IF c \in Waiters(t) THEN Ended("failed") ELSE calls[c]]
      BY <1>0, <1>g, <1>i, <2>3
    <2> QED
      BY <1>3, <2>2, <2>3 DEF ReceiveRefresh
  <1>4. ASSUME NEW t \in Tabs, Reload(t)
        PROVE  calls' \in [Calls -> Call] /\ \A d \in Calls : Good(calls'[d])
    <2> DEFINE dropped == [c \in Calls |-> IF calls[c].tab = t THEN Ended("failed") ELSE calls[c]]
    <2>1. dropped \in [Calls -> Call] /\ \A c \in Calls : Good(dropped[c])
      BY <1>0, <1>g, <1>i
    <2>2. \/ calls' = dropped
          \/ \E c \in Calls : calls' = [dropped EXCEPT ![c] = Request(t, "bootstrap", storage)]
      BY <1>4 DEF Reload
    <2>3. Good(Request(t, "bootstrap", storage))
      BY <1>a, <1>b
    <2> HIDE DEF dropped
    <2> QED
      BY <1>g, <2>1, <2>2, <2>3
  <1>5. ASSUME NEW t \in Tabs, ReceiveSigning(t)
        PROVE  calls' \in [Calls -> Call] /\ \A d \in Calls : Good(calls'[d])
    <2>1. CASE /\ signing[t].state = "loggedIn"
               /\ \E c \in Calls : calls' = [calls EXCEPT ![c] = Request(t, "me", signing[t].pair)]
      <3>1. Good(Request(t, "me", signing[t].pair))
        BY <1>a, <1>b, <2>1
      <3> QED
        BY <1>h, <2>1, <3>1
    <2>2. CASE UNCHANGED calls
      BY <1>0, <2>2
    <2> QED
      BY <1>5, <2>1, <2>2 DEF ReceiveSigning
  <1>6. ASSUME NEW c \in Calls, NEW t \in Tabs, Send(c, t)
        PROVE  calls' \in [Calls -> Call] /\ \A d \in Calls : Good(calls'[d])
    <2>1. Good(Request(t, "api", storage))
      BY <1>a, <1>b
    <2> QED
      BY <1>6, <1>h, <2>1 DEF Send
  <1>7. CASE UNCHANGED calls
    BY <1>0, <1>7
  <1> QED
    BY <1>1, <1>2, <1>3, <1>4, <1>5, <1>6, <1>7 DEF Next, vars, ProcessAbandoned, AnswerRefresh,
       CheckRefresh, CommitRefresh, LoseRefresh, AnswerSigning, Logout, Login

LEMMA BackendTyped ==
  ASSUME IInv, [Next]_vars
  PROVE  /\ owner' \in [Pairs -> Users \cup {Null}]
         /\ refreshToken' \in [Pairs -> {"none", "live", "revoked"}]
         /\ expired' \subseteq Pairs
         /\ abandoned' \subseteq Pairs
  <1> USE DEF IInv, TypeOK, backend
  <1>1. ASSUME NEW t \in Tabs, CommitRefresh(t)
        PROVE  /\ owner' \in [Pairs -> Users \cup {Null}]
               /\ refreshToken' \in [Pairs -> {"none", "live", "revoked"}]
    <2>1. /\ refreshing[t].token \in Pairs /\ owner \in [Pairs -> Users \cup {Null}]
          /\ refreshToken \in [Pairs -> {"none", "live", "revoked"}]
      BY <1>1 DEF CommitRefresh, SessionInv, InFlight
    <2>2. PICK k \in Pairs :
            /\ Issue(k, owner[refreshing[t].token])
            /\ refreshToken' = [refreshToken EXCEPT ![refreshing[t].token] = "revoked", ![k] = "live"]
      BY <1>1 DEF CommitRefresh
    <2>3. owner' = [owner EXCEPT ![k] = owner[refreshing[t].token]]
      BY <2>2 DEF Issue
    <2>4. owner[refreshing[t].token] \in Users \cup {Null}
      BY <2>1
    <2> HIDE DEF IInv, TypeOK
    <2> QED
      BY <2>1, <2>2, <2>3, <2>4
  <1>2. ASSUME NEW t \in Tabs, AnswerSigning(t)
        PROVE  /\ owner' \in [Pairs -> Users \cup {Null}]
               /\ refreshToken' \in [Pairs -> {"none", "live", "revoked"}]
    BY <1>2 DEF AnswerSigning, Issue
  <1>3. ASSUME NEW t \in Tabs, AnswerSigning(t) PROVE abandoned' \subseteq Pairs
    BY <1>3 DEF AnswerSigning, SessionInv, InFlight
  <1>4. ASSUME NEW t \in Tabs, LoseRefresh(t) PROVE abandoned' \subseteq Pairs
    BY <1>4 DEF LoseRefresh, SessionInv, InFlight
  <1>5. ASSUME NEW t \in Tabs, Reload(t) PROVE abandoned' \subseteq Pairs
    BY <1>5 DEF Reload, Unprocessed
  <1>6. ASSUME NEW k \in Pairs, ProcessAbandoned(k)
        PROVE  refreshToken' \in [Pairs -> {"none", "live", "revoked"}] /\ abandoned' \subseteq Pairs
    BY <1>6 DEF ProcessAbandoned
  <1>7. ASSUME NEW c \in Calls, AnswerCall(c) PROVE expired' \subseteq Pairs
    BY <1>7 DEF AnswerCall, PairOrNull
  <1> QED
    BY <1>1, <1>2, <1>3, <1>4, <1>5, <1>6, <1>7 DEF Next, vars, ProcessAbandoned, AnswerCall, Receive,
       ReceiveOk, Receive401, ReceiveError, ReceiveRetryError, ReceiveRefresh, Send, Logout, Login,
       ReceiveSigning, Reload, AnswerRefresh, CheckRefresh, CommitRefresh, LoseRefresh, AnswerSigning

LEMMA BrowserTyped ==
  ASSUME IInv, [Next]_vars
  PROVE  /\ storage' \in PairOrNull
         /\ currentUser' \in [Tabs -> Users \cup {Null}]
         /\ cutOff' \subseteq Pairs
  <1> USE DEF IInv, TypeOK, PairOrNull, browser, backend, ClearSession
  <1>1. ASSUME NEW c \in Calls, Receive(c)
        PROVE  storage' \in PairOrNull /\ currentUser' \in [Tabs -> Users \cup {Null}]
    <2>1. CASE ReceiveOk(c)
      <3>1. calls[c].pair \in Pairs
        BY <2>1 DEF ReceiveOk, CallsAreOfTabs
      <3> QED
        BY <2>1, <3>1 DEF ReceiveOk
    <2> QED
      BY <1>1, <2>1 DEF Receive, Receive401, ReceiveError, ReceiveRetryError
  <1>2. ASSUME NEW t \in Tabs, ReceiveRefresh(t)
        PROVE  storage' \in PairOrNull /\ currentUser' \in [Tabs -> Users \cup {Null}]
    BY <1>2 DEF ReceiveRefresh, StoreTokens
  <1>3. ASSUME NEW t \in Tabs, ReceiveSigning(t) \/ Logout(t)
        PROVE  storage' \in PairOrNull /\ currentUser' \in [Tabs -> Users \cup {Null}]
    BY <1>3 DEF ReceiveSigning, Logout, StoreTokens
  <1>4. ASSUME NEW t \in Tabs, Reload(t)
        PROVE  /\ storage' \in PairOrNull /\ currentUser' \in [Tabs -> Users \cup {Null}]
               /\ cutOff' \subseteq Pairs
    BY <1>4 DEF Reload
  <1> QED
    BY <1>1, <1>2, <1>3, <1>4 DEF Next, vars, ProcessAbandoned, AnswerCall, Receive, ReceiveOk,
       Receive401, ReceiveError, ReceiveRetryError, ReceiveRefresh, Send, Logout, Login, ReceiveSigning,
       Reload, AnswerRefresh, CheckRefresh, CommitRefresh, LoseRefresh, AnswerSigning

LEMMA RequestsTyped ==
  ASSUME IInv, [Next]_vars
  PROVE  /\ refreshing' \in [Tabs -> [state : {"none", "sent", "checked", "granted", "refused"},
                                      token : PairOrNull, pair : PairOrNull]]
         /\ signing' \in [Tabs -> [state : {"none", "login", "loggedIn", "logout", "loggedOut"},
                                   user : Users \cup {Null}, pair : PairOrNull]]
  <1> DEFINE Refresh == [state : {"none", "sent", "checked", "granted", "refused"},
                         token : PairOrNull, pair : PairOrNull]
             Signing == [state : {"none", "login", "loggedIn", "logout", "loggedOut"},
                         user : Users \cup {Null}, pair : PairOrNull]
  <1>0. /\ refreshing \in [Tabs -> Refresh] /\ signing \in [Tabs -> Signing]
        /\ storage \in PairOrNull
    BY DEF IInv, TypeOK
  <1>a. /\ NoRefresh \in Refresh /\ NotSigning \in Signing
        /\ \A k \in PairOrNull : [NoRefresh EXCEPT !.state = "sent", !.token = k] \in Refresh
        /\ \A k \in PairOrNull : [NotSigning EXCEPT !.state = "logout", !.pair = k] \in Signing
        /\ \A u \in Users : [NotSigning EXCEPT !.state = "login", !.user = u] \in Signing
    BY DEF NoRefresh, NotSigning, PairOrNull
  <1>1. ASSUME NEW t \in Tabs, AnswerRefresh(t) PROVE refreshing' \in [Tabs -> Refresh]
    <2>1. \/ \E state \in {"checked", "refused"} : refreshing' = [refreshing EXCEPT ![t].state = state]
          \/ \E k \in Pairs : refreshing' = [refreshing EXCEPT ![t].state = "granted", ![t].pair = k]
      BY <1>1 DEF AnswerRefresh, CheckRefresh, CommitRefresh, LoseRefresh
    <2> QED
      BY <1>0, <2>1 DEF PairOrNull
  <1>2. ASSUME NEW t \in Tabs, AnswerSigning(t) PROVE signing' \in [Tabs -> Signing]
    <2>1. \/ signing' = [signing EXCEPT ![t].state = "loggedOut"]
          \/ signing' = [signing EXCEPT ![t] = NotSigning]
          \/ \E k \in Pairs : signing' = [signing EXCEPT ![t].state = "loggedIn", ![t].pair = k]
      BY <1>2 DEF AnswerSigning
    <2>2. CASE signing' = [signing EXCEPT ![t].state = "loggedOut"]
      BY <1>0, <2>2
    <2>3. CASE signing' = [signing EXCEPT ![t] = NotSigning]
      BY <1>0, <1>a, <2>3
    <2>4. ASSUME NEW k \in Pairs, signing' = [signing EXCEPT ![t].state = "loggedIn", ![t].pair = k]
          PROVE  signing' \in [Tabs -> Signing]
      <3>1. [signing[t] EXCEPT !.state = "loggedIn", !.pair = k] \in Signing
        BY <1>0, <2>4 DEF PairOrNull
      <3> HIDE DEF Refresh, Signing
      <3> QED
        BY <1>0, <2>4, <3>1
    <2> QED
      BY <2>1, <2>2, <2>3, <2>4
  <1> HIDE DEF Refresh, Signing
  <1>3. ASSUME NEW c \in Calls, Receive401(c) PROVE refreshing' \in [Tabs -> Refresh]
    BY <1>0, <1>3, <1>a DEF Receive401
  <1>4. ASSUME NEW t \in Tabs, ReceiveRefresh(t) \/ Reload(t) PROVE refreshing' \in [Tabs -> Refresh]
    BY <1>0, <1>4, <1>a DEF ReceiveRefresh, Reload
  <1>5. ASSUME NEW t \in Tabs,
               ReceiveSigning(t) \/ Reload(t) \/ Logout(t) \/ \E u \in Users : Login(t, u)
        PROVE  signing' \in [Tabs -> Signing]
    BY <1>0, <1>5, <1>a DEF ReceiveSigning, Reload, Logout, Login
  <1> QED
    BY <1>0, <1>1, <1>2, <1>3, <1>4, <1>5 DEF Next, vars, ProcessAbandoned, AnswerCall, Receive,
       ReceiveOk, Receive401, ReceiveError, ReceiveRetryError, ReceiveRefresh, Send, Logout, Login,
       ReceiveSigning, AnswerRefresh, CheckRefresh, CommitRefresh, LoseRefresh, AnswerSigning, Refresh,
       Signing

\* Only the answer of a refresh, which reaches all who wait for it, or a reload ends one.
LEMMA WaitersKept ==
  ASSUME IInv, [Next]_vars
  PROVE  NoOrphanedWaiters'
  <1> USE DEF IInv
  <1>0. /\ calls \in [Calls -> [state : {"idle", "sent", "200", "401", "error", "waiting",
                                         "done", "failed"},
                                tab : Tabs \cup {Null}, kind : {"api", "me", "bootstrap"},
                                pair : PairOrNull, retried : BOOLEAN]]
        /\ refreshing \in [Tabs -> [state : {"none", "sent", "checked", "granted", "refused"},
                                    token : PairOrNull, pair : PairOrNull]]
    BY DEF TypeOK
  <1>1. CASE /\ UNCHANGED refreshing
             /\ \A c \in Calls : calls'[c] = calls[c] \/ calls'[c].state # "waiting"
    BY <1>1 DEF NoOrphanedWaiters
  <1>2. ASSUME NEW t \in Tabs, AnswerRefresh(t) PROVE NoOrphanedWaiters'
    <2>1. \/ \E state \in {"checked", "refused"} : refreshing' = [refreshing EXCEPT ![t].state = state]
          \/ \E k \in Pairs : refreshing' = [refreshing EXCEPT ![t].state = "granted", ![t].pair = k]
      BY <1>2 DEF AnswerRefresh, CheckRefresh, CommitRefresh, LoseRefresh
    <2>2. \A s \in Tabs : refreshing[s].state # "none" => refreshing'[s].state # "none"
      BY <1>0, <2>1
    <2> QED
      BY <1>2, <2>2 DEF AnswerRefresh, CheckRefresh, CommitRefresh, LoseRefresh, NoOrphanedWaiters,
         CallsAreOfTabs
  <1>3. ASSUME NEW c \in Calls, Receive(c) PROVE NoOrphanedWaiters'
    <2> DEFINE t == calls[c].tab
    <2>1. CASE /\ calls' = [calls EXCEPT ![c].state = "waiting"]
               /\ calls[c].state = "401"
               /\ \/ refreshing[t].state # "none" /\ UNCHANGED refreshing
                  \/ refreshing' = [refreshing EXCEPT ![t] = [NoRefresh EXCEPT !.state = "sent", !.token = storage]]
      <3>1. t \in Tabs
        BY <2>1 DEF CallsAreOfTabs
      <3>2. /\ refreshing'[t].state # "none"
            /\ \A s \in Tabs : refreshing[s].state # "none" => refreshing'[s].state # "none"
        <4>1. CASE UNCHANGED refreshing /\ refreshing[t].state # "none"
          BY <4>1
        <4>2. CASE refreshing' = [refreshing EXCEPT ![t] = [NoRefresh EXCEPT !.state = "sent", !.token = storage]]
          <5>1. refreshing'[t].state = "sent" /\ \A s \in Tabs \ {t} : refreshing'[s] = refreshing[s]
            BY <1>0, <3>1, <4>2 DEF NoRefresh
          <5> HIDE DEF t
          <5> QED
            BY <5>1
        <4> QED
          BY <2>1, <4>1, <4>2
      <3>3. calls'[c].tab = t /\ \A d \in Calls \ {c} : calls'[d] = calls[d]
        BY <1>0, <2>1
      <3> QED
        BY <3>1, <3>2, <3>3 DEF NoOrphanedWaiters, CallsAreOfTabs
    <2>2. CASE UNCHANGED refreshing /\ \E state \in {"done", "failed"} : calls' = [calls EXCEPT ![c] = Ended(state)]
      BY <1>0, <1>1, <2>2 DEF Ended, Idle
    <2> QED
      BY <1>3, <2>1, <2>2 DEF Receive, ReceiveOk, Receive401, ReceiveError, ReceiveRetryError
  <1>4. ASSUME NEW t \in Tabs, ReceiveRefresh(t) PROVE NoOrphanedWaiters'
    <2>1. \A c \in Calls : calls'[c].state = "waiting" => calls'[c] = calls[c] /\ calls[c].tab # t
      <3>1. CASE calls' = [c \in Calls |->
                   IF c \in Waiters(t)
                   THEN [calls[c] EXCEPT !.state = "sent", !.pair = refreshing[t].pair, !.retried = TRUE]
                   ELSE calls[c]]
        BY <1>0, <3>1 DEF Waiters
      <3>2. CASE calls' = [c \in Calls |-> IF c \in Waiters(t) THEN Ended("failed") ELSE calls[c]]
        BY <1>0, <3>2 DEF Waiters, Ended, Idle
      <3> QED
        BY <1>4, <3>1, <3>2 DEF ReceiveRefresh
    <2>2. \A s \in Tabs \ {t} : refreshing'[s] = refreshing[s]
      BY <1>0, <1>4 DEF ReceiveRefresh
    <2> QED
      BY <2>1, <2>2 DEF NoOrphanedWaiters, CallsAreOfTabs
  <1>5. ASSUME NEW t \in Tabs, Reload(t) PROVE NoOrphanedWaiters'
    <2>1. \A c \in Calls : calls'[c].state = "waiting" => calls'[c] = calls[c] /\ calls[c].tab # t
      <3> DEFINE dropped == [c \in Calls |-> IF calls[c].tab = t THEN Ended("failed") ELSE calls[c]]
      <3>1. \A c \in Calls : dropped[c].state = "waiting" => dropped[c] = calls[c] /\ calls[c].tab # t
        BY <1>0 DEF Ended, Idle
      <3>2. \/ calls' = dropped
            \/ \E c \in Calls : calls' = [dropped EXCEPT ![c] = Request(t, "bootstrap", storage)]
        BY <1>5 DEF Reload
      <3>3. DOMAIN dropped = Calls /\ Request(t, "bootstrap", storage).state = "sent"
        BY DEF Request
      <3>4. dropped = [c \in Calls |-> dropped[c]]
        OBVIOUS
      <3> HIDE DEF dropped
      <3> QED
        BY <3>1, <3>2, <3>3, <3>4
    <2>2. \A s \in Tabs \ {t} : refreshing'[s] = refreshing[s]
      BY <1>0, <1>5 DEF Reload
    <2> QED
      BY <2>1, <2>2 DEF NoOrphanedWaiters, CallsAreOfTabs
  <1>6. ASSUME NEW t \in Tabs, ReceiveSigning(t) PROVE NoOrphanedWaiters'
    <2>1. \/ UNCHANGED calls
          \/ \E c \in Calls : calls' = [calls EXCEPT ![c] = Request(t, "me", signing[t].pair)]
      BY <1>6 DEF ReceiveSigning
    <2> QED
      BY <1>0, <1>1, <1>6, <2>1 DEF ReceiveSigning, Request
  <1>7. ASSUME NEW c \in Calls, AnswerCall(c) \/ \E t \in Tabs : Send(c, t) PROVE NoOrphanedWaiters'
    BY <1>0, <1>1, <1>7 DEF AnswerCall, Send, Request
  <1>8. CASE UNCHANGED <<calls, refreshing>>
    BY <1>1, <1>8
  <1> QED
    BY <1>2, <1>3, <1>4, <1>5, <1>6, <1>7, <1>8 DEF Next, vars, ProcessAbandoned, AnswerSigning,
       Logout, Login

LEMMA NextKeepsIInv ==
  ASSUME IInv, [Next]_vars
  PROVE  IInv'
  BY SessionKept, CallsTyped, BackendTyped, BrowserTyped, RequestsTyped, WaitersKept DEF IInv, TypeOK

LEMMA IInvAlways == Spec => []IInv
  BY InitIInv, NextKeepsIInv, PTL DEF Spec

--------------------------------------------------------------------------------
\* Every variable of the browser and of what the backend knows of its tokens keeps its type.
THEOREM TypeCorrect == Spec => []TypeOK
  BY IInvAlways, PTL DEF IInv

\* No call is left with the interceptor when the refresh it waits for has ended, however many
\* calls join it and whatever the page does meanwhile.
THEOREM WaitersAreServed == Spec => []NoOrphanedWaiters
  BY IInvAlways, PTL DEF IInv

\* However the refreshes, logins and logouts of any number of tabs overlap, the token they leave
\* in localStorage is one the backend accepts, unless a reload lost the answer that replaced it.
THEOREM StoredTokenIsLive == Spec => []StorageHoldsLiveToken
  <1>1. IInv => StorageHoldsLiveToken
    <2> SUFFICES ASSUME IInv, storage # Null, storage \notin cutOff,
                        \A t \in Tabs : refreshing[t].state = "none" /\ signing[t].state = "none"
                 PROVE  refreshToken[storage] = "live"
      BY DEF StorageHoldsLiveToken
    <2>1. storage \in Pairs /\ refreshToken[storage] \in {"none", "live", "revoked"}
      BY DEF IInv, TypeOK, PairOrNull
    <2>2. refreshToken[storage] # "none"
      BY <2>1 DEF IInv, SessionInv, PresentedWereIssued, Presented
    <2>3. refreshToken[storage] # "revoked"
      BY <2>1 DEF IInv, SessionInv, SpentWillBeReplaced
    <2> QED
      BY <2>1, <2>2, <2>3
  <1> QED
    BY <1>1, IInvAlways, PTL
================================================================================
