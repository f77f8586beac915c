------------------------------ MODULE BackendProofs ----------------------------
(***************************************************************************)
(* Two parts of the backend that share no state: the records of a tenant,  *)
(* for any requests, keys and values, and the rate limiter, for any limit, *)
(* window and clients.                                                     *)
(***************************************************************************)
EXTENDS TenantRecords, RateLimiter, SequenceTheorems, TLAPS

--------------------------------------------------------------------------------
(* The rate limiter.  What a client's log keeps is the end of the history of its served *)
(* requests, and what it has dropped is older than the window: so a log with room for   *)
(* one more means that the request Limit before the next one is out of the window.      *)

\* The log h and the history s of one client at time t.
Agree(t, h, s) ==
  /\ Len(h) <= Len(s) /\ Len(h) <= Limit
  /\ \A i \in 1..Len(h) : h[i] = s[Len(s) - Len(h) + i]
  /\ \A i \in 1..(Len(s) - Len(h)) : s[i] + Window < t
  /\ \A i \in 1..Len(s) : s[i] <= t
  /\ \A i, j \in 1..Len(s) : i <= j => s[i] <= s[j]

Spaced(s) ==
  \A i, j \in 1..Len(s) : i + Limit <= j => s[j] > s[i] + Window

\* A client with history s that was refused at time r had been served Limit times in the window.
Full(r, s) ==
  \E n \in Limit..Len(s) : \A i \in (n - Limit + 1)..n : s[i] <= r /\ r <= s[i] + Window

LimiterInv ==
  /\ LimiterTypeOK
  /\ \A c \in Clients : Agree(now, hits[c], served[c]) /\ Spaced(served[c])
  /\ \A c \in Clients : refusedAt[c] # 0 => Full(refusedAt[c], served[c])

--------------------------------------------------------------------------------
LEMMA AfterProperties ==
  ASSUME NEW log \in Seq(Nat), NEW k \in 0..Len(log)
  PROVE  /\ After(k, log) \in Seq(Nat)
         /\ Len(After(k, log)) = Len(log) - k
         /\ \A i \in 1..(Len(log) - k) : After(k, log)[i] = log[k + i]
  <1> DEFINE m == k + 1
             n == Len(log)
  <1>1. m \in Int /\ n \in Int /\ n \in Nat /\ m \in Nat
    OBVIOUS
  <1>2. \A i \in m..n : log[i] \in Nat
    <2> TAKE i \in m..n
    <2>1. i \in 1..Len(log)
      BY <1>1
    <2> QED
      BY <2>1, ElementOfSeq
  <1>3. /\ SubSeq(log, m, n) \in Seq(Nat)
        /\ Len(SubSeq(log, m, n)) = IF m <= n THEN n - m + 1 ELSE 0
        /\ \A i \in 1..n - m + 1 : SubSeq(log, m, n)[i] = log[m + i - 1]
    <2> HIDE DEF m, n
    <2> QED
      BY <1>1, <1>2, SubSeqProperties
  <1>4. \A i \in 1..(Len(log) - k) : i \in 1..n - m + 1 /\ m + i - 1 = k + i
    BY <1>1
  <1> QED
    BY <1>1, <1>3, <1>4 DEF After

\* Dropping what is too old leaves a log that agrees with the history.
LEMMA DropKeepsAgree ==
  ASSUME now \in Nat, NEW h \in Seq(Nat), NEW s \in Seq(Nat), NEW k \in 0..Len(h),
         Agree(now, h, s), Drops(k, h)
  PROVE  Agree(now, After(k, h), s)
  <1> DEFINE g == After(k, h)
  <1>1. /\ g \in Seq(Nat) /\ Len(g) = Len(h) - k
        /\ \A i \in 1..(Len(h) - k) : g[i] = h[k + i]
    BY AfterProperties
  <1>2. Len(h) \in Nat /\ Len(s) \in Nat /\ Len(g) \in Nat /\ k \in Nat
    BY <1>1
  <1> HIDE DEF g
  <1>3. \A i \in 1..Len(g) : g[i] = s[Len(s) - Len(g) + i]
    <2> TAKE i \in 1..Len(g)
    <2>1. k + i \in 1..Len(h) /\ Len(s) - Len(h) + (k + i) = Len(s) - Len(g) + i
      BY <1>1, <1>2
    <2> QED
      BY <1>1, <2>1 DEF Agree
  <1>4. \A i \in 1..(Len(s) - Len(g)) : s[i] + Window < now
    <2> SUFFICES ASSUME NEW i \in 1..(Len(s) - Len(g))
                 PROVE  s[i] + Window < now
      OBVIOUS
    <2>1. CASE i <= Len(s) - Len(h)
      BY <2>1, <1>2 DEF Agree
    <2>2. CASE i > Len(s) - Len(h)
      <3> DEFINE j == i - (Len(s) - Len(h))
      <3>1. j \in 1..k /\ j \in 1..Len(h) /\ Len(s) - Len(h) + j = i
        <4>1. i \in Nat /\ i <= Len(s) - (Len(h) - k)
          BY <1>1, <1>2
        <4> QED
          BY <1>2, <2>2, <4>1
      <3>2. h[j] = s[i]
        BY <3>1 DEF Agree
      <3>3. h[j] \in Nat
        BY <3>1, ElementOfSeq
      <3>4. now > h[j] + Window
        BY <3>1 DEF Drops
      <3> QED
        BY <3>2, <3>3, <3>4, NumbersAssumption
    <2> QED
      BY <2>1, <2>2, <1>2
  <1>5. Len(g) <= Len(s) /\ Len(g) <= Limit
    BY <1>1, <1>2, NumbersAssumption DEF Agree
  <1> QED
    BY <1>3, <1>4, <1>5 DEF Agree, g

\* One more request is served: the one Limit before it was dropped, so it is out of the window.
LEMMA ServeKeepsAgree ==
  ASSUME now \in Nat, NEW h \in Seq(Nat), NEW s \in Seq(Nat),
         Agree(now, h, s), Spaced(s), Len(h) < Limit
  PROVE  Agree(now, Append(h, now), Append(s, now)) /\ Spaced(Append(s, now))
  <1> DEFINE g == Append(h, now)
             u == Append(s, now)
  <1>1. /\ g \in Seq(Nat) /\ Len(g) = Len(h) + 1
        /\ \A i \in 1..Len(h) : g[i] = h[i]
        /\ g[Len(h) + 1] = now
    BY AppendProperties
  <1>2. /\ u \in Seq(Nat) /\ Len(u) = Len(s) + 1
        /\ \A i \in 1..Len(s) : u[i] = s[i]
        /\ u[Len(s) + 1] = now
    BY AppendProperties
  <1>3. Len(h) \in Nat /\ Len(s) \in Nat /\ Limit \in Nat /\ Window \in Nat
    BY NumbersAssumption
  <1>4. \A i \in 1..Len(s) : s[i] \in Nat
    BY ElementOfSeq
  <1> HIDE DEF g, u
  <1>11. Len(u) - Len(g) = Len(s) - Len(h)
    BY <1>1, <1>2, <1>3
  <1>5. Len(g) <= Len(u) /\ Len(g) <= Limit
    BY <1>1, <1>2, <1>3 DEF Agree
  <1>6. \A i \in 1..Len(g) : g[i] = u[Len(u) - Len(g) + i]
    <2> SUFFICES ASSUME NEW i \in 1..Len(g)
                 PROVE  g[i] = u[Len(s) - Len(h) + i]
      BY <1>11
    <2>1. CASE i = Len(h) + 1
      BY <2>1, <1>1, <1>2, <1>3
    <2>2. CASE i # Len(h) + 1
      <3>1. i \in 1..Len(h) /\ Len(s) - Len(h) + i \in 1..Len(s)
        BY <2>2, <1>1, <1>3 DEF Agree
      <3> QED
        BY <3>1, <1>1, <1>2 DEF Agree
    <2> QED
      BY <2>1, <2>2
  <1>7. \A i \in 1..(Len(u) - Len(g)) : u[i] + Window < now
    <2> SUFFICES ASSUME NEW i \in 1..(Len(s) - Len(h))
                 PROVE  u[i] + Window < now
      BY <1>11
    <2>1. i \in 1..Len(s)
      BY <1>3
    <2>2. s[i] + Window < now
      BY DEF Agree
    <2> QED
      BY <2>1, <2>2, <1>2
  <1>8. \A i \in 1..Len(u) : u[i] <= now
    <2> SUFFICES ASSUME NEW i \in 1..Len(u)
                 PROVE  u[i] <= now
      OBVIOUS
    <2>1. CASE i = Len(s) + 1
      BY <2>1, <1>2
    <2>2. CASE i # Len(s) + 1
      <3>1. i \in 1..Len(s)
        BY <2>2, <1>2, <1>3
      <3> QED
        BY <3>1, <1>2 DEF Agree
    <2> QED
      BY <2>1, <2>2
  <1>9. \A i, j \in 1..Len(u) : i <= j => u[i] <= u[j]
    <2> SUFFICES ASSUME NEW i \in 1..Len(u), NEW j \in 1..Len(u), i <= j
                 PROVE  u[i] <= u[j]
      OBVIOUS
    <2>1. CASE j = Len(s) + 1
      BY <1>2, <1>8, <2>1
    <2>2. CASE j # Len(s) + 1
      <3>1. i \in 1..Len(s) /\ j \in 1..Len(s)
        BY <1>2, <1>3, <2>2
      <3>2. s[i] <= s[j]
        BY <3>1 DEF Agree
      <3> QED
        BY <1>2, <3>1, <3>2
    <2> QED
      BY <2>1, <2>2
  <1>12. \A x \in 1..Len(u) : x = Len(s) + 1 \/ x <= Len(s)
    BY <1>2, <1>3
  <1>10. \A i, j \in 1..Len(u) : i + Limit <= j => u[j] > u[i] + Window
    <2> SUFFICES ASSUME NEW i \in 1..Len(u), NEW j \in 1..Len(u), i + Limit <= j
                 PROVE  u[j] > u[i] + Window
      OBVIOUS
    <2>1. CASE j = Len(s) + 1
      <3>1. i \in 1..(Len(s) - Len(h)) /\ i \in 1..Len(s)
        BY <2>1, <1>2, <1>3
      <3>2. s[i] + Window < now
        BY <3>1 DEF Agree
      <3> QED
        BY <2>1, <3>1, <3>2, <1>2, <1>3, <1>4
    <2>2. CASE j <= Len(s)
      <3>0. i \in Nat /\ j \in Nat /\ 1 <= i /\ i <= j /\ j <= Len(s)
        <4>1. Len(u) = Len(s) + 1 /\ Len(s) \in Nat /\ Limit \in Nat
          BY <1>2, <1>3
        <4>2. i \in Nat /\ j \in Nat /\ 1 <= i /\ j <= Len(s)
          BY <2>2, <4>1
        <4> QED
          BY <4>1, <4>2
      <3>1. i \in 1..Len(s) /\ j \in 1..Len(s)
        BY <3>0, <1>3
      <3> QED
        BY <3>1, <1>2 DEF Spaced
    <2> QED
      BY <2>1, <2>2, <1>12
  <1> QED
    BY <1>5, <1>6, <1>7, <1>8, <1>9, <1>10 DEF Agree, Spaced, g, u

\* What was served keeps its place when another request is.
LEMMA ServeKeepsFull ==
  ASSUME NEW r \in Nat, NEW s \in Seq(Nat), now \in Nat, Full(r, s)
  PROVE  Full(r, Append(s, now))
  <1>1. /\ Len(Append(s, now)) = Len(s) + 1 /\ Len(s) \in Nat /\ Limit \in Nat
        /\ \A i \in 1..Len(s) : Append(s, now)[i] = s[i]
    BY AppendProperties, NumbersAssumption
  <1>2. PICK n \in Limit..Len(s) : \A i \in (n - Limit + 1)..n : s[i] <= r /\ r <= s[i] + Window
    BY DEF Full
  <1>3. n \in Limit..Len(Append(s, now))
    BY <1>1
  <1>4. \A i \in (n - Limit + 1)..n : i \in 1..Len(s)
    BY <1>1
  <1> QED
    BY <1>1, <1>2, <1>3, <1>4 DEF Full

\* A log that is full after dropping holds the last Limit requests, all of them in the window.
LEMMA RefuseMeansFull ==
  ASSUME now \in Nat, NEW h \in Seq(Nat), NEW s \in Seq(Nat), NEW k \in 0..Len(h),
         Agree(now, h, s), Drops(k, h), Len(After(k, h)) >= Limit
  PROVE  Full(now, s)
  <1>1. /\ Len(h) \in Nat /\ Len(s) \in Nat /\ Limit \in Nat /\ Window \in Nat
        /\ Len(After(k, h)) = Len(h) - k
    BY AfterProperties, NumbersAssumption
  <1>2. k = 0 /\ Len(h) = Limit /\ Limit <= Len(s)
    BY <1>1 DEF Agree
  <1>3. ASSUME NEW i \in (Len(s) - Limit + 1)..Len(s)
        PROVE  s[i] <= now /\ now <= s[i] + Window
    <2> DEFINE b == Len(s) - Limit + 1
    <2>1. b \in 1..Len(s) /\ i \in 1..Len(s) /\ b <= i /\ 1 \in 1..Len(h)
      BY <1>1, <1>2
    <2>2. h[1] = s[b]
      <3>1. h[1] = s[Len(s) - Len(h) + 1]
        BY <2>1 DEF Agree
      <3> QED
        BY <3>1, <1>2
    <2>3. s[b] \in Nat /\ s[i] \in Nat
      BY <2>1, ElementOfSeq
    <2>4. s[b] <= s[i] /\ s[i] <= now
      <3> HIDE DEF b
      <3> QED
        BY <2>1 DEF Agree
    <2>5. now <= h[1] + Window
      BY <1>2, <2>1 DEF Drops
    <2> QED
      <3> HIDE DEF b
      <3>1. s[i] <= now /\ s[b] <= s[i] /\ now <= s[b] + Window
        BY <2>2, <2>4, <2>5
      <3> QED
        <4>1. \A x, y, t, w \in Nat : x <= t /\ y <= x /\ t <= y + w => x <= t /\ t <= x + w
          OBVIOUS
        <4> QED
          BY <4>1, <3>1, <2>3, <1>1
  <1> QED
    <2>1. Len(s) \in Limit..Len(s)
      BY <1>1, <1>2
    <2> QED
      BY <2>1, <1>3 DEF Full

--------------------------------------------------------------------------------
LEMMA InitLimiterInv == LimiterInit => LimiterInv
  BY NumbersAssumption DEF LimiterInit, LimiterInv, LimiterTypeOK, Agree, Spaced

LEMMA ServeKeepsLimiterInv ==
  ASSUME LimiterInv, NEW c \in Clients, Serve(c)
  PROVE  LimiterInv'
  <1>1. PICK k \in 0..Len(hits[c]) :
          /\ Drops(k, hits[c]) /\ Len(After(k, hits[c])) < Limit
          /\ hits' = [hits EXCEPT ![c] = Append(After(k, hits[c]), now)]
          /\ served' = [served EXCEPT ![c] = Append(served[c], now)]
          /\ now' = now /\ refusedAt' = refusedAt
    BY DEF Serve
  <1>2. /\ now \in Nat /\ hits[c] \in Seq(Nat) /\ served[c] \in Seq(Nat)
        /\ Agree(now, hits[c], served[c]) /\ Spaced(served[c])
    BY DEF LimiterInv, LimiterTypeOK
  <1>3. After(k, hits[c]) \in Seq(Nat) /\ Agree(now, After(k, hits[c]), served[c])
    BY <1>1, <1>2, AfterProperties, DropKeepsAgree
  <1>4. /\ Agree(now, Append(After(k, hits[c]), now), Append(served[c], now))
        /\ Spaced(Append(served[c], now))
    BY <1>1, <1>2, <1>3, ServeKeepsAgree
  <1>5. Append(After(k, hits[c]), now) \in Seq(Nat) /\ Append(served[c], now) \in Seq(Nat)
    BY <1>2, <1>3, AppendProperties
  <1>6. LimiterTypeOK'
    BY <1>1, <1>5 DEF LimiterInv, LimiterTypeOK
  <1>7. \A d \in Clients : Agree(now', hits'[d], served'[d]) /\ Spaced(served'[d])
    BY <1>1, <1>4 DEF LimiterInv, LimiterTypeOK
  <1>8. \A d \in Clients : refusedAt'[d] # 0 => Full(refusedAt'[d], served'[d])
    <2> SUFFICES ASSUME NEW d \in Clients, refusedAt[d] # 0
                 PROVE  Full(refusedAt[d], served'[d])
      BY <1>1
    <2>1. refusedAt[d] \in Nat /\ Full(refusedAt[d], served[d])
      BY DEF LimiterInv, LimiterTypeOK
    <2>2. CASE d = c
      BY <2>1, <2>2, <1>1, <1>2, ServeKeepsFull DEF LimiterInv, LimiterTypeOK
    <2>3. CASE d # c
      BY <2>1, <2>3, <1>1 DEF LimiterInv, LimiterTypeOK
    <2> QED
      BY <2>2, <2>3
  <1> QED
    BY <1>6, <1>7, <1>8 DEF LimiterInv, Agree, Spaced, Full

LEMMA RefuseKeepsLimiterInv ==
  ASSUME LimiterInv, NEW c \in Clients, Refuse(c)
  PROVE  LimiterInv'
  <1>1. PICK k \in 0..Len(hits[c]) :
          /\ Drops(k, hits[c]) /\ Len(After(k, hits[c])) >= Limit
          /\ hits' = [hits EXCEPT ![c] = After(k, hits[c])]
          /\ refusedAt' = [refusedAt EXCEPT ![c] = now]
          /\ now' = now /\ served' = served
    BY DEF Refuse
  <1>2. /\ now \in Nat /\ hits[c] \in Seq(Nat) /\ served[c] \in Seq(Nat)
        /\ Agree(now, hits[c], served[c])
    BY DEF LimiterInv, LimiterTypeOK
  <1>3. After(k, hits[c]) \in Seq(Nat) /\ Agree(now, After(k, hits[c]), served[c])
    BY <1>1, <1>2, AfterProperties, DropKeepsAgree
  <1>4. Full(now, served[c])
    BY <1>1, <1>2, RefuseMeansFull
  <1>5. LimiterTypeOK'
    BY <1>1, <1>2, <1>3 DEF LimiterInv, LimiterTypeOK
  <1>6. \A d \in Clients : Agree(now', hits'[d], served'[d]) /\ Spaced(served'[d])
    BY <1>1, <1>3 DEF LimiterInv, LimiterTypeOK
  <1>7. \A d \in Clients : refusedAt'[d] # 0 => Full(refusedAt'[d], served'[d])
    BY <1>1, <1>4 DEF LimiterInv, LimiterTypeOK
  <1> QED
    BY <1>5, <1>6, <1>7 DEF LimiterInv, Agree, Spaced, Full

LEMMA TickKeepsLimiterInv == LimiterInv /\ Tick => LimiterInv'
  <1> SUFFICES ASSUME LimiterInv, Tick
               PROVE  LimiterInv'
    OBVIOUS
  <1>1. LimiterTypeOK'
    BY DEF LimiterInv, LimiterTypeOK, Tick
  <1>2. \A c \in Clients : Agree(now', hits[c], served[c])
    <2> SUFFICES ASSUME NEW c \in Clients
                 PROVE  Agree(now + 1, hits[c], served[c])
      BY DEF Tick
    <2>1. served[c] \in Seq(Nat) /\ hits[c] \in Seq(Nat) /\ now \in Nat /\ Agree(now, hits[c], served[c])
      BY DEF LimiterInv, LimiterTypeOK
    <2>2. Len(served[c]) \in Nat /\ Len(hits[c]) \in Nat
      BY <2>1
    <2>3. \A i \in 1..Len(served[c]) : served[c][i] \in Nat
      BY <2>1, ElementOfSeq
    <2>4. \A i \in 1..(Len(served[c]) - Len(hits[c])) : i \in 1..Len(served[c])
      BY <2>2
    <2>5. \A i \in 1..Len(served[c]) : served[c][i] <= now + 1
      <3> SUFFICES ASSUME NEW i \in 1..Len(served[c]) PROVE served[c][i] <= now + 1
        OBVIOUS
      <3>1. served[c][i] \in Nat /\ served[c][i] <= now /\ now \in Nat
        BY <2>1, <2>3 DEF Agree
      <3> QED
        BY <3>1
    <2>6. \A i \in 1..(Len(served[c]) - Len(hits[c])) : served[c][i] + Window < now + 1
      <3> SUFFICES ASSUME NEW i \in 1..(Len(served[c]) - Len(hits[c]))
                   PROVE  served[c][i] + Window < now + 1
        OBVIOUS
      <3>1. served[c][i] + Window < now
        BY <2>1 DEF Agree
      <3>2. served[c][i] \in Nat /\ now \in Nat /\ Window \in Nat
        BY <2>1, <2>3, <2>4, NumbersAssumption
      <3> QED
        BY <3>1, <3>2
    <2> QED
      BY <2>1, <2>5, <2>6 DEF Agree
  <1> QED
    BY <1>1, <1>2 DEF LimiterInv, Tick, Agree, Spaced, Full

LEMMA RestartKeepsLimiterInv == LimiterInv /\ Restart => LimiterInv'
  BY NumbersAssumption DEF LimiterInv, Restart, LimiterTypeOK, Agree, Spaced

LEMMA NextKeepsLimiterInv == LimiterInv /\ [LimiterNext]_limiterVars => LimiterInv'
  <1> SUFFICES ASSUME LimiterInv, [LimiterNext]_limiterVars
               PROVE  LimiterInv'
    OBVIOUS
  <1>1. CASE Tick
    BY <1>1, TickKeepsLimiterInv
  <1>2. CASE Restart
    BY <1>2, RestartKeepsLimiterInv
  <1>3. ASSUME NEW c \in Clients, Serve(c)
        PROVE  LimiterInv'
    BY <1>3, ServeKeepsLimiterInv
  <1>4. ASSUME NEW c \in Clients, Refuse(c)
        PROVE  LimiterInv'
    BY <1>4, RefuseKeepsLimiterInv
  <1>5. CASE UNCHANGED limiterVars
    BY <1>5 DEF LimiterInv, limiterVars, LimiterTypeOK, Agree, Spaced, Full
  <1> QED
    BY <1>1, <1>2, <1>3, <1>4, <1>5 DEF LimiterNext

--------------------------------------------------------------------------------
\* rate_limit.py, dispatch(): the clock, the logs and their history keep their types.
THEOREM LimiterTypeCorrect == LimiterSpec => []LimiterTypeOK
  <1>1. LimiterInv => LimiterTypeOK
    BY DEF LimiterInv
  <1> QED
    BY <1>1, InitLimiterInv, NextKeepsLimiterInv, PTL DEF LimiterSpec

\* rate_limit.py, dispatch(): in any span as long as the window, both ends counted, one process
\* serves a client at most Limit requests, whatever Limit and Window are.
THEOREM LimitHoldsInEveryWindow == LimiterSpec => []NeverOverLimit
  <1>1. LimiterInv => NeverOverLimit
    BY DEF LimiterInv, NeverOverLimit, Spaced
  <1> QED
    BY <1>1, InitLimiterInv, NextKeepsLimiterInv, PTL DEF LimiterSpec

\* rate_limit.py, dispatch(): a refusal has Limit served requests in the window before it; refused
\* requests do not count.
THEOREM RefusalsAreDeserved == LimiterSpec => []RefusedWhenFull
  <1>1. LimiterInv => RefusedWhenFull
    BY DEF LimiterInv, RefusedWhenFull, Full
  <1> QED
    BY <1>1, InitLimiterInv, NextKeepsLimiterInv, PTL DEF LimiterSpec

\* rate_limit.py, dispatch(): the log of a client never grows past the limit.
THEOREM LogsAreBounded == LimiterSpec => [](\A c \in Clients : Len(hits[c]) <= Limit)
  <1>1. LimiterInv => \A c \in Clients : Len(hits[c]) <= Limit
    BY DEF LimiterInv, Agree
  <1> QED
    BY <1>1, InitLimiterInv, NextKeepsLimiterInv, PTL DEF LimiterSpec

--------------------------------------------------------------------------------
(* The records of a tenant.  A request may change a row because what it read of it is *)
(* still so, in every column that no other request claims.                           *)

Places == {"idle", "checked", "inserting", "writing", "stored", "removing",
           "removed", "done", "refused", "error", "aborted"}

RecordsTyped ==
  /\ rows \subseteq Row
  /\ audited \in [Keys -> Columns]
  /\ pc \in [Requests -> Places]
  /\ task \in [Requests -> Task]
  /\ contested \subseteq Keys \X {"value", "status"}

\* What a request at `place` was asked for and has read, if R are the rows.
Fits(place, t, R) ==
  /\ place = "checked" =>
       /\ t.key \in Tenants /\ t.admin \in Emails
       /\ t.columns.value \in Values /\ t.columns.status = "ACTIVE"
  /\ place = "inserting" =>
       /\ t.columns.value \in Values
       /\ t.columns.status = IF t.key \in Scopes THEN Null ELSE "ACTIVE"
       /\ \/ t.key \in Tenants /\ t.admin \in Emails
          \/ t.key \in Keys \ Tenants /\ t.admin = Null
  /\ place = "writing" =>
       /\ t.key \in Keys /\ (t.key \in Scopes => t.columns.status = Null)
       /\ t.copy \in Row /\ t.copy.key = t.key
       /\ \E row \in R : row.by = t.copy.by /\ row.key = t.key
TaskFits == \A r \in Requests : Fits(pc[r], task[r], rows)

\* A row is known by its key and the request that inserted it, which is done.
RowsNamed ==
  /\ \A row \in rows : pc[row.by] = "done"
  /\ \A a, b \in rows : a.by = b.by /\ a.key = b.key => a = b

\* A key has one row, unless two requests inserted it that no unique key kept apart.
RowsOnce ==
  \A a, b \in rows : a.key = b.key /\ (Unique(a.key) \/ <<a.key, "value">> \notin contested) => a = b

\* Until then the key that such a request is to insert has no row.
InsertersAlone ==
  \A r \in Requests :
    pc[r] = "inserting" /\ ~Unique(task[r].key) /\ <<task[r].key, "value">> \notin contested =>
      \A row \in rows : row.key # task[r].key

\* A column that two requests claim is contested.
ClaimsApart ==
  \A r, q \in Requests : r # q => Claims(pc[r], task[r]) \cap Claims(pc[q], task[q]) \subseteq contested

\* The copy a request starts from is current in the columns it will write.
CopiesAreCurrent ==
  \A r \in Requests, column \in {"value", "status"} :
    pc[r] = "writing" /\ task[r].columns[column] # Null /\ <<task[r].key, column>> \notin contested =>
      \A row \in rows :
        row.by = task[r].copy.by /\ row.key = task[r].key => row[column] = task[r].copy[column]

\* What the events of a key, `said`, tell of its rows in R, when the columns in C are contested.
TrailOf(key, said, R, C) ==
  /\ (\A row \in R : row.key # key) <=> said = Silent
  /\ said # Silent => said.value # Null
  /\ key \in Scopes => said.status = Null
  /\ \A column \in {"value", "status"} :
       <<key, column>> \notin C /\ said[column] # Null =>
         \A row \in R : row.key = key => row[column] = said[column]
TrailAgrees == \A key \in Keys : TrailOf(key, audited[key], rows, contested)

RecordsInv ==
  /\ RecordsTyped
  /\ TaskFits
  /\ RowsNamed /\ RowsOnce
  /\ InsertersAlone /\ ClaimsApart /\ CopiesAreCurrent
  /\ TrailAgrees
  /\ TenantsHaveAdmins

LEMMA KeysApart ==
  /\ Null \notin Keys /\ Null \notin Values /\ Null # "ACTIVE" /\ Null # "INACTIVE"
  /\ Keys = Scopes \cup Codes \cup Tenants \cup Emails
  /\ \A key \in Scopes : key \notin Tenants /\ key \notin Emails /\ key \notin Codes
  /\ \A key \in Tenants : key \notin Emails /\ key \notin Codes
  /\ \A key \in Emails : key \notin Codes
  BY RecordsAssumption DEF Keys, Status

\* Only settings have a key that is not unique.
LEMMA UniqueUnlessSetting == \A key : key \notin Scopes => Unique(key)
  BY DEF Unique

LEMMA ColumnsOf ==
  ASSUME NEW c \in Columns
  PROVE  /\ c = [value |-> c.value, status |-> c.status]
         /\ c.value \in Values \cup {Null} /\ c.status \in {"ACTIVE", "INACTIVE", Null}
         /\ c["value"] = c.value /\ c["status"] = c.status
  BY DEF Columns, Status

LEMMA InitRecordsInv == Init => RecordsInv
  <1> SUFFICES ASSUME Init PROVE RecordsInv
    OBVIOUS
  <1> USE DEF Init
  <1>1. Silent \in Columns /\ NoTask \in Task
    BY DEF Silent, Columns, NoTask, Task
  <1>2. RecordsTyped
    BY <1>1 DEF RecordsTyped, Places
  <1>3. TaskFits
    BY DEF TaskFits, Fits
  <1>4. RowsNamed /\ RowsOnce /\ TenantsHaveAdmins
    BY DEF RowsNamed, RowsOnce, TenantsHaveAdmins
  <1>5. InsertersAlone /\ ClaimsApart /\ CopiesAreCurrent
    BY DEF InsertersAlone, ClaimsApart, CopiesAreCurrent, Claims
  <1>6. TrailAgrees
    BY DEF TrailAgrees, TrailOf, Silent
  <1> QED
    BY <1>2, <1>3, <1>4, <1>5, <1>6 DEF RecordsInv

--------------------------------------------------------------------------------
\* A step in which a request writes no row: it comes to `place` with task t.
Moves(r, place, t) ==
  /\ pc[r] # "done"
  /\ pc' = [pc EXCEPT ![r] = place] /\ task' = [task EXCEPT ![r] = t]
  /\ place \in Places /\ t \in Task /\ Fits(place, t, rows)
  /\ place = "inserting" => Unique(t.key) \/ \A row \in rows : row.key # t.key
  /\ place = "writing" => t.copy \in rows
  /\ contested \subseteq contested' /\ contested' \subseteq Keys \X {"value", "status"}
  /\ \A q \in Requests \ {r} : Claims(place, t) \cap Claims(pc[q], task[q]) \subseteq contested'
  /\ rows' = rows /\ audited' = audited

LEMMA MoveKeepsRecordsInv ==
  ASSUME RecordsInv, NEW r \in Requests, NEW place, NEW t, Moves(r, place, t)
  PROVE  RecordsInv'
  <1> USE DEF Moves
  <1>1. RecordsTyped'
    BY DEF RecordsInv, RecordsTyped
  <1>2. /\ pc'[r] = place /\ task'[r] = t
        /\ \A q \in Requests \ {r} : pc'[q] = pc[q] /\ task'[q] = task[q]
    BY DEF RecordsInv, RecordsTyped
  <1>3. TaskFits'
    BY <1>2 DEF RecordsInv, TaskFits
  <1>4. RowsNamed'
    <2>1. \A row \in rows : row.by \in Requests /\ row.by # r
      BY DEF RecordsInv, RecordsTyped, RowsNamed, Row
    <2> QED
      BY <1>2, <2>1 DEF RecordsInv, RowsNamed
  <1>5. RowsOnce'
    BY DEF RecordsInv, RowsOnce
  <1>6. InsertersAlone'
    <2> SUFFICES ASSUME NEW q \in Requests, pc'[q] = "inserting", ~Unique(task'[q].key),
                        <<task'[q].key, "value">> \notin contested'
                 PROVE  \A row \in rows : row.key # task'[q].key
      BY DEF InsertersAlone
    <2>1. CASE q = r
      BY <2>1, <1>2
    <2>2. CASE q # r
      BY <2>2, <1>2 DEF RecordsInv, InsertersAlone
    <2> QED
      BY <2>1, <2>2
  <1>7. ClaimsApart'
    <2> SUFFICES ASSUME NEW p \in Requests, NEW q \in Requests, p # q
                 PROVE  Claims(pc'[p], task'[p]) \cap Claims(pc'[q], task'[q]) \subseteq contested'
      BY DEF ClaimsApart
    <2>1. CASE p = r
      BY <2>1, <1>2
    <2>2. CASE q = r
      BY <2>2, <1>2
    <2>3. CASE p # r /\ q # r
      BY <2>3, <1>2 DEF RecordsInv, ClaimsApart
    <2> QED
      BY <2>1, <2>2, <2>3
  <1>8. CopiesAreCurrent'
    <2> SUFFICES ASSUME NEW q \in Requests, NEW column \in {"value", "status"},
                        pc'[q] = "writing", task'[q].columns[column] # Null,
                        <<task'[q].key, column>> \notin contested',
                        NEW row \in rows, row.by = task'[q].copy.by, row.key = task'[q].key
                 PROVE  row[column] = task'[q].copy[column]
      BY DEF CopiesAreCurrent
    <2>1. CASE q = r
      <3>1. place = "writing" /\ task'[q] = t
        BY <2>1, <1>2
      <3>2. t.copy \in rows /\ t.copy.key = t.key
        BY <3>1 DEF Fits
      <3>3. row = t.copy
        BY <3>1, <3>2 DEF RecordsInv, RowsNamed
      <3> QED
        BY <3>1, <3>3
    <2>2. CASE q # r
      <3>1. /\ pc[q] = "writing" /\ task[q].columns[column] # Null
            /\ <<task[q].key, column>> \notin contested
            /\ row.by = task[q].copy.by /\ row.key = task[q].key
        BY <2>2, <1>2
      <3>2. row[column] = task[q].copy[column]
        BY <3>1 DEF RecordsInv, CopiesAreCurrent
      <3> QED
        BY <2>2, <3>2, <1>2
    <2> QED
      BY <2>1, <2>2
  <1>9. TrailAgrees'
    <2> SUFFICES ASSUME NEW key \in Keys PROVE TrailOf(key, audited[key], rows, contested')
      BY DEF TrailAgrees
    <2>1. TrailOf(key, audited[key], rows, contested) /\ contested \subseteq contested'
      BY DEF RecordsInv, TrailAgrees
    <2> QED
      BY <2>1 DEF TrailOf
  <1>10. TenantsHaveAdmins'
    BY DEF RecordsInv, TenantsHaveAdmins, Matching, Rows
  <1> QED
    BY <1>1, <1>3, <1>4, <1>5, <1>6, <1>7, <1>8, <1>9, <1>10 DEF RecordsInv

\* An answer, or a step of an upload or a deletion of a file, claims nothing.
LEMMA AnswersMove ==
  ASSUME RecordsInv, NEW r \in Requests, pc[r] # "done", NEW place \in Places, NEW t \in Task,
         place \notin {"checked", "inserting", "writing"},
         pc' = [pc EXCEPT ![r] = place], task' = [task EXCEPT ![r] = t],
         UNCHANGED <<rows, audited, contested>>
  PROVE  Moves(r, place, t)
  BY DEF Moves, Fits, Claims, RecordsInv, RecordsTyped

LEMMA NoTaskTyped == NoTask \in Task /\ Silent \in Columns
  BY DEF NoTask, Silent, Task, Columns

\* Answer() is one.
LEMMA AnswerKeepsRecordsInv ==
  ASSUME RecordsInv, NEW r \in Requests, pc[r] # "done", NEW place \in Places,
         place \notin {"checked", "inserting", "writing"},
         Answer(r, place), UNCHANGED <<rows, audited, contested>>
  PROVE  RecordsInv'
  <1>1. Moves(r, place, NoTask)
    BY AnswersMove, NoTaskTyped DEF Answer, Goto
  <1> QED
    BY <1>1, MoveKeepsRecordsInv

\* Proceed() is a move when what was asked fits.
LEMMA ProceedKeepsRecordsInv ==
  ASSUME RecordsInv, NEW r \in Requests, pc[r] # "done", NEW place \in Places, NEW t \in Task,
         Fits(place, t, rows), place # "idle" => t.key \in Keys,
         place = "inserting" => Unique(t.key) \/ \A row \in rows : row.key # t.key,
         place = "writing" => t.copy \in rows,
         Proceed(r, place, t), UNCHANGED Stored
  PROVE  RecordsInv'
  <1>1. Claims(place, t) \subseteq Keys \X {"value", "status"}
    BY DEF Claims, Places
  <1>2. contested' = contested \cup
          (Claims(place, t) \cap UNION {Claims(pc[q], task[q]) : q \in Requests \ {r}})
    BY DEF Proceed
  <1>3. contested \subseteq contested' /\ contested' \subseteq Keys \X {"value", "status"}
    BY <1>1, <1>2 DEF RecordsInv, RecordsTyped
  <1>4. \A q \in Requests \ {r} : Claims(place, t) \cap Claims(pc[q], task[q]) \subseteq contested'
    BY <1>2
  <1>5. Moves(r, place, t)
    BY <1>3, <1>4 DEF Moves, Proceed, Goto, Stored
  <1> QED
    BY <1>5, MoveKeepsRecordsInv

\* A request asks for a key and some columns.
LEMMA AskTyped ==
  ASSUME NEW key \in Keys, NEW columns \in Columns
  PROVE  /\ Ask(key, columns) \in Task
         /\ Ask(key, columns).key = key /\ Ask(key, columns).columns = columns
         /\ Ask(key, columns).admin = Null
         /\ \A row \in Row :
              LET t == [Ask(key, columns) EXCEPT !.copy = row]
              IN  t \in Task /\ t.key = key /\ t.columns = columns /\ t.copy = row
         /\ \A email \in Emails :
              LET t == [Ask(key, columns) EXCEPT !.admin = email]
              IN  t \in Task /\ t.key = key /\ t.columns = columns /\ t.admin = email
  <1>1. Ask(key, columns) = [key |-> key, admin |-> Null, columns |-> columns, copy |-> Null, file |-> Null]
    BY DEF Ask
  <1>2. Ask(key, columns) \in Task
    BY <1>1 DEF Task
  <1>3. ASSUME NEW row \in Row
        PROVE  [Ask(key, columns) EXCEPT !.copy = row]
               = [key |-> key, admin |-> Null, columns |-> columns, copy |-> row, file |-> Null]
    BY <1>1
  <1>4. ASSUME NEW email \in Emails
        PROVE  [Ask(key, columns) EXCEPT !.admin = email]
               = [key |-> key, admin |-> email, columns |-> columns, copy |-> Null, file |-> Null]
    BY <1>1
  <1>5. \A row \in Row :
          LET t == [Ask(key, columns) EXCEPT !.copy = row]
          IN  t \in Task /\ t.key = key /\ t.columns = columns /\ t.copy = row
    BY <1>3 DEF Task
  <1>6. \A email \in Emails :
          LET t == [Ask(key, columns) EXCEPT !.admin = email]
          IN  t \in Task /\ t.key = key /\ t.columns = columns /\ t.admin = email
    BY <1>4 DEF Task
  <1> QED
    BY <1>1, <1>2, <1>5, <1>6

\* A change starts from a row that is there.
LEMMA ChangeKeepsRecordsInv ==
  ASSUME RecordsInv, NEW r \in Requests, pc[r] = "idle", NEW key \in Keys, NEW columns \in Columns,
         key \in Scopes => columns.status = Null,
         NEW row \in rows, row.key = key,
         Proceed(r, "writing", [Ask(key, columns) EXCEPT !.copy = row]), UNCHANGED Stored
  PROVE  RecordsInv'
  <1> DEFINE t == [Ask(key, columns) EXCEPT !.copy = row]
  <1>1. row \in Row
    BY DEF RecordsInv, RecordsTyped
  <1>2. t \in Task /\ t.key = key /\ t.columns = columns /\ t.copy = row
    BY <1>1, AskTyped
  <1>3. Proceed(r, "writing", t)
    OBVIOUS
  <1> HIDE DEF t
  <1>4. Fits("writing", t, rows)
    BY <1>1, <1>2 DEF Fits
  <1> QED
    BY <1>2, <1>3, <1>4, ProceedKeepsRecordsInv DEF Places

\* A creation of a key without rows.
LEMMA CreationKeepsRecordsInv ==
  ASSUME RecordsInv, NEW r \in Requests, pc[r] = "idle", NEW key \in Keys \ Tenants, NEW columns \in Columns,
         columns.value \in Values, columns.status = IF key \in Scopes THEN Null ELSE "ACTIVE",
         \A row \in rows : row.key # key,
         Proceed(r, "inserting", Ask(key, columns)), UNCHANGED Stored
  PROVE  RecordsInv'
  <1>1. Fits("inserting", Ask(key, columns), rows)
    BY AskTyped DEF Fits
  <1> QED
    BY <1>1, AskTyped, ProceedKeepsRecordsInv DEF Places

LEMMA UpsertKeepsRecordsInv ==
  ASSUME RecordsInv, NEW r \in Requests, NEW scope \in Scopes, NEW value \in Values, Upsert(r, scope, value)
  PROVE  RecordsInv'
  <1> DEFINE columns == [Silent EXCEPT !.value = value]
  <1>1. /\ scope \in Keys \ Tenants /\ columns \in Columns
        /\ columns.value = value /\ columns.status = Null
    BY KeysApart DEF Silent, Columns
  <1> HIDE DEF columns
  <1>2. pc[r] = "idle" /\ UNCHANGED Stored
    BY DEF Upsert
  <1>3. CASE Answer(r, "error") /\ UNCHANGED contested
    BY <1>2, <1>3, AnswerKeepsRecordsInv DEF Stored, Places
  <1>4. CASE Rows(scope) = {} /\ Proceed(r, "inserting", Ask(scope, columns))
    <2>1. \A row \in rows : row.key # scope
      BY <1>4 DEF Rows
    <2> QED
      BY <2>1, <1>1, <1>2, <1>4, CreationKeepsRecordsInv
  <1>5. ASSUME NEW row \in Rows(scope), Proceed(r, "writing", [Ask(scope, columns) EXCEPT !.copy = row])
        PROVE  RecordsInv'
    <2>1. row \in rows /\ row.key = scope
      BY DEF Rows
    <2> QED
      BY <2>1, <1>1, <1>2, <1>5, ChangeKeepsRecordsInv
  <1> QED
    BY <1>3, <1>4, <1>5 DEF Upsert, columns

LEMMA CreateKeepsRecordsInv ==
  ASSUME RecordsInv, NEW r \in Requests, NEW key \in Codes \cup Emails, NEW value \in Values, Create(r, key, value)
  PROVE  RecordsInv'
  <1> DEFINE columns == [value |-> value, status |-> "ACTIVE"]
  <1>1. /\ key \in Keys \ Tenants /\ key \notin Scopes /\ columns \in Columns
        /\ columns.value = value /\ columns.status = "ACTIVE"
    BY KeysApart DEF Columns, Status
  <1> HIDE DEF columns
  <1>2. pc[r] = "idle" /\ UNCHANGED Stored
    BY DEF Create
  <1>3. CASE Answer(r, "refused") /\ UNCHANGED contested
    BY <1>2, <1>3, AnswerKeepsRecordsInv DEF Stored, Places
  <1>4. CASE Rows(key) = {} /\ Proceed(r, "inserting", Ask(key, columns))
    <2>1. \A row \in rows : row.key # key
      BY <1>4 DEF Rows
    <2> QED
      BY <2>1, <1>1, <1>2, <1>4, CreationKeepsRecordsInv
  <1> QED
    BY <1>3, <1>4 DEF Create, columns

LEMMA LookUpTenantKeepsRecordsInv ==
  ASSUME RecordsInv, NEW r \in Requests, NEW key \in Tenants, NEW admin \in Emails, NEW value \in Values,
         LookUpTenant(r, key, admin, value)
  PROVE  RecordsInv'
  <1> DEFINE columns == [value |-> value, status |-> "ACTIVE"]
             t == [Ask(key, columns) EXCEPT !.admin = admin]
  <1>1. key \in Keys /\ columns \in Columns /\ columns.value = value /\ columns.status = "ACTIVE"
    BY KeysApart DEF Columns, Status
  <1> HIDE DEF columns
  <1>2. t \in Task /\ t.key = key /\ t.columns = columns /\ t.admin = admin
    BY <1>1, AskTyped
  <1> HIDE DEF t
  <1>3. pc[r] = "idle" /\ UNCHANGED Stored
    BY DEF LookUpTenant
  <1>4. CASE \E answer \in {"error", "refused"} : Answer(r, answer) /\ UNCHANGED contested
    BY <1>3, <1>4, AnswerKeepsRecordsInv DEF Stored, Places
  <1>5. CASE Proceed(r, "checked", t)
    <2>1. Fits("checked", t, rows)
      BY <1>1, <1>2 DEF Fits
    <2> QED
      BY <2>1, <1>1, <1>2, <1>3, <1>5, ProceedKeepsRecordsInv DEF Places
  <1> QED
    BY <1>4, <1>5 DEF LookUpTenant, columns, t

\* The administrator's email is looked up: a tenant's key is unique, so nothing is claimed.
LEMMA LookUpAdminKeepsRecordsInv ==
  ASSUME RecordsInv, NEW r \in Requests, LookUpAdmin(r)
  PROVE  RecordsInv'
  <1>1. pc[r] = "checked" /\ UNCHANGED <<rows, audited, contested>>
    BY DEF LookUpAdmin, Stored
  <1>2. CASE Answer(r, "refused")
    BY <1>1, <1>2, AnswerKeepsRecordsInv DEF Places
  <1>3. CASE Goto(r, "inserting") /\ UNCHANGED task
    <2> DEFINE t == task[r]
    <2>1. /\ t.key \in Tenants /\ t.admin \in Emails
          /\ t.columns.value \in Values /\ t.columns.status = "ACTIVE"
      BY <1>1 DEF RecordsInv, TaskFits, Fits
    <2>2. t.key \notin Scopes /\ Unique(t.key)
      BY <2>1, KeysApart, UniqueUnlessSetting
    <2>3. Fits("inserting", t, rows) /\ Claims("inserting", t) = {}
      BY <2>1, <2>2 DEF Fits, Claims
    <2>4. task' = [task EXCEPT ![r] = t] /\ t \in Task
      BY <1>3 DEF RecordsInv, RecordsTyped
    <2> HIDE DEF t
    <2>5. Moves(r, "inserting", t)
      BY <1>1, <1>3, <2>2, <2>3, <2>4 DEF Moves, Places, Goto, RecordsInv, RecordsTyped
    <2> QED
      BY <2>5, MoveKeepsRecordsInv
  <1> QED
    BY <1>2, <1>3 DEF LookUpAdmin

LEMMA LoadKeepsRecordsInv ==
  ASSUME RecordsInv, NEW r \in Requests, NEW key \in Keys \ Scopes, NEW columns \in Columns, Load(r, key, columns)
  PROVE  RecordsInv'
  <1>1. pc[r] = "idle" /\ UNCHANGED Stored
    BY DEF Load
  <1>2. CASE Answer(r, "refused") /\ UNCHANGED contested
    BY <1>1, <1>2, AnswerKeepsRecordsInv DEF Stored, Places
  <1>3. ASSUME NEW row \in Rows(key), Proceed(r, "writing", [Ask(key, columns) EXCEPT !.copy = row])
        PROVE  RecordsInv'
    <2>1. row \in rows /\ row.key = key
      BY DEF Rows
    <2> QED
      BY <2>1, <1>1, <1>3, ChangeKeepsRecordsInv
  <1> QED
    BY <1>2, <1>3 DEF Load

--------------------------------------------------------------------------------
(* INSERT.  Where a key is unique, or nobody else claims it, the new row is its only one. *)

Wanted(t) == {t.key, t.admin} \ {Null}

NewRow(r, key) == [by |-> r, key |-> key, value |-> task[r].columns.value, status |-> "ACTIVE"]

\* The rows a request inserts, when no key of them is taken.
Inserts(r) ==
  /\ pc[r] = "inserting"
  /\ \A key \in Wanted(task[r]) : ~KeyTaken(key)
  /\ rows' = rows \cup {NewRow(r, key) : key \in Wanted(task[r])}
  /\ audited' = [key \in Keys |-> IF key \in Wanted(task[r]) THEN Overlay(audited[key], task[r].columns)
                                  ELSE audited[key]]
  /\ Answer(r, "done")
  /\ UNCHANGED contested

\* What the keys of an insertion are, and that none of them has a row.
LEMMA WantedKeys ==
  ASSUME RecordsInv, NEW r \in Requests, Inserts(r)
  PROVE  LET t == task[r] IN
         /\ t.key \in Wanted(t) /\ Wanted(t) \subseteq Keys
         /\ t.columns.value \in Values /\ t.columns \in Columns
         /\ \A key \in Wanted(t) : key \in Scopes => key = t.key /\ t.columns.status = Null
         /\ \A key \in Wanted(t) : key \notin Scopes => t.columns.status = "ACTIVE"
         /\ \A key \in Wanted(t) : key \in Tenants => key = t.key /\ t.admin \in Emails /\ t.admin \in Wanted(t)
         /\ \A key \in Wanted(t) : Unique(key) => Matching(key) = {}
         /\ \A key \in Wanted(t) :
              Unique(key) \/ <<key, "value">> \notin contested => \A row \in rows : row.key # key
  <1> DEFINE t == task[r]
  <1>1. /\ t.columns.value \in Values
        /\ t.columns.status = IF t.key \in Scopes THEN Null ELSE "ACTIVE"
        /\ \/ t.key \in Tenants /\ t.admin \in Emails
           \/ t.key \in Keys \ Tenants /\ t.admin = Null
    BY DEF Inserts, RecordsInv, TaskFits, Fits
  <1>2. t.columns \in Columns
    BY DEF RecordsInv, RecordsTyped, Task
  <1>3. ~Unique(t.key) /\ <<t.key, "value">> \notin contested => \A row \in rows : row.key # t.key
    BY DEF Inserts, RecordsInv, InsertersAlone
  <1>4. \A key \in Wanted(t) : Unique(key) => Matching(key) = {}
    BY DEF Inserts, KeyTaken
  <1> HIDE DEF t
  <1>5. /\ t.key \in Wanted(t) /\ Wanted(t) \subseteq Keys
        /\ \A key \in Wanted(t) : key \in Scopes => key = t.key /\ t.columns.status = Null
        /\ \A key \in Wanted(t) : key \notin Scopes => t.columns.status = "ACTIVE"
        /\ \A key \in Wanted(t) : key \in Tenants => key = t.key /\ t.admin \in Emails /\ t.admin \in Wanted(t)
    BY <1>1, KeysApart DEF Wanted
  <1>6. ASSUME NEW key \in Wanted(t), Unique(key) \/ <<key, "value">> \notin contested, NEW row \in rows
        PROVE  row.key # key
    <2>1. CASE Unique(key)
      <3>1. Matching(key) = {}
        BY <1>4, <2>1
      <3> QED
        BY <3>1 DEF Matching, Rows
    <2>2. CASE ~Unique(key)
      <3>1. key = t.key
        BY <1>5, <2>2, UniqueUnlessSetting
      <3> QED
        BY <3>1, <2>2, <1>3, <1>6
    <2> QED
      BY <2>1, <2>2
  <1> QED
    BY <1>1, <1>2, <1>4, <1>5, <1>6 DEF t

LEMMA InsertsKeepsRecordsInv ==
  ASSUME RecordsInv, NEW r \in Requests, Inserts(r)
  PROVE  RecordsInv'
  <1> DEFINE t == task[r]
             new == Wanted(t)
             N == {NewRow(r, key) : key \in new}
  <1>0. /\ t.key \in new /\ new \subseteq Keys
        /\ t.columns.value \in Values /\ t.columns \in Columns
        /\ \A key \in new : key \in Scopes => key = t.key /\ t.columns.status = Null
        /\ \A key \in new : key \notin Scopes => t.columns.status = "ACTIVE"
        /\ \A key \in new : key \in Tenants => key = t.key /\ t.admin \in Emails /\ t.admin \in new
        /\ \A key \in new : Unique(key) => Matching(key) = {}
        /\ \A key \in new :
             Unique(key) \/ <<key, "value">> \notin contested => \A row \in rows : row.key # key
    BY WantedKeys
  <1>1. /\ pc[r] = "inserting"
        /\ rows' = rows \cup N
        /\ \A key \in Keys :
             audited'[key] = IF key \in new THEN Overlay(audited[key], t.columns) ELSE audited[key]
        /\ contested' = contested
    BY DEF Inserts
  <1>2. /\ pc'[r] = "done" /\ task'[r] = NoTask
        /\ \A q \in Requests \ {r} : pc'[q] = pc[q] /\ task'[q] = task[q]
    BY DEF Inserts, Answer, Goto, RecordsInv, RecordsTyped
  <1>3. \A x \in N : x \in Row /\ x.by = r /\ x.key \in new /\ x.value = t.columns.value /\ x.status = "ACTIVE"
    BY <1>0 DEF NewRow, Row, Status
  <1>4. \A key \in new : \E x \in N : x.key = key
    <2> TAKE key \in new
    <2>1. NewRow(r, key) \in N /\ NewRow(r, key).key = key
      BY DEF NewRow
    <2> QED
      BY <2>1
  <1>5. \A x, y \in N : x.key = y.key => x = y
    <2> TAKE x, y \in N
    <2>1. PICK k \in new : x = NewRow(r, k)
      OBVIOUS
    <2>2. PICK m \in new : y = NewRow(r, m)
      OBVIOUS
    <2>3. x.key = k /\ y.key = m
      BY <2>1, <2>2 DEF NewRow
    <2> QED
      BY <2>1, <2>2, <2>3
  <1>6. \A row \in rows : row \in Row /\ pc[row.by] = "done" /\ row.by \in Requests /\ row.by # r
    BY <1>1 DEF RecordsInv, RecordsTyped, RowsNamed, Row
  <1>7. \A key \in Keys : audited[key] \in Columns
    BY DEF RecordsInv, RecordsTyped
  <1> HIDE DEF t, new, N
  <1>8. \A key \in new : LET said == Overlay(audited[key], t.columns) IN
          /\ said \in Columns /\ said.value = t.columns.value
          /\ key \in Scopes => said.status = audited[key].status
          /\ key \notin Scopes => said.status = "ACTIVE"
    BY <1>0, <1>7, KeysApart DEF Overlay, Columns
  <1>9. RecordsTyped'
    <2>1. rows' \subseteq Row
      BY <1>1, <1>3, <1>6
    <2>2. audited' \in [Keys -> Columns]
      BY <1>7, <1>8 DEF Inserts, t, new
    <2>3. pc' \in [Requests -> Places] /\ task' \in [Requests -> Task]
      BY NoTaskTyped DEF Inserts, Answer, Goto, RecordsInv, RecordsTyped, Places
    <2> QED
      BY <2>1, <2>2, <2>3, <1>1 DEF RecordsInv, RecordsTyped
  <1>10. TaskFits'
    <2> SUFFICES ASSUME NEW q \in Requests PROVE Fits(pc'[q], task'[q], rows')
      BY DEF TaskFits
    <2>1. CASE q = r
      BY <2>1, <1>2 DEF Fits
    <2>2. CASE q # r
      <3>1. Fits(pc[q], task[q], rows)
        BY DEF RecordsInv, TaskFits
      <3> QED
        BY <3>1, <2>2, <1>1, <1>2 DEF Fits
    <2> QED
      BY <2>1, <2>2
  <1>11. RowsNamed'
    <2>1. \A a, b \in rows : a.by = b.by /\ a.key = b.key => a = b
      BY DEF RecordsInv, RowsNamed
    <2>2. \A row \in rows' : pc'[row.by] = "done"
      BY <1>1, <1>2, <1>3, <1>6
    <2>3. \A a, b \in rows' : a.by = b.by /\ a.key = b.key => a = b
      BY <2>1, <1>1, <1>3, <1>5, <1>6
    <2> QED
      BY <2>2, <2>3 DEF RowsNamed
  <1>12. RowsOnce'
    <2> SUFFICES ASSUME NEW a \in rows', NEW b \in rows', a.key = b.key,
                        Unique(a.key) \/ <<a.key, "value">> \notin contested
                 PROVE  a = b
      BY <1>1 DEF RowsOnce
    <2>1. CASE a \in rows /\ b \in rows
      BY <2>1 DEF RecordsInv, RowsOnce
    <2>2. CASE a \in N \/ b \in N
      BY <2>2, <1>0, <1>1, <1>3, <1>5
    <2> QED
      BY <2>1, <2>2, <1>1
  <1>13. InsertersAlone'
    <2> SUFFICES ASSUME NEW q \in Requests, pc'[q] = "inserting", ~Unique(task'[q].key),
                        <<task'[q].key, "value">> \notin contested, NEW row \in rows'
                 PROVE  row.key # task'[q].key
      BY <1>1 DEF InsertersAlone
    <2>1. q # r /\ pc[q] = "inserting" /\ task'[q] = task[q]
      BY <1>2
    <2>2. CASE row \in rows
      BY <2>1, <2>2 DEF RecordsInv, InsertersAlone
    <2>3. ASSUME row \in N, row.key = task[q].key PROVE FALSE
      <3>1. row.key \in new
        BY <2>3, <1>3
      <3>2. row.key = t.key
        BY <3>1, <2>1, <2>3, <1>0, UniqueUnlessSetting
      <3>3. task[q].columns.value \in Values
        BY <2>1 DEF RecordsInv, TaskFits, Fits
      <3>4. <<t.key, "value">> \in Claims(pc[q], task[q])
        BY <3>2, <3>3, <2>1, <2>3, KeysApart DEF Claims
      <3>5. <<t.key, "value">> \in Claims(pc[r], task[r])
        BY <3>2, <2>1, <2>3, <1>0, <1>1, KeysApart DEF Claims, t
      <3> QED
        BY <3>2, <3>4, <3>5, <2>1, <2>3 DEF RecordsInv, ClaimsApart
    <2> QED
      BY <2>1, <2>2, <2>3, <1>1
  <1>14. ClaimsApart'
    <2>1. Claims(pc'[r], task'[r]) = {}
      BY <1>2 DEF Claims
    <2> QED
      BY <2>1, <1>1, <1>2 DEF RecordsInv, ClaimsApart
  <1>15. CopiesAreCurrent'
    <2> SUFFICES ASSUME NEW q \in Requests, NEW column \in {"value", "status"},
                        pc'[q] = "writing", task'[q].columns[column] # Null,
                        <<task'[q].key, column>> \notin contested,
                        NEW row \in rows', row.by = task'[q].copy.by, row.key = task'[q].key
                 PROVE  row[column] = task'[q].copy[column]
      BY <1>1 DEF CopiesAreCurrent
    <2>1. q # r /\ pc[q] = "writing" /\ task'[q] = task[q]
      BY <1>2
    <2>2. \E old \in rows : old.by = task[q].copy.by
      BY <2>1 DEF RecordsInv, TaskFits, Fits
    <2>3. row \in rows
      <3>1. PICK old \in rows : old.by = row.by
        BY <2>1, <2>2
      <3>2. row \notin N
        BY <3>1, <1>3, <1>6
      <3> QED
        BY <3>2, <1>1
    <2>4. /\ task[q].columns[column] # Null /\ <<task[q].key, column>> \notin contested
          /\ row.by = task[q].copy.by /\ row.key = task[q].key
      BY <2>1
    <2>5. row[column] = task[q].copy[column]
      BY <2>1, <2>3, <2>4 DEF RecordsInv, CopiesAreCurrent
    <2> QED
      BY <2>1, <2>5
  <1>16. TrailAgrees'
    <2> SUFFICES ASSUME NEW key \in Keys PROVE TrailOf(key, audited'[key], rows', contested)
      BY <1>1 DEF TrailAgrees
    <2>1. TrailOf(key, audited[key], rows, contested)
      BY DEF RecordsInv, TrailAgrees
    <2>2. CASE key \notin new
      <3>1. \A row \in rows' : row.key = key => row \in rows
        BY <2>2, <1>1, <1>3
      <3> QED
        BY <3>1, <2>1, <2>2, <1>1 DEF TrailOf
    <2>3. CASE key \in new
      <3> DEFINE said == Overlay(audited[key], t.columns)
      <3>1. /\ said.value = t.columns.value /\ said.value # Null /\ said # Silent
            /\ key \in Scopes => said.status = audited[key].status
            /\ key \notin Scopes => said.status = "ACTIVE"
        BY <2>3, <1>0, <1>8, KeysApart DEF Silent
      <3>2. audited'[key] = said
        BY <2>3, <1>1
      <3>3. \E row \in rows' : row.key = key
        BY <2>3, <1>1, <1>4
      <3>4. key \in Scopes => said.status = Null
        BY <3>1, <2>1 DEF TrailOf
      <3>5. Unique(key) \/ <<key, "value">> \notin contested =>
              \A row \in rows' : row.key = key => row.value = t.columns.value /\ row.status = "ACTIVE"
        BY <2>3, <1>0, <1>1, <1>3
      <3> HIDE DEF said
      <3>6. <<key, "value">> \notin contested => \A row \in rows' : row.key = key => row["value"] = said["value"]
        BY <3>1, <3>5
      <3>7. said["status"] # Null => \A row \in rows' : row.key = key => row["status"] = said["status"]
        BY <3>1, <3>4, <3>5, UniqueUnlessSetting
      <3> QED
        BY <3>1, <3>2, <3>3, <3>4, <3>6, <3>7 DEF TrailOf
    <2> QED
      BY <2>2, <2>3
  <1>17. TenantsHaveAdmins'
    <2> SUFFICES ASSUME NEW row \in rows'
                 PROVE  /\ row.key \in Tenants => \E admin \in rows' : admin.key \in Emails /\ admin.by = row.by
                        /\ row.key \notin Scopes => Matching(row.key)' = {row}
      BY DEF TenantsHaveAdmins
    <2>1. row.key \in Tenants => \E admin \in rows' : admin.key \in Emails /\ admin.by = row.by
      <3>1. CASE row \in rows
        BY <3>1, <1>1 DEF RecordsInv, TenantsHaveAdmins
      <3>2. CASE row \in N
        BY <3>2, <1>0, <1>1, <1>3, <1>4
      <3> QED
        BY <3>1, <3>2, <1>1
    <2>2. ASSUME row.key \notin Scopes PROVE Matching(row.key)' = {row}
      <3>1. Matching(row.key)' = Matching(row.key) \cup
              (IF row.key \in Tenants
               THEN {x \in N : x.key \in Tenants /\ (x.key.code = row.key.code \/ x.key.slug = row.key.slug)}
               ELSE {x \in N : x.key = row.key})
        BY <1>1 DEF Matching, Rows
      <3>2. \A x \in N : x.key \in Tenants => x.key = t.key
        BY <1>0, <1>3
      <3>3. \A x \in N : x.key \notin Scopes => Matching(x.key) = {}
        BY <1>0, <1>3, UniqueUnlessSetting
      <3>4. CASE row \in N
        <4>1. Matching(row.key) = {}
          BY <3>3, <3>4, <2>2
        <4>2. row.key \in Tenants => \A x \in N : x.key \in Tenants => x = row
          BY <3>2, <3>4, <1>5
        <4>3. \A x \in N : x.key = row.key => x = row
          BY <3>4, <1>5
        <4> QED
          BY <3>1, <3>4, <4>1, <4>2, <4>3
      <3>5. CASE row \in rows
        <4>1. Matching(row.key) = {row}
          BY <2>2, <3>5 DEF RecordsInv, TenantsHaveAdmins
        <4>2. \A x \in N : x.key # row.key
          BY <3>5, <2>2, <1>0, <1>3, UniqueUnlessSetting
        <4>3. ASSUME row.key \in Tenants, NEW x \in N, x.key \in Tenants
              PROVE  x.key.code # row.key.code /\ x.key.slug # row.key.slug
          <5>1. Matching(x.key) = {} /\ row \notin Matching(x.key)
            BY <3>3, <4>3, KeysApart
          <5> QED
            BY <5>1, <4>3, <3>5 DEF Matching
        <4> QED
          BY <3>1, <4>1, <4>2, <4>3
      <3> QED
        BY <3>4, <3>5, <1>1
    <2> QED
      BY <2>1, <2>2
  <1> QED
    BY <1>9, <1>10, <1>11, <1>12, <1>13, <1>14, <1>15, <1>16, <1>17 DEF RecordsInv

LEMMA InsertKeepsRecordsInv ==
  ASSUME RecordsInv, NEW r \in Requests, Insert(r)
  PROVE  RecordsInv'
  <1>1. pc[r] = "inserting" /\ UNCHANGED contested
    BY DEF Insert
  <1>2. CASE \E key \in Wanted(task[r]) : KeyTaken(key)
    <2>1. Answer(r, "error") /\ UNCHANGED <<rows, audited>>
      BY <1>2 DEF Insert, Wanted
    <2> QED
      BY <1>1, <2>1, AnswerKeepsRecordsInv DEF Places
  <1>3. CASE \A key \in Wanted(task[r]) : ~KeyTaken(key)
    <2>1. Inserts(r)
      BY <1>1, <1>3 DEF Insert, Inserts, Wanted, NewRow
    <2> QED
      BY <2>1, InsertsKeepsRecordsInv
  <1> QED
    BY <1>2, <1>3

--------------------------------------------------------------------------------
(* UPDATE.  A row keeps its key and who inserted it; a column the request claims gets *)
(* the value asked for, another one stays as it is.                                  *)

\* What a row becomes under task t.
Written(row, t) ==
  IF row.by = t.copy.by /\ row.key = t.key
  THEN [by |-> row.by, key |-> row.key,
        value |-> IF t.columns.value \notin {Null, t.copy.value} THEN t.columns.value ELSE row.value,
        status |-> IF t.columns.status \notin {Null, t.copy.status} THEN t.columns.status ELSE row.status]
  ELSE row

LEMMA WriteWrites ==
  ASSUME RecordsInv, NEW r \in Requests, Write(r)
  PROVE  /\ rows' = {Written(row, task[r]) : row \in rows}
         /\ audited' = [audited EXCEPT ![task[r].key] = Overlay(@, task[r].columns)]
  <1> DEFINE t == task[r]
  <1>1. /\ rows' = {Written(row, t) : row \in rows}
        /\ audited' = [audited EXCEPT ![t.key] = Overlay(@, t.columns)]
    BY DEF Write, Written
  <1> QED
    BY <1>1

\* What a write leaves as it was, and what it makes of the other columns.
LEMMA WrittenRows ==
  ASSUME NEW row \in Row, NEW t \in Task, t.copy \in Row, t.key \in Keys
  PROVE  LET after == Written(row, t) IN
         /\ after \in Row /\ after.by = row.by /\ after.key = row.key
         /\ \A column \in {"value", "status"} :
              after[column] =
                IF row.by = t.copy.by /\ row.key = t.key /\ t.columns[column] \notin {Null, t.copy[column]}
                THEN t.columns[column] ELSE row[column]
  <1>1. t.columns.value \in Values \cup {Null} /\ t.columns.status \in Status \cup {Null}
    BY DEF Task, Columns
  <1>2. CASE row.by = t.copy.by /\ row.key = t.key
    <2> DEFINE v == IF t.columns.value \notin {Null, t.copy.value} THEN t.columns.value ELSE row.value
               s == IF t.columns.status \notin {Null, t.copy.status} THEN t.columns.status ELSE row.status
    <2>1. v \in Values /\ s \in Status
      BY <1>1 DEF Row
    <2>2. Written(row, t) = [by |-> row.by, key |-> row.key, value |-> v, status |-> s]
      BY <1>2 DEF Written
    <2>3. Written(row, t)["value"] = v /\ Written(row, t)["status"] = s
      BY <2>2
    <2>4. Written(row, t) \in Row
      BY <2>1, <2>2 DEF Row
    <2>5. Written(row, t).by = row.by /\ Written(row, t).key = row.key
      BY <2>2
    <2> QED
      BY <1>2, <2>3, <2>4, <2>5
  <1>3. CASE ~(row.by = t.copy.by /\ row.key = t.key)
    BY <1>3 DEF Written
  <1> QED
    BY <1>2, <1>3

LEMMA WriteKeepsRecordsInv ==
  ASSUME RecordsInv, NEW r \in Requests, Write(r)
  PROVE  RecordsInv'
  <1> DEFINE t == task[r]
             W(row) == Written(row, t)
  <1>1. /\ pc[r] = "writing" /\ contested' = contested
        /\ pc'[r] = "done" /\ task'[r] = NoTask
        /\ \A q \in Requests \ {r} : pc'[q] = pc[q] /\ task'[q] = task[q]
    BY DEF Write, Answer, Goto, RecordsInv, RecordsTyped
  <1>2. /\ t \in Task /\ t.columns \in Columns /\ t.key \in Keys
        /\ t.key \in Scopes => t.columns.status = Null
        /\ t.copy \in Row
        /\ \E row \in rows : row.by = t.copy.by /\ row.key = t.key
    BY <1>1 DEF RecordsInv, RecordsTyped, TaskFits, Fits, Task
  <1>3. rows' = {W(row) : row \in rows}
    BY WriteWrites
  <1>4. \A key \in Keys : audited'[key] = IF key = t.key THEN Overlay(audited[key], t.columns) ELSE audited[key]
    BY WriteWrites DEF RecordsInv, RecordsTyped
  <1>5. \A row \in rows :
          /\ W(row) \in rows' /\ W(row) \in Row /\ W(row).by = row.by /\ W(row).key = row.key
          /\ \A column \in {"value", "status"} :
               W(row)[column] =
                 IF row.by = t.copy.by /\ row.key = t.key /\ t.columns[column] \notin {Null, t.copy[column]}
                 THEN t.columns[column] ELSE row[column]
    BY <1>2, <1>3, WrittenRows DEF RecordsInv, RecordsTyped
  <1>6. \A key \in Keys : audited[key] \in Columns
    BY DEF RecordsInv, RecordsTyped
  <1>7. LET said == Overlay(audited[t.key], t.columns) IN
          /\ said \in Columns
          /\ \A column \in {"value", "status"} :
               said[column] = IF t.columns[column] = Null THEN audited[t.key][column] ELSE t.columns[column]
    <2> DEFINE before1 == audited[t.key]
               said == Overlay(before1, t.columns)
    <2>1. before1 \in Columns
      BY <1>2, <1>6
    <2> HIDE DEF before1, t
    <2>2. /\ said.value = IF t.columns.value = Null THEN before1.value ELSE t.columns.value
          /\ said.status = IF t.columns.status = Null THEN before1.status ELSE t.columns.status
      BY DEF Overlay
    <2>3. said \in Columns
      BY <1>2, <2>1 DEF Overlay, Columns
    <2> HIDE DEF said
    <2> QED
      BY <2>2, <2>3 DEF said, before1
  <1>8. \A column \in {"value", "status"} : t.columns[column] # Null => <<t.key, column>> \in Claims(pc[r], t)
    BY <1>1 DEF Claims
  <1> HIDE DEF t, W
  <1>9. \A x \in rows' : \E row \in rows : x = W(row)
    BY <1>3
  <1>10. RecordsTyped'
    <2>1. rows' \subseteq Row
      BY <1>5, <1>9
    <2>2. audited' \in [Keys -> Columns]
      BY <1>2, <1>6, <1>7, WriteWrites DEF RecordsInv, RecordsTyped, t
    <2>3. pc' \in [Requests -> Places] /\ task' \in [Requests -> Task]
      BY NoTaskTyped DEF Write, Answer, Goto, RecordsInv, RecordsTyped, Places
    <2> QED
      BY <2>1, <2>2, <2>3, <1>1 DEF RecordsInv, RecordsTyped
  <1>11. TaskFits'
    <2> SUFFICES ASSUME NEW q \in Requests PROVE Fits(pc'[q], task'[q], rows')
      BY DEF TaskFits
    <2>1. CASE q = r
      BY <2>1, <1>1 DEF Fits
    <2>2. CASE q # r
      <3>1. Fits(pc[q], task[q], rows)
        BY DEF RecordsInv, TaskFits
      <3>2. \A by1, key : (\E row \in rows : row.by = by1 /\ row.key = key)
                           => \E row \in rows' : row.by = by1 /\ row.key = key
        BY <1>5
      <3> QED
        BY <3>1, <3>2, <2>2, <1>1 DEF Fits
    <2> QED
      BY <2>1, <2>2
  <1>12. RowsNamed'
    <2>1. \A x \in rows' : pc'[x.by] = "done"
      <3> TAKE x \in rows'
      <3>1. PICK row \in rows : x = W(row)
        BY <1>9
      <3>2. x.by = row.by /\ pc[row.by] = "done" /\ row.by \in Requests
        BY <3>1, <1>5 DEF RecordsInv, RecordsTyped, RowsNamed, Row
      <3> QED
        BY <3>2, <1>1
    <2>2. \A a, b \in rows' : a.by = b.by /\ a.key = b.key => a = b
      BY <1>5, <1>9 DEF RecordsInv, RowsNamed
    <2> QED
      BY <2>1, <2>2 DEF RowsNamed
  <1>13. RowsOnce'
    <2> SUFFICES ASSUME NEW a \in rows', NEW b \in rows', a.key = b.key,
                        Unique(a.key) \/ <<a.key, "value">> \notin contested
                 PROVE  a = b
      BY <1>1 DEF RowsOnce
    <2>1. PICK x \in rows : a = W(x)
      BY <1>9
    <2>2. PICK y \in rows : b = W(y)
      BY <1>9
    <2>3. x = y
      BY <2>1, <2>2, <1>5 DEF RecordsInv, RowsOnce
    <2> QED
      BY <2>1, <2>2, <2>3
  <1>14. InsertersAlone'
    <2> SUFFICES ASSUME NEW q \in Requests, pc'[q] = "inserting", ~Unique(task'[q].key),
                        <<task'[q].key, "value">> \notin contested, NEW x \in rows'
                 PROVE  x.key # task'[q].key
      BY <1>1 DEF InsertersAlone
    <2>1. pc[q] = "inserting" /\ task'[q] = task[q]
      BY <1>1
    <2>2. PICK row \in rows : x = W(row)
      BY <1>9
    <2> QED
      BY <2>1, <2>2, <1>5 DEF RecordsInv, InsertersAlone
  <1>15. ClaimsApart'
    <2>1. Claims(pc'[r], task'[r]) = {}
      BY <1>1 DEF Claims
    <2> QED
      BY <2>1, <1>1 DEF RecordsInv, ClaimsApart
  <1>16. CopiesAreCurrent'
    <2> SUFFICES ASSUME NEW q \in Requests, NEW column \in {"value", "status"},
                        pc'[q] = "writing", task'[q].columns[column] # Null,
                        <<task'[q].key, column>> \notin contested,
                        NEW x \in rows', x.by = task'[q].copy.by, x.key = task'[q].key
                 PROVE  x[column] = task'[q].copy[column]
      BY <1>1 DEF CopiesAreCurrent
    <2>1. q # r /\ pc[q] = "writing" /\ task'[q] = task[q]
      BY <1>1
    <2>2. PICK row \in rows : x = W(row)
      BY <1>9
    <2>3. row.by = task[q].copy.by /\ row.key = task[q].key
      BY <2>1, <2>2, <1>5
    <2>4. row[column] = task[q].copy[column]
      BY <2>1, <2>3 DEF RecordsInv, CopiesAreCurrent
    <2>5. row.key = t.key => t.columns[column] = Null
      <3>1. <<task[q].key, column>> \in Claims(pc[q], task[q])
        BY <2>1 DEF Claims
      <3>2. row.key = t.key /\ t.columns[column] # Null => <<task[q].key, column>> \in Claims(pc[r], t)
        BY <1>8, <2>3
      <3> QED
        BY <3>1, <3>2, <2>1 DEF RecordsInv, ClaimsApart, t
    <2>6. x[column] = row[column]
      BY <2>2, <2>5, <1>5
    <2> QED
      BY <2>1, <2>4, <2>6
  <1>17. TrailAgrees'
    <2> SUFFICES ASSUME NEW key \in Keys PROVE TrailOf(key, audited'[key], rows', contested)
      BY <1>1 DEF TrailAgrees
    <2>1. TrailOf(key, audited[key], rows, contested)
      BY DEF RecordsInv, TrailAgrees
    <2>2. (\A x \in rows' : x.key # key) <=> (\A row \in rows : row.key # key)
      BY <1>5, <1>9
    <2>3. CASE key # t.key
      <3>1. \A x \in rows' : x.key = key => \E row \in rows : row.key = key /\ x["value"] = row["value"] /\ x["status"] = row["status"]
        BY <2>3, <1>5, <1>9
      <3>2. audited'[key] = audited[key]
        BY <2>3, <1>4
      <3> QED
        BY <3>1, <3>2, <2>1, <2>2 DEF TrailOf
    <2>4. CASE key = t.key
      <3> DEFINE said == audited'[key]
      <3>1. \A column \in {"value", "status"} :
              said[column] = IF t.columns[column] = Null THEN audited[key][column] ELSE t.columns[column]
        BY <2>4, <1>4, <1>7
      <3>2. /\ said.value = IF t.columns.value = Null THEN audited[key].value ELSE t.columns.value
            /\ said.status = IF t.columns.status = Null THEN audited[key].status ELSE t.columns.status
        <4>1. said = Overlay(audited[key], t.columns)
          BY <2>4, <1>4
        <4> HIDE DEF said
        <4> QED
          BY <4>1 DEF Overlay
      <3>3. audited[key] # Silent /\ ~(\A row \in rows : row.key # key)
        BY <2>1, <2>4, <1>2 DEF TrailOf
      <3>4. said.value # Null /\ said # Silent
        BY <2>1, <3>2, <3>3 DEF TrailOf, Silent
      <3>5. key \in Scopes => said.status = Null
        BY <2>1, <2>4, <3>2, <1>2 DEF TrailOf
      <3>6. ASSUME NEW column \in {"value", "status"}, <<key, column>> \notin contested, said[column] # Null,
                   NEW x \in rows', x.key = key
            PROVE  x[column] = said[column]
        <4>1. PICK row \in rows : x = W(row) /\ row.key = key
          BY <3>6, <1>5, <1>9
        <4>2. CASE t.columns[column] = Null
          <5>1. said[column] = audited[key][column] /\ x[column] = row[column]
            BY <4>1, <4>2, <3>1, <1>5
          <5>2. row[column] = audited[key][column]
            BY <5>1, <4>1, <3>6, <2>1 DEF TrailOf
          <5> QED
            BY <5>1, <5>2
        <4>3. CASE t.columns[column] # Null
          <5>1. Unique(key) \/ <<key, "value">> \notin contested
            <6>1. CASE column = "value"
              BY <6>1, <3>6
            <6>2. CASE column = "status"
              <7>1. key \notin Scopes
                BY <6>2, <4>3, <2>4, <1>2
              <7> QED
                BY <7>1, UniqueUnlessSetting
            <6> QED
              BY <6>1, <6>2
          <5>2. row.by = t.copy.by
            BY <5>1, <4>1, <2>4, <1>2 DEF RecordsInv, RowsOnce
          <5>3. row[column] = t.copy[column]
            BY <5>2, <4>1, <4>3, <3>6, <2>4, <1>1 DEF RecordsInv, CopiesAreCurrent, t
          <5>4. x[column] = t.columns[column]
            BY <5>2, <5>3, <4>1, <4>3, <2>4, <1>5
          <5> QED
            BY <5>4, <4>3, <3>1
        <4> QED
          BY <4>2, <4>3
      <3> HIDE DEF said
      <3>7. TrailOf(key, said, rows', contested)
        BY <2>2, <3>3, <3>4, <3>5, <3>6 DEF TrailOf
      <3> QED
        BY <3>7 DEF said
    <2> QED
      BY <2>3, <2>4
  <1>18. TenantsHaveAdmins'
    <2> SUFFICES ASSUME NEW x \in rows'
                 PROVE  /\ x.key \in Tenants => \E admin \in rows' : admin.key \in Emails /\ admin.by = x.by
                        /\ x.key \notin Scopes => Matching(x.key)' = {x}
      BY DEF TenantsHaveAdmins
    <2>1. PICK row \in rows : x = W(row) /\ x.key = row.key /\ x.by = row.by
      BY <1>5, <1>9
    <2>2. x.key \in Tenants => \E admin \in rows' : admin.key \in Emails /\ admin.by = x.by
      BY <2>1, <1>5 DEF RecordsInv, TenantsHaveAdmins
    <2>3. ASSUME x.key \notin Scopes PROVE Matching(x.key)' = {x}
      <3>1. Matching(row.key) = {row}
        BY <2>1, <2>3 DEF RecordsInv, TenantsHaveAdmins
      <3>2. \A y \in rows : y \in Matching(row.key) <=> W(y) \in Matching(x.key)'
        BY <2>1, <1>5 DEF Matching, Rows
      <3>3. Matching(x.key)' \subseteq rows'
        BY DEF Matching, Rows
      <3> QED
        BY <2>1, <3>1, <3>2, <3>3, <1>9
    <2> QED
      BY <2>2, <2>3
  <1> QED
    BY <1>10, <1>11, <1>12, <1>13, <1>14, <1>15, <1>16, <1>17, <1>18 DEF RecordsInv

--------------------------------------------------------------------------------
(* Attachments and files.  A file is stored before its row and removed before it, so *)
(* only who is between the two, or was cut short there, leaves one without the other. *)

FilesInv ==
  /\ pc \in [Requests -> Places] /\ task \in [Requests -> Task]
  /\ attachments \subseteq Requests /\ files \subseteq Requests /\ cutShort \subseteq Requests
  /\ \A file \in attachments : pc[file] = "done"
  /\ \A r \in Requests :
       /\ pc[r] = "stored" => r \in files
       /\ pc[r] \in {"removing", "removed"} => task[r].file \in Requests /\ pc[task[r].file] = "done"
       /\ pc[r] = "removed" => task[r].file \notin files
  /\ FilesMatchAttachments

\* Steps of other requests than uploads and deletions.
LEMMA OthersKeepFilesInv ==
  ASSUME FilesInv, NEW r \in Requests, NEW place \in Places, NEW t \in Task,
         pc[r] \notin {"done", "stored", "removing", "removed"},
         place \notin {"stored", "removing", "removed"},
         pc' = [pc EXCEPT ![r] = place], task' = [task EXCEPT ![r] = t],
         UNCHANGED <<attachments, files, cutShort>>
  PROVE  FilesInv'
  <1>1. /\ pc'[r] = place /\ task'[r] = t
        /\ \A q \in Requests \ {r} : pc'[q] = pc[q] /\ task'[q] = task[q]
    BY DEF FilesInv
  <1>2. pc' \in [Requests -> Places] /\ task' \in [Requests -> Task]
    BY DEF FilesInv
  <1>3. FilesMatchAttachments'
    BY <1>1 DEF FilesInv, FilesMatchAttachments
  <1>4. \A q \in Requests : pc'[q] \in {"removing", "removed"} =>
          task'[q].file \in Requests /\ pc'[task'[q].file] = "done"
    BY <1>1 DEF FilesInv
  <1> QED
    BY <1>1, <1>2, <1>3, <1>4 DEF FilesInv

\* An answer to a request that is between the two changes the same.
LEMMA AnswerIs ==
  ASSUME NEW r \in Requests, NEW place, Answer(r, place),
         pc \in [Requests -> Places], task \in [Requests -> Task]
  PROVE  /\ pc' = [pc EXCEPT ![r] = place] /\ task' = [task EXCEPT ![r] = NoTask]
         /\ pc'[r] = place /\ task'[r] = NoTask
         /\ \A q \in Requests \ {r} : pc'[q] = pc[q] /\ task'[q] = task[q]
         /\ place \in Places => pc' \in [Requests -> Places] /\ task' \in [Requests -> Task]
  BY NoTaskTyped DEF Answer, Goto

LEMMA StoreFileKeepsFilesInv ==
  ASSUME FilesInv, NEW r \in Requests, StoreFile(r)
  PROVE  FilesInv'
  <1>1. /\ pc[r] = "idle" /\ pc'[r] = "stored" /\ files' = files \cup {r}
        /\ \A q \in Requests \ {r} : pc'[q] = pc[q]
        /\ pc' \in [Requests -> Places]
        /\ UNCHANGED <<attachments, task, cutShort>>
    BY DEF StoreFile, Goto, FilesInv, Places
  <1>2. FilesMatchAttachments'
    <2> SUFFICES ASSUME NEW file \in (files' \cup attachments) \ (files' \cap attachments)
                 PROVE  \/ file \in cutShort
                        \/ file \in files' /\ pc'[file] = "stored"
                        \/ file \in attachments /\ \E q \in Requests : pc'[q] = "removed" /\ task[q].file = file
      BY <1>1 DEF FilesMatchAttachments
    <2>1. CASE file = r
      BY <2>1, <1>1
    <2>2. CASE file # r
      BY <2>2, <1>1 DEF FilesInv, FilesMatchAttachments
    <2> QED
      BY <2>1, <2>2
  <1>3. \A q \in Requests : pc'[q] \in {"removing", "removed"} =>
          /\ q # r /\ task[q].file \in Requests /\ task[q].file # r /\ pc'[task[q].file] = "done"
          /\ pc'[q] = "removed" => task[q].file \notin files'
    BY <1>1 DEF FilesInv
  <1> QED
    BY <1>1, <1>2, <1>3 DEF FilesInv

LEMMA CommitUploadKeepsFilesInv ==
  ASSUME FilesInv, NEW r \in Requests, CommitUpload(r)
  PROVE  FilesInv'
  <1>1. /\ pc[r] = "stored" /\ Answer(r, "done") /\ attachments' = attachments \cup {r}
        /\ UNCHANGED <<files, cutShort>>
    BY DEF CommitUpload
  <1>2. /\ pc'[r] = "done"
        /\ \A q \in Requests \ {r} : pc'[q] = pc[q] /\ task'[q] = task[q]
        /\ pc' \in [Requests -> Places] /\ task' \in [Requests -> Task]
    BY <1>1, AnswerIs DEF FilesInv, Places
  <1>3. r \in files
    BY <1>1 DEF FilesInv
  <1>4. FilesMatchAttachments'
    BY <1>1, <1>2, <1>3 DEF FilesInv, FilesMatchAttachments
  <1> QED
    BY <1>1, <1>2, <1>3, <1>4 DEF FilesInv

LEMMA LoadAttachmentKeepsFilesInv ==
  ASSUME FilesInv, NEW r \in Requests, NEW file \in Requests, LoadAttachment(r, file)
  PROVE  FilesInv'
  <1>1. pc[r] = "idle" /\ UNCHANGED <<attachments, files, cutShort>>
    BY DEF LoadAttachment, Stored
  <1>2. CASE Answer(r, "refused")
    <2>1. pc' = [pc EXCEPT ![r] = "refused"] /\ task' = [task EXCEPT ![r] = NoTask]
      BY <1>2 DEF Answer, Goto
    <2> QED
      BY <2>1, <1>1, NoTaskTyped, OthersKeepFilesInv DEF Places
  <1>3. CASE file \in attachments /\ Goto(r, "removing") /\ task' = [task EXCEPT ![r].file = file]
    <2>1. /\ pc'[r] = "removing" /\ task'[r].file = file
          /\ \A q \in Requests \ {r} : pc'[q] = pc[q] /\ task'[q] = task[q]
          /\ pc' \in [Requests -> Places] /\ task' \in [Requests -> Task]
      BY <1>3 DEF FilesInv, Goto, Places, Task
    <2>2. file # r /\ pc[file] = "done"
      BY <1>1, <1>3 DEF FilesInv
    <2>3. FilesMatchAttachments'
      BY <1>1, <2>1 DEF FilesInv, FilesMatchAttachments
    <2>4. \A q \in Requests : pc'[q] \in {"removing", "removed"} =>
            task'[q].file \in Requests /\ pc'[task'[q].file] = "done"
      BY <1>1, <2>1, <2>2 DEF FilesInv
    <2> QED
      BY <1>1, <2>1, <2>3, <2>4 DEF FilesInv
  <1> QED
    BY <1>2, <1>3 DEF LoadAttachment

LEMMA RemoveFileKeepsFilesInv ==
  ASSUME FilesInv, NEW r \in Requests, RemoveFile(r)
  PROVE  FilesInv'
  <1>1. /\ pc[r] = "removing" /\ files' = files \ {task[r].file}
        /\ UNCHANGED <<attachments, cutShort>>
    BY DEF RemoveFile
  <1>2. task[r].file \in Requests /\ pc[task[r].file] = "done"
    BY <1>1 DEF FilesInv
  <1>3. CASE task[r].file \notin files /\ Answer(r, "error")
    <2>1. /\ pc'[r] = "error"
          /\ \A q \in Requests \ {r} : pc'[q] = pc[q] /\ task'[q] = task[q]
          /\ pc' \in [Requests -> Places] /\ task' \in [Requests -> Task]
      BY <1>3, AnswerIs DEF FilesInv, Places
    <2>2. files' = files
      BY <1>1, <1>3 DEF FilesInv
    <2>3. FilesMatchAttachments'
      BY <1>1, <2>1, <2>2 DEF FilesInv, FilesMatchAttachments
    <2>4. \A q \in Requests : pc'[q] \in {"removing", "removed"} =>
            task'[q].file \in Requests /\ pc'[task'[q].file] = "done"
      BY <1>1, <2>1 DEF FilesInv
    <2> QED
      BY <1>1, <2>1, <2>2, <2>3, <2>4 DEF FilesInv
  <1>4. CASE Goto(r, "removed") /\ UNCHANGED task
    <2>1. /\ pc'[r] = "removed" /\ task' = task
          /\ \A q \in Requests \ {r} : pc'[q] = pc[q]
          /\ pc' \in [Requests -> Places]
      BY <1>4 DEF FilesInv, Goto, Places
    <2>2. FilesMatchAttachments'
      <3> SUFFICES ASSUME NEW file \in (files' \cup attachments) \ (files' \cap attachments)
                   PROVE  \/ file \in cutShort
                          \/ file \in files' /\ pc'[file] = "stored"
                          \/ file \in attachments /\ \E q \in Requests : pc'[q] = "removed" /\ task[q].file = file
        BY <1>1, <2>1 DEF FilesMatchAttachments
      <3>1. CASE file = task[r].file
        BY <3>1, <1>1, <2>1
      <3>2. CASE file # task[r].file
        BY <3>2, <1>1, <2>1 DEF FilesInv, FilesMatchAttachments
      <3> QED
        BY <3>1, <3>2
    <2>3. \A q \in Requests : pc'[q] \in {"removing", "removed"} =>
            task'[q].file \in Requests /\ pc'[task'[q].file] = "done"
      BY <1>1, <1>2, <2>1 DEF FilesInv
    <2>4. \A q \in Requests : pc'[q] = "stored" => q \in files'
      BY <1>1, <1>2, <2>1 DEF FilesInv
    <2> QED
      BY <1>1, <2>1, <2>2, <2>3, <2>4 DEF FilesInv
  <1> QED
    BY <1>3, <1>4 DEF RemoveFile

LEMMA CommitDeleteKeepsFilesInv ==
  ASSUME FilesInv, NEW r \in Requests, CommitDelete(r)
  PROVE  FilesInv'
  <1>1. /\ pc[r] = "removed" /\ Answer(r, "done") /\ attachments' = attachments \ {task[r].file}
        /\ UNCHANGED <<files, cutShort>>
    BY DEF CommitDelete
  <1>2. /\ pc'[r] = "done"
        /\ \A q \in Requests \ {r} : pc'[q] = pc[q] /\ task'[q] = task[q]
        /\ pc' \in [Requests -> Places] /\ task' \in [Requests -> Task]
    BY <1>1, AnswerIs DEF FilesInv, Places
  <1>3. task[r].file \notin files
    BY <1>1 DEF FilesInv
  <1>4. FilesMatchAttachments'
    BY <1>1, <1>2, <1>3 DEF FilesInv, FilesMatchAttachments
  <1>5. \A q \in Requests : pc'[q] \in {"removing", "removed"} =>
          task'[q].file \in Requests /\ pc'[task'[q].file] = "done"
    BY <1>2 DEF FilesInv
  <1> QED
    BY <1>1, <1>2, <1>4, <1>5 DEF FilesInv

LEMMA AbortKeepsFilesInv ==
  ASSUME FilesInv, NEW r \in Requests, Abort(r)
  PROVE  FilesInv'
  <1>1. /\ pc[r] \in {"checked", "inserting", "writing", "stored", "removing", "removed"}
        /\ Answer(r, "aborted") /\ UNCHANGED <<attachments, files>>
        /\ cutShort \subseteq cutShort'
        /\ pc[r] = "stored" => cutShort' = cutShort \cup {r}
        /\ pc[r] = "removed" => cutShort' = cutShort \cup {task[r].file}
        /\ pc[r] \notin {"stored", "removed"} => cutShort' = cutShort
    BY DEF Abort
  <1>2. /\ pc'[r] = "aborted"
        /\ \A q \in Requests \ {r} : pc'[q] = pc[q] /\ task'[q] = task[q]
        /\ pc' \in [Requests -> Places] /\ task' \in [Requests -> Task]
    BY <1>1, AnswerIs DEF FilesInv, Places
  <1>3. cutShort' \subseteq Requests
    BY <1>1 DEF FilesInv
  <1>4. FilesMatchAttachments'
    BY <1>1, <1>2 DEF FilesInv, FilesMatchAttachments
  <1>5. \A q \in Requests : pc'[q] \in {"removing", "removed"} =>
          task'[q].file \in Requests /\ pc'[task'[q].file] = "done"
    BY <1>1, <1>2 DEF FilesInv
  <1> QED
    BY <1>1, <1>2, <1>3, <1>4, <1>5 DEF FilesInv

--------------------------------------------------------------------------------
(* All steps. *)

\* A step of a request that has nothing to do with files.
OtherStep(r) ==
  /\ pc[r] \in {"idle", "checked", "inserting", "writing"}
  /\ \E place \in Places \ {"stored", "removing", "removed"}, t \in Task :
       pc' = [pc EXCEPT ![r] = place] /\ task' = [task EXCEPT ![r] = t]
  /\ UNCHANGED <<attachments, files, cutShort>>

LEMMA OtherStepKeepsFilesInv ==
  ASSUME FilesInv, NEW r \in Requests, OtherStep(r)
  PROVE  FilesInv'
  <1>1. PICK place \in Places \ {"stored", "removing", "removed"}, t \in Task :
          pc' = [pc EXCEPT ![r] = place] /\ task' = [task EXCEPT ![r] = t]
    BY DEF OtherStep
  <1>2. pc[r] \notin {"done", "stored", "removing", "removed"} /\ UNCHANGED <<attachments, files, cutShort>>
    BY DEF OtherStep
  <1> QED
    BY <1>1, <1>2, OthersKeepFilesInv

LEMMA AnswersAreOther ==
  ASSUME NEW r \in Requests, NEW place \in Places, place \notin {"stored", "removing", "removed"}, Answer(r, place),
         pc[r] \in {"idle", "checked", "inserting", "writing"}, UNCHANGED <<attachments, files, cutShort>>
  PROVE  OtherStep(r)
  BY NoTaskTyped DEF OtherStep, Answer, Goto

LEMMA ProceedIsOther ==
  ASSUME NEW r \in Requests, NEW place \in Places, place \notin {"stored", "removing", "removed"},
         NEW t \in Task, Proceed(r, place, t),
         pc[r] \in {"idle", "checked", "inserting", "writing"}, UNCHANGED <<attachments, files, cutShort>>
  PROVE  OtherStep(r)
  BY DEF OtherStep, Proceed, Goto

IInv == RecordsInv /\ FilesInv

LEMMA InitIInv == Init => IInv
  <1> SUFFICES ASSUME Init PROVE IInv
    OBVIOUS
  <1>1. FilesInv
    BY NoTaskTyped DEF Init, FilesInv, FilesMatchAttachments, Places
  <1> QED
    BY <1>1, InitRecordsInv DEF IInv

LEMMA UpsertKeepsIInv ==
  ASSUME IInv, NEW r \in Requests, NEW scope \in Scopes, NEW value \in Values, Upsert(r, scope, value)
  PROVE  IInv'
  <1> DEFINE columns == [Silent EXCEPT !.value = value]
  <1>1. scope \in Keys /\ columns \in Columns
    BY KeysApart DEF Silent, Columns
  <1> HIDE DEF columns
  <1>2. pc[r] = "idle" /\ UNCHANGED <<attachments, files, cutShort>>
    BY DEF Upsert, Stored
  <1>3. ASSUME Answer(r, "error")
        PROVE  OtherStep(r)
    BY <1>2, <1>3, AnswersAreOther DEF Places
  <1>4. ASSUME Proceed(r, "inserting", Ask(scope, columns))
        PROVE  OtherStep(r)
    BY <1>1, <1>2, <1>4, AskTyped, ProceedIsOther DEF Places
  <1>5. ASSUME NEW row \in Rows(scope), Proceed(r, "writing", [Ask(scope, columns) EXCEPT !.copy = row])
        PROVE  OtherStep(r)
    <2>1. row \in Row
      BY DEF IInv, RecordsInv, RecordsTyped, Rows
    <2>2. [Ask(scope, columns) EXCEPT !.copy = row] \in Task
      BY <1>1, <2>1, AskTyped
    <2> QED
      BY <1>2, <1>5, <2>2, ProceedIsOther DEF Places
  <1>6. OtherStep(r)
    BY <1>3, <1>4, <1>5 DEF Upsert, columns
  <1> QED
    BY <1>6, OtherStepKeepsFilesInv, UpsertKeepsRecordsInv DEF IInv

LEMMA CreateKeepsIInv ==
  ASSUME IInv, NEW r \in Requests, NEW key \in Codes \cup Emails, NEW value \in Values, Create(r, key, value)
  PROVE  IInv'
  <1> DEFINE columns == [value |-> value, status |-> "ACTIVE"]
  <1>1. key \in Keys /\ columns \in Columns
    BY KeysApart DEF Columns, Status
  <1> HIDE DEF columns
  <1>2. pc[r] = "idle" /\ UNCHANGED <<attachments, files, cutShort>>
    BY DEF Create, Stored
  <1>3. ASSUME Answer(r, "refused")
        PROVE  OtherStep(r)
    BY <1>2, <1>3, AnswersAreOther DEF Places
  <1>4. ASSUME Proceed(r, "inserting", Ask(key, columns))
        PROVE  OtherStep(r)
    BY <1>1, <1>2, <1>4, AskTyped, ProceedIsOther DEF Places
  <1>5. OtherStep(r)
    BY <1>3, <1>4 DEF Create, columns
  <1> QED
    BY <1>5, OtherStepKeepsFilesInv, CreateKeepsRecordsInv DEF IInv

LEMMA LookUpTenantKeepsIInv ==
  ASSUME IInv, NEW r \in Requests, NEW key \in Tenants, NEW admin \in Emails, NEW value \in Values,
         LookUpTenant(r, key, admin, value)
  PROVE  IInv'
  <1> DEFINE columns == [value |-> value, status |-> "ACTIVE"]
             t == [Ask(key, columns) EXCEPT !.admin = admin]
  <1>1. key \in Keys /\ columns \in Columns
    BY KeysApart DEF Columns, Status
  <1> HIDE DEF columns
  <1>2. t \in Task
    BY <1>1, AskTyped
  <1> HIDE DEF t
  <1>3. pc[r] = "idle" /\ UNCHANGED <<attachments, files, cutShort>>
    BY DEF LookUpTenant, Stored
  <1>4. ASSUME \E answer \in {"error", "refused"} : Answer(r, answer)
        PROVE  OtherStep(r)
    BY <1>3, <1>4, AnswersAreOther DEF Places
  <1>5. ASSUME Proceed(r, "checked", t)
        PROVE  OtherStep(r)
    BY <1>2, <1>3, <1>5, ProceedIsOther DEF Places
  <1>6. OtherStep(r)
    BY <1>4, <1>5 DEF LookUpTenant, columns, t
  <1> QED
    BY <1>6, OtherStepKeepsFilesInv, LookUpTenantKeepsRecordsInv DEF IInv

LEMMA LookUpAdminKeepsIInv ==
  ASSUME IInv, NEW r \in Requests, LookUpAdmin(r)
  PROVE  IInv'
  <1>1. pc[r] = "checked" /\ UNCHANGED <<attachments, files, cutShort>>
    BY DEF LookUpAdmin, Stored
  <1>2. ASSUME Answer(r, "refused")
        PROVE  OtherStep(r)
    BY <1>1, <1>2, AnswersAreOther DEF Places
  <1>3. ASSUME Goto(r, "inserting") /\ UNCHANGED task
        PROVE  OtherStep(r)
    <2>1. task[r] \in Task /\ task' = [task EXCEPT ![r] = task[r]]
      BY <1>3 DEF IInv, RecordsInv, RecordsTyped
    <2> QED
      BY <1>1, <1>3, <2>1 DEF OtherStep, Goto, Places
  <1>4. OtherStep(r)
    BY <1>2, <1>3 DEF LookUpAdmin
  <1> QED
    BY <1>4, OtherStepKeepsFilesInv, LookUpAdminKeepsRecordsInv DEF IInv

LEMMA LoadKeepsIInv ==
  ASSUME IInv, NEW r \in Requests, NEW key \in Keys \ Scopes, NEW columns \in Columns, Load(r, key, columns)
  PROVE  IInv'
  <1>1. pc[r] = "idle" /\ UNCHANGED <<attachments, files, cutShort>>
    BY DEF Load, Stored
  <1>2. ASSUME Answer(r, "refused")
        PROVE  OtherStep(r)
    BY <1>1, <1>2, AnswersAreOther DEF Places
  <1>3. ASSUME NEW row \in Rows(key), Proceed(r, "writing", [Ask(key, columns) EXCEPT !.copy = row])
        PROVE  OtherStep(r)
    <2>1. row \in Row
      BY DEF IInv, RecordsInv, RecordsTyped, Rows
    <2>2. [Ask(key, columns) EXCEPT !.copy = row] \in Task
      BY <2>1, AskTyped
    <2> QED
      BY <1>1, <1>3, <2>2, ProceedIsOther DEF Places
  <1>4. OtherStep(r)
    BY <1>2, <1>3 DEF Load
  <1> QED
    BY <1>4, OtherStepKeepsFilesInv, LoadKeepsRecordsInv DEF IInv

\* What the routes ask Load() for.
LEMMA ChangesKeepIInv ==
  ASSUME IInv, NEW r \in Requests,
         \/ UpdateMasterData(r) \/ DeactivateMasterData(r) \/ UpdateUser(r) \/ DeactivateUser(r)
         \/ UpdateTenant(r) \/ SuspendTenant(r)
  PROVE  IInv'
  <1>1. /\ \A key \in Codes \cup Tenants \cup Emails : key \in Keys \ Scopes
        /\ Inactive \in Columns
        /\ \A value \in Values : [Silent EXCEPT !.value = value] \in Columns
    BY KeysApart DEF Inactive, Silent, Columns, Status
  <1>2. CASE UpdateMasterData(r) \/ UpdateUser(r)
    BY <1>1, <1>2, LoadKeepsIInv DEF UpdateMasterData, UpdateUser
  <1>3. CASE DeactivateUser(r) \/ SuspendTenant(r)
    BY <1>1, <1>3, LoadKeepsIInv DEF DeactivateUser, SuspendTenant
  <1>4. CASE UpdateTenant(r)
    BY <1>1, <1>4, LoadKeepsIInv DEF UpdateTenant
  <1>5. CASE DeactivateMasterData(r)
    <2>1. CASE pc[r] = "idle" /\ Answer(r, "refused") /\ UNCHANGED <<Stored, contested>>
      <3>1. OtherStep(r)
        BY <2>1, AnswersAreOther DEF Stored, Places
      <3>2. RecordsInv'
        BY <2>1, AnswerKeepsRecordsInv DEF Stored, Places, IInv
      <3> QED
        BY <3>1, <3>2, OtherStepKeepsFilesInv DEF IInv
    <2>2. CASE \E code \in Codes : Load(r, code, Inactive)
      BY <2>2, <1>1, LoadKeepsIInv
    <2> QED
      BY <1>5, <2>1, <2>2 DEF DeactivateMasterData
  <1> QED
    BY <1>2, <1>3, <1>4, <1>5

LEMMA InsertKeepsIInv ==
  ASSUME IInv, NEW r \in Requests, Insert(r)
  PROVE  IInv'
  <1>1. /\ pc[r] = "inserting" /\ UNCHANGED <<attachments, files, cutShort>>
        /\ \E place \in {"error", "done"} : Answer(r, place)
    BY DEF Insert
  <1>2. OtherStep(r)
    BY <1>1, AnswersAreOther DEF Places
  <1> QED
    BY <1>2, OtherStepKeepsFilesInv, InsertKeepsRecordsInv DEF IInv

LEMMA WriteKeepsIInv ==
  ASSUME IInv, NEW r \in Requests, Write(r)
  PROVE  IInv'
  <1>1. pc[r] = "writing" /\ Answer(r, "done") /\ UNCHANGED <<attachments, files, cutShort>>
    BY DEF Write
  <1>2. OtherStep(r)
    BY <1>1, AnswersAreOther DEF Places
  <1> QED
    BY <1>2, OtherStepKeepsFilesInv, WriteKeepsRecordsInv DEF IInv

\* Uploads and deletions of files leave the rows alone.
LEMMA FileStepsKeepRecordsInv ==
  ASSUME IInv, NEW r \in Requests,
         \/ StoreFile(r) \/ CommitUpload(r) \/ RemoveFile(r) \/ CommitDelete(r)
         \/ \E file \in Requests : LoadAttachment(r, file)
  PROVE  RecordsInv'
  <1>1. RecordsInv /\ pc[r] # "done" /\ UNCHANGED <<rows, audited, contested>>
    BY DEF IInv, StoreFile, CommitUpload, RemoveFile, CommitDelete, LoadAttachment, Stored
  <1>2. CASE \E place \in {"done", "refused", "error"} : Answer(r, place)
    BY <1>1, <1>2, AnswerKeepsRecordsInv DEF Places
  <1>3. ASSUME NEW place \in {"stored", "removing", "removed"}, NEW t \in Task,
               Goto(r, place), task' = [task EXCEPT ![r] = t]
        PROVE  RecordsInv'
    <2>1. Moves(r, place, t)
      BY <1>1, <1>3, AnswersMove DEF Goto, Places
    <2> QED
      BY <1>1, <2>1, MoveKeepsRecordsInv
  <1>4. CASE \E place \in {"stored", "removed"} : Goto(r, place) /\ UNCHANGED task
    <2>1. task[r] \in Task /\ (UNCHANGED task => task' = [task EXCEPT ![r] = task[r]])
      BY <1>1 DEF RecordsInv, RecordsTyped
    <2> QED
      BY <2>1, <1>3, <1>4
  <1>5. ASSUME NEW file \in Requests, Goto(r, "removing"), task' = [task EXCEPT ![r].file = file]
        PROVE  RecordsInv'
    <2>1. [task[r] EXCEPT !.file = file] \in Task /\ task' = [task EXCEPT ![r] = [task[r] EXCEPT !.file = file]]
      BY <1>1, <1>5 DEF RecordsInv, RecordsTyped, Task
    <2> QED
      BY <2>1, <1>3, <1>5
  <1> QED
    BY <1>2, <1>4, <1>5 DEF StoreFile, CommitUpload, RemoveFile, CommitDelete, LoadAttachment

LEMMA FileStepsKeepIInv ==
  ASSUME IInv, NEW r \in Requests,
         \/ StoreFile(r) \/ CommitUpload(r) \/ RemoveFile(r) \/ CommitDelete(r)
         \/ \E file \in Requests : LoadAttachment(r, file)
  PROVE  IInv'
  <1>1. FilesInv'
    BY StoreFileKeepsFilesInv, CommitUploadKeepsFilesInv, RemoveFileKeepsFilesInv, CommitDeleteKeepsFilesInv,
       LoadAttachmentKeepsFilesInv DEF IInv
  <1> QED
    BY <1>1, FileStepsKeepRecordsInv DEF IInv

LEMMA AbortKeepsIInv ==
  ASSUME IInv, NEW r \in Requests, Abort(r)
  PROVE  IInv'
  <1>1. pc[r] # "done" /\ Answer(r, "aborted") /\ UNCHANGED <<rows, audited, contested>>
    BY DEF Abort
  <1>2. RecordsInv'
    BY <1>1, AnswerKeepsRecordsInv DEF IInv, Places
  <1> QED
    BY <1>2, AbortKeepsFilesInv DEF IInv

LEMMA NextKeepsIInv == IInv /\ [Next]_vars => IInv'
  <1> SUFFICES ASSUME IInv, [Next]_vars
               PROVE  IInv'
    OBVIOUS
  <1>1. CASE UNCHANGED vars
    <2>1. RecordsInv'
      BY <1>1 DEF IInv, vars, RecordsInv, RecordsTyped, TaskFits, RowsNamed, RowsOnce, InsertersAlone, ClaimsApart,
         CopiesAreCurrent, TrailAgrees, TenantsHaveAdmins, Matching, Rows
    <2>2. FilesInv'
      BY <1>1 DEF IInv, vars, FilesInv, FilesMatchAttachments
    <2> QED
      BY <2>1, <2>2 DEF IInv
  <1>2. ASSUME NEW r \in Requests,
               \/ \E scope \in Scopes, value \in Values : Upsert(r, scope, value)
               \/ CreateMasterData(r) \/ CreateUser(r)
               \/ \E key \in Tenants, admin \in Emails, value \in Values : LookUpTenant(r, key, admin, value)
               \/ LookUpAdmin(r)
        PROVE  IInv'
    BY <1>2, UpsertKeepsIInv, CreateKeepsIInv, LookUpTenantKeepsIInv, LookUpAdminKeepsIInv
       DEF CreateMasterData, CreateUser
  <1>3. ASSUME NEW r \in Requests, Insert(r) \/ Write(r) \/ Abort(r)
        PROVE  IInv'
    BY <1>3, InsertKeepsIInv, WriteKeepsIInv, AbortKeepsIInv
  <1> QED
    BY <1>1, <1>2, <1>3, ChangesKeepIInv, FileStepsKeepIInv DEF Next

--------------------------------------------------------------------------------
(* resolve(). *)

LEMMA HierarchyRanks ==
  /\ DOMAIN Hierarchy = 1..5
  /\ \A i, j \in 1..5 : i < j => Specificity(Hierarchy[j]) < Specificity(Hierarchy[i])
  /\ \A i \in 1..5 : DOMAIN Hierarchy[i] = {"tenant", "unit", "module"} /\ Specificity(Hierarchy[i]) \in Nat
  <1>1. DOMAIN Hierarchy = 1..5
    BY DEF Hierarchy
  <1>2. /\ Specificity(Hierarchy[1]) = 7 /\ Specificity(Hierarchy[2]) = 5 /\ Specificity(Hierarchy[3]) = 3
        /\ Specificity(Hierarchy[4]) = 1 /\ Specificity(Hierarchy[5]) = 0
    BY DEF Hierarchy, Specificity
  <1>3. \A i \in 1..5 : i = 1 \/ i = 2 \/ i = 3 \/ i = 4 \/ i = 5
    OBVIOUS
  <1>4. \A i, j \in 1..5 : i < j => Specificity(Hierarchy[j]) < Specificity(Hierarchy[i])
    BY <1>2, <1>3
  <1>5. \A i \in 1..5 : Specificity(Hierarchy[i]) \in Nat
    BY <1>2, <1>3
  <1>6. \A i \in 1..5 : DOMAIN Hierarchy[i] = {"tenant", "unit", "module"}
    <2>1. /\ DOMAIN Hierarchy[1] = {"tenant", "unit", "module"}
          /\ DOMAIN Hierarchy[2] = {"tenant", "unit", "module"}
          /\ DOMAIN Hierarchy[3] = {"tenant", "unit", "module"}
          /\ DOMAIN Hierarchy[4] = {"tenant", "unit", "module"}
          /\ DOMAIN Hierarchy[5] = {"tenant", "unit", "module"}
      BY DEF Hierarchy
    <2> QED
      BY <2>1, <1>3
  <1> QED
    BY <1>1, <1>4, <1>5, <1>6

LEMMA FirstOfFive ==
  ASSUME NEW S, S \subseteq 1..5, S # {}
  PROVE  Min(S) \in S /\ \A i \in S : Min(S) <= i
  <1>1. \E x \in S : \A y \in S : x <= y
    <2>0. \A i \in S : i = 1 \/ i = 2 \/ i = 3 \/ i = 4 \/ i = 5
      OBVIOUS
    <2>1. CASE 1 \in S
      BY <2>1
    <2>2. CASE 1 \notin S /\ 2 \in S
      BY <2>2
    <2>3. CASE 1 \notin S /\ 2 \notin S /\ 3 \in S
      BY <2>3
    <2>4. CASE 1 \notin S /\ 2 \notin S /\ 3 \notin S /\ 4 \in S
      BY <2>4
    <2>5. CASE 1 \notin S /\ 2 \notin S /\ 3 \notin S /\ 4 \notin S
      <3>1. S = {5}
        BY <2>0, <2>5
      <3> QED
        BY <3>1
    <2> QED
      BY <2>1, <2>2, <2>3, <2>4, <2>5
  <1> QED
    BY <1>1 DEF Min

\* The rows that apply are those of the scopes in the hierarchy that were set, and the most
\* specific of them those of the first.
LEMMA InvResolves == RecordsInv => ResolvedAsLastSet
  <1> SUFFICES ASSUME RecordsInv, NEW scope \in Scopes
               PROVE  LET set == {i \in DOMAIN Hierarchy :
                                    /\ Hierarchy[i] \in Scopes /\ audited[Hierarchy[i]].value # Null
                                    /\ \A column \in DOMAIN scope : Hierarchy[i][column] => scope[column]}
                      IN  IF set = {} THEN Resolve(scope) = {}
                          ELSE LET first == Hierarchy[Min(set)]
                               IN  <<first, "value">> \notin contested => Resolve(scope) = {audited[first].value}
    BY DEF ResolvedAsLastSet
  <1> DEFINE set == {i \in DOMAIN Hierarchy :
                       /\ Hierarchy[i] \in Scopes /\ audited[Hierarchy[i]].value # Null
                       /\ \A column \in DOMAIN scope : Hierarchy[i][column] => scope[column]}
             rank(i) == Specificity(Hierarchy[i])
  <1>1. DOMAIN scope = {"tenant", "unit", "module"}
    BY RecordsAssumption, HierarchyRanks
  <1>2. \A key \in Scopes : \E i \in 1..5 : key = Hierarchy[i]
    BY RecordsAssumption, HierarchyRanks
  <1>3. set \subseteq 1..5
    BY HierarchyRanks
  <1>4. \A key \in Scopes : key \in Keys /\ TrailOf(key, audited[key], rows, contested)
    BY KeysApart DEF RecordsInv, TrailAgrees
  <1>5. \A row \in Applicable(scope) : row \in rows /\ \E i \in set : row.key = Hierarchy[i]
    <2> TAKE row \in Applicable(scope)
    <2>1. /\ row \in rows /\ row.key \in Scopes
          /\ \A column \in {"tenant", "unit", "module"} : row.key[column] => scope[column]
      BY DEF Applicable
    <2>2. PICK i \in 1..5 : row.key = Hierarchy[i]
      BY <2>1, <1>2
    <2>3. audited[row.key].value # Null
      BY <2>1, <1>4 DEF TrailOf
    <2>4. i \in set
      BY <2>1, <2>2, <2>3, <1>1, HierarchyRanks
    <2> QED
      BY <2>1, <2>2, <2>4
  <1>6. ASSUME NEW i \in set
        PROVE  \E row \in Applicable(scope) : row.key = Hierarchy[i]
    <2>1. Hierarchy[i] \in Scopes /\ audited[Hierarchy[i]].value # Null
      OBVIOUS
    <2>2. audited[Hierarchy[i]] # Silent
      BY <2>1 DEF Silent
    <2>3. PICK row \in rows : row.key = Hierarchy[i]
      BY <2>1, <2>2, <1>4 DEF TrailOf
    <2>4. row \in Applicable(scope)
      BY <2>1, <2>3, <1>1 DEF Applicable
    <2> QED
      BY <2>3, <2>4
  <1>7. ASSUME set # {}, <<Hierarchy[Min(set)], "value">> \notin contested
        PROVE  Resolve(scope) = {audited[Hierarchy[Min(set)]].value}
    <2> DEFINE m == Min(set)
               best(row) == \A other \in Applicable(scope) : Specificity(other.key) <= Specificity(row.key)
    <2>1. m \in set /\ \A i \in set : m <= i
      BY <1>3, <1>7, FirstOfFive
    <2>2. Hierarchy[m] \in Scopes /\ audited[Hierarchy[m]].value # Null
      BY <2>1
    <2>3. \A row \in rows : row.key = Hierarchy[m] => row.value = audited[Hierarchy[m]].value
      <3>1. \A row \in rows : row.key = Hierarchy[m] => row["value"] = audited[Hierarchy[m]]["value"]
        BY <2>2, <1>4, <1>7 DEF TrailOf
      <3> QED
        BY <3>1
    <2>4. \A i \in set : i # m => rank(i) < rank(m) /\ rank(i) \in Nat /\ rank(m) \in Nat
      <3> TAKE i \in set
      <3>1. i \in 1..5 /\ m \in 1..5 /\ m <= i
        BY <2>1, <1>3
      <3> QED
        BY <3>1, HierarchyRanks
    <2>5. rank(m) \in Nat
      BY <2>1, <1>3, HierarchyRanks
    <2> HIDE DEF m, set, rank
    <2>6. PICK row0 \in Applicable(scope) : row0.key = Hierarchy[m]
      BY <2>1, <1>6
    <2>7. best(row0)
      BY <2>4, <2>5, <2>6, <1>5 DEF rank
    <2>8. ASSUME NEW row \in Applicable(scope), best(row) PROVE row.key = Hierarchy[m]
      <3>1. PICK i \in set : row.key = Hierarchy[i]
        BY <1>5
      <3>2. rank(m) <= rank(i)
        BY <2>6, <2>8, <3>1 DEF rank
      <3> QED
        BY <2>4, <2>5, <3>1, <3>2
    <2>9. {b.value : b \in {row \in Applicable(scope) : best(row)}} = {audited[Hierarchy[m]].value}
      BY <2>3, <2>6, <2>7, <2>8, <1>5
    <2> QED
      BY <2>9 DEF Resolve, m
  <1>8. set = {} => Resolve(scope) = {}
    BY <1>5 DEF Resolve
  <1> HIDE DEF set
  <1> QED
    BY <1>7, <1>8 DEF set

--------------------------------------------------------------------------------
(* Theorems about the records. *)

\* Whatever requests ask for and however they overlap, the state stays well typed.
THEOREM RecordsTypeCorrect == Spec => []TypeOK
  <1>1. IInv => TypeOK
    BY DEF IInv, RecordsInv, RecordsTyped, FilesInv, TypeOK, Places
  <1> QED
    BY <1>1, InitIInv, NextKeepsIInv, PTL DEF Spec

\* A row says of each of its columns what the last audit event about it says, but for the columns
\* two requests wrote at one time: an UPDATE writes what differs from a copy that is current.
THEOREM RowsAreAudited == Spec => []RowsMatchAudit
  <1>1. ASSUME IInv PROVE RowsMatchAudit
    <2> SUFFICES ASSUME NEW key \in Keys
                 PROVE  /\ Rows(key) = {} <=> audited[key] = Silent
                        /\ \A column \in {"value", "status"} :
                             <<key, column>> \notin contested /\ audited[key][column] # Null =>
                               \E row \in rows : Rows(key) = {row} /\ row[column] = audited[key][column]
      BY DEF RowsMatchAudit
    <2>1. TrailOf(key, audited[key], rows, contested)
      BY <1>1 DEF IInv, RecordsInv, TrailAgrees
    <2>2. Rows(key) = {} <=> audited[key] = Silent
      BY <2>1 DEF TrailOf, Rows
    <2>3. ASSUME NEW column \in {"value", "status"}, <<key, column>> \notin contested, audited[key][column] # Null
          PROVE  \E row \in rows : Rows(key) = {row} /\ row[column] = audited[key][column]
      <3>1. audited[key] # Silent
        BY <2>3 DEF Silent
      <3>2. PICK row \in rows : row.key = key
        BY <2>1, <3>1 DEF TrailOf
      <3>3. Unique(key) \/ <<key, "value">> \notin contested
        <4>1. CASE column = "value"
          BY <4>1, <2>3
        <4>2. CASE column = "status"
          BY <4>2, <2>1, <2>3, UniqueUnlessSetting DEF TrailOf
        <4> QED
          BY <4>1, <4>2
      <3>4. Rows(key) = {row}
        BY <3>2, <3>3, <1>1 DEF IInv, RecordsInv, RowsOnce, Rows
      <3>5. row[column] = audited[key][column]
        BY <2>1, <2>3, <3>2 DEF TrailOf
      <3> QED
        BY <3>4, <3>5
    <2> QED
      BY <2>2, <2>3
  <1> QED
    BY <1>1, InitIInv, NextKeepsIInv, PTL DEF Spec

\* resolve() finds the value set last at the most specific scope that was set, by the order of the
\* docstring of settings_service.
THEOREM SettingsResolve == Spec => []ResolvedAsLastSet
  <1>1. IInv => ResolvedAsLastSet
    BY InvResolves DEF IInv
  <1> QED
    BY <1>1, InitIInv, NextKeepsIInv, PTL DEF Spec

\* create_tenant() leaves no tenant without its administrator, and lookups and unique keys together
\* leave no code, slug or email twice.
THEOREM TenantsComeWithAdmins == Spec => []TenantsHaveAdmins
  <1>1. IInv => TenantsHaveAdmins
    BY DEF IInv, RecordsInv
  <1> QED
    BY <1>1, InitIInv, NextKeepsIInv, PTL DEF Spec

\* However uploads and deletions overlap or are cut short, an attachment lacks its file, or a file
\* its attachment, only while or after a request stood between the two.
THEOREM FilesAreAttached == Spec => []FilesMatchAttachments
  <1>1. IInv => FilesMatchAttachments
    BY DEF IInv, FilesInv
  <1> QED
    BY <1>1, InitIInv, NextKeepsIInv, PTL DEF Spec
================================================================================
