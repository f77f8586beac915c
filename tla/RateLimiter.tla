------------------------------- MODULE RateLimiter -----------------------------
(***************************************************************************)
(* The rate limiter of one backend process: a log of the times at which    *)
(* each client was served, of which those older than the window are        *)
(* dropped when the client comes again.  dispatch() does not await between *)
(* reading the clock and appending to the log, so it is one step of the    *)
(* event loop.  /health and /ready go past it.                             *)
(***************************************************************************)
EXTENDS Naturals, Sequences

CONSTANTS
  Clients,   \* what request.client.host may be; "unknown" is one of them
  Limit,     \* self.limit
  Window,    \* _WINDOW_SECONDS
  MaxTime    \* bound: the last second of an instance

ASSUME NumbersAssumption == Limit \in Nat /\ Window \in Nat /\ MaxTime \in Nat

VARIABLES
  now,        \* time.monotonic(), in seconds
  hits,       \* hits[c]: the client's log
  served,     \* history: served[c]: when c was served, since the process started
  refusedAt   \* history: when c was refused last, 0 if it was not

limiterVars == <<now, hits, served, refusedAt>>

LimiterInit ==
  /\ now = 1
  /\ hits = [c \in Clients |-> <<>>]
  /\ served = [c \in Clients |-> <<>>]
  /\ refusedAt = [c \in Clients |-> 0]

--------------------------------------------------------------------------------
\* The log without its first k entries.
After(k, log) == SubSeq(log, k + 1, Len(log))

\* Mutation: one window ends where the next begins, and the log starts anew.
DropsByMinute(k, log) ==
  /\ k \in {0, Len(log)}
  /\ k = Len(log) <=> \A i \in 1..Len(log) : log[i] \div Window < now \div Window

\* The loop that pops hits older than the window off the left of the log pops k of them.
Drops(k, log) ==
  /\ k \in 0..Len(log)
  /\ \A i \in 1..k : now > log[i] + Window
  /\ k < Len(log) => now <= log[k + 1] + Window

Serve(c) ==
  \E k \in 0..Len(hits[c]) :
    /\ Drops(k, hits[c])
    /\ Len(After(k, hits[c])) < Limit
    /\ hits' = [hits EXCEPT ![c] = Append(After(k, hits[c]), now)]
    /\ served' = [served EXCEPT ![c] = Append(served[c], now)]
    /\ UNCHANGED <<now, refusedAt>>

\* Mutation: a refused request is logged as well.
RefuseLogs(c) ==
  \E k \in 0..Len(hits[c]) :
    /\ Drops(k, hits[c])
    /\ Len(After(k, hits[c])) >= Limit
    /\ hits' = [hits EXCEPT ![c] = Append(After(k + 1, hits[c]), now)]
    /\ refusedAt' = [refusedAt EXCEPT ![c] = now]
    /\ UNCHANGED <<now, served>>

\* 429, and the refused request leaves no trace in the log.
Refuse(c) ==
  \E k \in 0..Len(hits[c]) :
    /\ Drops(k, hits[c])
    /\ Len(After(k, hits[c])) >= Limit
    /\ hits' = [hits EXCEPT ![c] = After(k, hits[c])]
    /\ refusedAt' = [refusedAt EXCEPT ![c] = now]
    /\ UNCHANGED <<now, served>>

Tick ==
  /\ now < MaxTime
  /\ now' = now + 1
  /\ UNCHANGED <<hits, served, refusedAt>>

\* The process starts anew and has forgotten everything; so has its history.
Restart ==
  /\ hits' = [c \in Clients |-> <<>>]
  /\ served' = [c \in Clients |-> <<>>]
  /\ refusedAt' = [c \in Clients |-> 0]
  /\ UNCHANGED now

LimiterNext == Tick \/ Restart \/ \E c \in Clients : Serve(c) \/ Refuse(c)

LimiterSpec == LimiterInit /\ [][LimiterNext]_limiterVars

--------------------------------------------------------------------------------
LimiterTypeOK ==
  /\ now \in Nat
  /\ hits \in [Clients -> Seq(Nat)]
  /\ served \in [Clients -> Seq(Nat)]
  /\ refusedAt \in [Clients -> Nat]

\* No span of Window seconds, wherever it begins and both ends counted, has more than Limit served
\* requests of a client: of any Limit + 1 the last comes more than Window after the first.  A
\* limiter with the fixed windows rate_limit.py:1 names would serve twice as many across a border.
NeverOverLimit ==
  \A c \in Clients : \A i, j \in 1..Len(served[c]) :
    i + Limit <= j => served[c][j] > served[c][i] + Window

\* Who is refused was served Limit times within the window before: refusals do not prolong
\* themselves, and a client that pauses for longer than the window is served again.
RefusedWhenFull ==
  \A c \in Clients :
    refusedAt[c] # 0 =>
      \E n \in Limit..Len(served[c]) :
        \A i \in (n - Limit + 1)..n : served[c][i] <= refusedAt[c] /\ refusedAt[c] <= served[c][i] + Window
================================================================================
