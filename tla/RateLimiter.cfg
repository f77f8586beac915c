\* Two clients, two requests in three seconds, for eight seconds.
SPECIFICATION LimiterSpec
CONSTANTS
  Clients = {c1, c2}
  Limit = 2
  Window = 3
  MaxTime = 8
INVARIANTS NeverOverLimit RefusedWhenFull
\* Time ends with the instance.
CHECK_DEADLOCK FALSE
