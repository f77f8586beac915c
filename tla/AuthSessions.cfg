\* Four overlapping requests to any endpoint, an account that locks at two failures.
SPECIFICATION Spec
CONSTANTS
  r1 = r1
  r2 = r2
  r3 = r3
  r4 = r4
  p1 = p1
  p2 = p2
  Requests = {r1, r2, r3, r4}
  Passwords = {p1, p2}
  Ops = {"login", "refresh", "logout", "forgot", "reset", "setStatus"}
  MaxFailed = 2
SYMMETRY Interchangeable
INVARIANTS FailuresNotOvercounted ReplacedIsRevoked
INVARIANTS TokensUsedOnce LockedAfterLimit
PROPERTY NoRefreshAfterLogout
\* The bounded number of requests runs out.
CHECK_DEADLOCK FALSE
