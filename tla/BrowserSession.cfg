\* Two tabs over one localStorage, everything that can happen to them; three token
\* pairs and two calls let a refresh, its retry and a sign-in overlap.
SPECIFICATION FairSpec
CONSTANTS
  t1 = t1
  t2 = t2
  u1 = u1
  c1 = c1
  c2 = c2
  Null = Null
  Tabs = {t1, t2}
  Users = {u1}
  Calls = {c1, c2}
  MaxPairs = 3
  Acts = {"login", "logout", "reload", "error"}
INVARIANTS StorageHoldsLiveToken
PROPERTIES CallsSettle
\* The bounded number of calls and pairs runs out.
CHECK_DEADLOCK FALSE
