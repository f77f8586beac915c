\* Three overlapping requests on two entries.
SPECIFICATION Spec
CONSTANTS
  e1 = e1
  e2 = e2
  r1 = r1
  r2 = r2
  r3 = r3
  NoEntry = NoEntry
  Entries = {e1, e2}
  Requests = {r1, r2, r3}
SYMMETRY Interchangeable
 
PROPERTY LifeUnlessContested
\* The bounded number of requests runs out.
CHECK_DEADLOCK FALSE
