\* Three overlapping requests on one ticket.
SPECIFICATION Spec
CONSTANTS
  t1 = t1
  r1 = r1
  r2 = r2
  r3 = r3
  Null = Null
  Tickets = {t1}
  Requests = {r1, r2, r3}
  Weights <- SmallWeights
INVARIANTS WeighmentsAgree NetWeightIsAudited StatusIsAudited
PROPERTY LifeUnlessContested
\* The bounded number of requests runs out.
CHECK_DEADLOCK FALSE
