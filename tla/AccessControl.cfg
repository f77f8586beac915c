\* Three requests for one role, two permissions (and one code that is none), two units of
\* any tree, one of them the unit the authorized request needs; the walk may reach the
\* root of every tree of two units.
SPECIFICATION FairSpec
CONSTANTS
  r1 = r1
  r2 = r2
  r3 = r3
  clerk = clerk
  plant = plant
  yard = yard
  Null = Null
  Requests = {r1, r2, r3}
  Roles = {clerk}
  Permissions <- MCPermissions
  Payloads <- MCPayloads
  Units = {plant, yard}
  Needs <- MCNeeds
  MaxDepth = 2
INVARIANTS LastReplacementInForce DeletedRolesGrantNothing
PROPERTIES AllowedMeansCovered RefusedMeansUncovered EveryRequestAnswered
\* The bounded number of requests runs out.
CHECK_DEADLOCK FALSE
