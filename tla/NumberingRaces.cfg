\* Three concurrent requests, two fiscal years, bodies with and without a unit.
SPECIFICATION Spec
CONSTANTS
  r1 = r1
  r2 = r2
  r3 = r3
  y1 = y1
  y2 = y2
  plant = plant
  plantA = plantA
  plantB = plantB
  Null = Null
  Requests = {r1, r2, r3}
  Units = {plant, Null}
  Years = {y1, y2}
SYMMETRY Interchangeable
INVARIANTS NumbersDistinct CountersAccountForNumbers SomeoneIsServed
PROPERTIES DispensesNumbers
