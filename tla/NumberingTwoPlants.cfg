\* Two plants of one tenant.
SPECIFICATION Spec
CONSTANTS
  r1 = r1
  r2 = r2
  r3 = r3
  y1 = y1
  y2 = y2
  plant = plant
  plantA = plantA
  plantB = plantB
  Null = Null
  Requests = {r1, r2}
  Units = {plantA, plantB}
  Years = {y1}
INVARIANT NumbersNeverCollide
