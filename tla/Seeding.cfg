\* Two runs of the seed script over databases of several ages.
SPECIFICATION SeedSpec
CONSTANTS
  Runs = {r1, r2}
  Absences <- MCAbsences
INVARIANTS OneRowPerKey WholeOrNothing SafeToRepeat
PROPERTIES RunsEnd
\* The runs end, and nobody has to start one.
CHECK_DEADLOCK FALSE
