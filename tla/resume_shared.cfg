SPECIFICATION Spec
CONSTANTS
  Suites = {s1, s2}
  Identities = {i1, i2}
  NoIdentity = NoIdentity
  Marks = {m1, m2}
  MaxEvents = 1
  Absent = Absent
  Torn = Torn
  Nothing = Nothing
  MaxStarts = 3
  MaxDamage = 0
INVARIANTS
  ReusesPassedTrace
SYMMETRY Symmetry
CHECK_DEADLOCK FALSE
