SPECIFICATION Spec
CONSTANTS
  Suites = {s1}
  Identities = {i1, i2}
  NoIdentity = NoIdentity
  Marks = {m1, m2}
  MaxEvents = 1
  Absent = Absent
  Torn = Torn
  Nothing = Nothing
  MaxStarts = 3
  MaxDamage = 1
INVARIANTS
  ReusesPassedTrace
  IndInv
PROPERTIES
  ImplementsContract
SYMMETRY Symmetry
CHECK_DEADLOCK FALSE
