SPECIFICATION FairSpec
CONSTANTS
  f1 = f1
  f2 = f2
  u1 = u1
  d1 = d1
  p1 = p1
  e1 = e1
  Font = {f1, f2}
  Uploaders = {u1}
  Pushers = {}
  Purgers = {p1}
  Editors = {e1}
  MaxFaults = 2
INVARIANTS TypeOK OnlyInterruptionsLoseFiles
PROPERTIES TrashEmpties
CHECK_DEADLOCK FALSE
