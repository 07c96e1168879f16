SPECIFICATION FairSpec
CONSTANTS
  d1 = d1
  d2 = d2
  c1 = c1
  c2 = c2
  c3 = c3
  Device = {d1}
  Conn = {c1, c2, c3}
  NoConn = NoConn
  MaxChanges = 2
  MaxFaults = 2
INVARIANTS
  TypeOK
  StalenessIsCovered
PROPERTIES
  ChangesReachDevices
CHECK_DEADLOCK FALSE
