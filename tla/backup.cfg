SPECIFICATION FairSpec
CONSTANTS
  f = f
  g = g
  Blob = {f, g}
  Nothing = Nothing
  Keep = 2
  PerSecond = 2
  MaxSecond = 2
  MaxGestures = 3
  MaxFaults = 2
INVARIANTS
  TypeOK
  LastBackupIsKept
PROPERTIES
  FontsAreMirrored
CHECK_DEADLOCK FALSE
