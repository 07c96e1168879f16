SPECIFICATION FairSyncSpec
CONSTANTS
  d1 = d1
  f1 = f1
  f2 = f2
  listener = listener
  launchd = launchd
  Device = {d1}
  Font = {f1, f2}
  Valid = {f1, f2}
  FaceOf <- OneFace
  MinFonts = 1
  MaxFonts = 1
  RatioNum = 1
  RatioDen = 2
  MaxPerPass = 1
  HarvestEnabled = TRUE
  Run = {listener, launchd}
  DeviceOf <- OneHost
  Installable = {f1}
  Switch <- Varying
  MaxGestures = 3
  MaxFaults = 1
INVARIANTS
  SyncTypeOK
  DeletionsHold
PROPERTIES
  OnlyRemovalsAreDetected
  DevicesSettle
