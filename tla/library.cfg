SPECIFICATION Spec
CONSTANTS
  d1 = d1
  d2 = d2
  d3 = d3
  f1 = f1
  f2 = f2
  f3 = f3
  Device = {d1, d2, d3}
  Font = {f1, f2, f3}
  Valid = {f1, f2}
  FaceOf <- OneFace
  MinFonts = 0
  MaxFonts = 1
  RatioNum = 1
  RatioDen = 2
  MaxPerPass = 1
  HarvestEnabled = TRUE
SYMMETRY Symmetry
CONSTRAINT FontsOrDevices
INVARIANTS
  LifecycleConsistent
  FilesKept
PROPERTIES
  ImplementsLifecycle
CHECK_DEADLOCK FALSE
