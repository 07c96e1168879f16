SPECIFICATION Spec
CONSTANTS
  a = a
  b = b
  r1 = r1
  r2 = r2
  Path <- Paths
  Folder <- Where
  Ignored <- Dotted
  Content = {a, b}
  None = None
  Torn = Torn
  Garbage = Garbage
  Run = {r1, r2}
  MaxChanges = 2
SYMMETRY Symmetric
INVARIANTS
  TypeOK
  HashesAreTrue
  
CHECK_DEADLOCK FALSE
