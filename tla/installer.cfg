SPECIFICATION FairSpec
CONSTANTS
  n = n
  m = m
  nA = nA
  nB = nB
  a = a
  b = b
  own = own
  Name = {n, m, nA, nB}
  UserName = {n, m}
  Content = {a, b, own}
  NoFile = NoFile
  Torn = Torn
  Disambiguated <- OwnNames
  Library <- SameName
  Doomed <- OneName
  MaxEdits = 4
  MaxFaults = 2
INVARIANTS
  TypeOK
PROPERTIES
  HomonymsAreSpared
  DoomedFontsGo
  LibraryFontsCome
CHECK_DEADLOCK FALSE
