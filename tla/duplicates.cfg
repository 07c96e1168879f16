SPECIFICATION Spec
CONSTANTS
  k = k
  l = l
  Font = {1, 2, 3}
  Face = {k, l}
  NoFace = NoFace
  Nothing = Nothing
  MaxChanges = 2
SYMMETRY Symmetric
INVARIANTS
  TypeOK
PROPERTIES
  ResolutionLosesNothing
  OnlyTouchedFacesAreLost
  ReviewIsWhatHappens
  ResolutionIsFinal
CHECK_DEADLOCK FALSE
