SPECIFICATION Spec
CONSTANTS
  f1 = f1
  f2 = f2
  s1 = s1
  s2 = s2
  m1 = m1
  m2 = m2
  m3 = m3
  r1 = r1
  r2 = r2
  Font = {f1, f2}
  Slug = {s1, s2}
  SlugOf <- OneName
  Family = {m1, m2, m3}
  NoFamily = NoFamily
  Request = {r1, r2}
  MaxCount = 2
  MaxGestures = 2
SYMMETRY Ids
INVARIANTS
  TypeOK
  MembersHaveFamilies
  OneFamilyPerSlug
  CountsAreExact
PROPERTIES
  HandmadeFamiliesStay
CHECK_DEADLOCK FALSE
