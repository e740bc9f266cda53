CONSTANTS
  p1 = p1  p2 = p2  s1 = s1  m0 = m0  m1 = m1  m2 = m2
  Readers = {p1, p2}
  Writers = {s1}
  Creators = {p1}
  OsxAtomics = FALSE
  Models = {m1, m2}
  FirstModel = m0
  None = None
SPECIFICATION Spec
INVARIANT ModelOutlivesUse
