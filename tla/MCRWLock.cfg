CONSTANTS
  r1 = r1  r2 = r2  w1 = w1  w2 = w2
  Readers = {r1, r2, w1}
  Writers = {w1, w2}
  OsxAtomics = FALSE
SPECIFICATION HistorySpec
INVARIANTS LockWord WriterPreference
PROPERTIES ImplementsAbstract WritersProgress ReadersProgress
