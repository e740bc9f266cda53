CONSTANTS
  Texts = {"plain", "marked", "huge", "fragments"}
  TooLong = {"huge"}
  NPaths = 2
  Size <- MCSize
  Partial <- MCPartial
  HasFeature = {"marked"}
  Counts = {2, 513}
  Settable = {"NBEST", "PARTIAL", "ALLOCATE_SENTENCE"}
  MaxLayers = 2
  DefaultSize = 14
  MaxChunks = 3
  Results <- MCResults
SPECIFICATION MemorySpec
INVARIANTS ConstraintsFit ParsedIsSentence StringsApart
