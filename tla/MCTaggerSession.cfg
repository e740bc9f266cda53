CONSTANTS
  Texts = {"plain", "marked", "huge", "fragments"}
  TooLong = {"huge"}
  NPaths = 2
  Size <- MCSize
  Partial <- MCPartial
  HasFeature = {"marked"}
  Counts = {1, 513}
  Settable = {"PARTIAL", "ALLOCATE_SENTENCE"}
SPECIFICATION Spec
INVARIANTS SentenceOutlivesCall ResultsOfLastParse ParsesArgument
