CONSTANTS
  Words = {"a", "c", "d", "o", "g"}
  BOS = "BOS"
  EOS = "EOS"
  Size = 3
  Begin <- MCBegin
  End <- MCEnd
  Costs <- MCCosts
  MaxCost = 3
  Weight <- MCWeight
SPECIFICATION Spec
INVARIANTS ProbAtMostOne
CHECK_DEADLOCK FALSE
