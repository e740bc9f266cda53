CONSTANTS
  Words = {"a", "c", "d", "e", "f", "o"}
  BOS = "BOS"
  EOS = "EOS"
  Size = 3
  Begin <- MCBegin
  End <- MCEnd
  Costs <- MCCosts
  MaxCost = 3
  Weight <- MCWeight
SPECIFICATION FairSpec
INVARIANTS BestIsCheapest RefusedOnOverflow MarginalsAreShares AllMorphsListed FoundInOrder EnumeratesEveryCut LinksFollowFound
PROPERTIES NextReturns
CHECK_DEADLOCK FALSE
