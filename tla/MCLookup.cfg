SPECIFICATION Spec
CONSTANTS
  MaxInt = 65535
  Categories <- MCCategories
  Nul <- MCNul
  SpaceChar <- Space
  UnkTokens <- MCUnkTokens
  Feature <- MCFeature
  UnkFeature <- MCNoFeature
  NoFeature <- MCNoFeature
  MaxGroupingSize = 1
  Lexicons <- MCLexicons
  CharDefs <- MCCharDefs
  Sentences <- MCSentences
  Features <- MCFeatures
  PartialTexts <- MCPartialTexts
INVARIANTS
  WordsFound
  KindsAsDefined
  DeliversLexicon
  ConstraintsKept
  DiesOnlyBeforeToken
CHECK_DEADLOCK FALSE
