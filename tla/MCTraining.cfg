CONSTANTS
  Templates <- MCTemplates
  Sentences <- MCSentences
  OldModels <- MCOldModels
  MSize = 2
  MaxFev = 2
  MaxThreads = 2
  MaxFreq = 2
  CorpusSize = 3
  MaxEvals = 4
SPECIFICATION Spec
INVARIANTS FeaturesNumbered GradientComplete ScoresExact EvaluationExact OldWeightsInPlace RecentPairs
CHECK_DEADLOCK FALSE
