SPECIFICATION FairSpec
CONSTANTS
  n = n
  v = v
  s = s
  g = g
  o = o
  bad = bad
  nl = nl
  eos = eos
  InCapacity = 1
  OutCapacity = 4
  IBufSize = 3
  LineBufSize = 3
  NL = nl
  EOS = eos
  Unparsable = bad
  Answer <- MCAnswer
  Rows <- MCRows
  Options = {TRUE, FALSE}
  Negative <- MCNegative
INVARIANTS
  NothingLost
  HangsOnlyWhenFull
  CountsAreCompounds
PROPERTY
  PageFinishes
CHECK_DEADLOCK FALSE
