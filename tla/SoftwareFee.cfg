SPECIFICATION FairSpec
CONSTANTS
  Workers    = {w1, w2}
  Shops      = {s1}
  Deployed   = 2
  LastMonth  = 4
  Fees       = {1, 2}
  MaxBalance = 2
INVARIANTS
  ChargedOnce
  ChargedForFinishedMonths
PROPERTIES
  SettledIsFinal
  DebtIsCollected
CHECK_DEADLOCK FALSE
