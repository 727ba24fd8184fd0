CONSTANTS
  p1 = p1
  p2 = p2
  w1 = w1
  w2 = w2
  Processes = {p1, p2}
  Id <- DistinctIds
  Supervised = {p1}
  Sales = {s1, s2}
  NoSale = NoSale
  NoWorker = NoWorker
  FeeIds = 2
  MaxIds = 0
  MaxFaults = 1
  MaxCrashes = 1
SPECIFICATION Spec
CHECK_DEADLOCK FALSE
PROPERTIES WorkIsNotInterrupted StopIsHonoured FatalIsFinal
