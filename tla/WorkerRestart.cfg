CONSTANTS
  p1 = p1
  p2 = p2
  w1 = w1
  w2 = w2
  Processes = {p1, p2}
  Id <- SharedId
  Supervised = {p1, p2}
  Sales = {s1}
  NoSale = NoSale
  NoWorker = NoWorker
  FeeIds = 2
  MaxIds = 12
  MaxFaults = 1
  MaxCrashes = 1
SPECIFICATION FairSpec
CHECK_DEADLOCK FALSE
INVARIANTS NothingIsLeftHeld
PROPERTIES StuckIsDecided StopEnds
