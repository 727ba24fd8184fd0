CONSTANTS
  r1 = r1
  r2 = r2
  k1 = k1
  k2 = k2
  w1 = w1
  w2 = w2
  NoRequest = NoRequest
  NoWorker = NoWorker
  Requests = {r1, r2}
  Workers = {w1, w2}
  Key <- OneKey
  Fingerprint <- TwoFingerprints
  Amount <- FiveEach
  Profit <- OneEach
  Opening = 10
  BatchLimit = 1
  MaxStatusAttempts = 2
  Reversible = {r1, r2}
  Disputed = {r1, r2}
  MaxRestarts = 1
  PromptSubmit = TRUE
  AtomicReversal = TRUE
SPECIFICATION Spec
CHECK_DEADLOCK FALSE
INVARIANTS PostedMatchesReservation StateMatchesReservation MoneyFollowsDelivery
UncertainSaleIsTracked CommissionIsPosted OneSalePerKey RecordedResultIsFinal ReplyHolds
PROPERTIES ClaimIsRespected MovesAreLegal
