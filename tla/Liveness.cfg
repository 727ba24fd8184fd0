CONSTANTS
  r1 = r1
  r2 = r2
  k1 = k1
  k2 = k2
  w1 = w1
  w2 = w2
  NoRequest = NoRequest
  NoWorker = NoWorker
  Requests = {r1, r2}
  Workers = {w1}
  Key <- TwoKeys
  Fingerprint <- OneFingerprint
  Amount <- UnevenAmounts
  Profit <- OneEach
  Opening = 9
  BatchLimit = 1
  MaxStatusAttempts = 2
  Reversible = {}
  Disputed = {}
  MaxRestarts = 1
  PromptSubmit = TRUE
  AtomicReversal = TRUE
SPECIFICATION FairSpec
CHECK_DEADLOCK FALSE
PROPERTIES InFlightIsDecided
