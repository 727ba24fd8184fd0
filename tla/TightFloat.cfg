CONSTANTS
  r1 = r1
  r2 = r2
  k1 = k1
  k2 = k2
  w1 = w1
  w2 = w2
  NoRequest = NoRequest
  NoWorker = NoWorker
  Requests = {r1, r2}
  Workers = {w1}
  Key <- TwoKeys
  Fingerprint <- OneFingerprint
  Amount <- UnevenAmounts
  Profit <- OneEach
  Opening = 8
  BatchLimit = 1
  MaxStatusAttempts = 1
  Reversible = {r1}
  Disputed = {}
  MaxRestarts = 0
  PromptSubmit = FALSE
  AtomicReversal = FALSE
SPECIFICATION Spec
CHECK_DEADLOCK FALSE
PROPERTIES ImplementsFloat
