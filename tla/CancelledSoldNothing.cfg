CONSTANTS
  Orders = {o1}
  Handlers = {h1, h2}
  Pins = {p1, p2}
  MaxQuantity = 2
  Opening = 2
  MaxFailed = 1
  MaxAttempts = 2
  Window = 1
  RateWindow = 1
  Expiry = 1
  LastTick = 1
  MaxTries = 3
  NoOrder = NoOrder
  NoPin = NoPin
SPECIFICATION Spec
CHECK_DEADLOCK FALSE
INVARIANT CancelledSoldNothing
