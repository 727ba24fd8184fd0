CONSTANTS
  Orders = {1}
  Shops = {m1}
  Banks = {b1, b2}
  Large = {b1}
  Admins = {a1, a2}
  Hooks = {h1, h2}
  MaxRows = 2
  MaxCrashes = 1
  NoShop = NoShop
  NoAdmin = NoAdmin
SPECIFICATION FairSpec
CHECK_DEADLOCK FALSE
INVARIANTS CreditedOnce PaidIsBacked NothingForNothing
PROPERTIES AnswerIsFinal PaymentIsCredited
