CONSTANTS
  Shops = {m1, m2}
  Sales = {x1}
  Transfers = {t1, t2}
  Requests = {q1, q2}
  Presses = {p1}
  Opening = 4
  Price = 2
  Share = 1
  Deposit = 1
  MonthlyFee = 2
  MaxFees = 1
  Amounts = {1, 2}
  BasisPoints = 5000
  MaxPerTransfer = 2
  MaxPerDay = 3
  Threshold = 1
  LastDay = 2
  Verdicts = {scam}
  NoShop = NoShop
  NoSale = NoSale
  NoRequest = NoRequest
SPECIFICATION Spec
SYMMETRY Symmetry
CHECK_DEADLOCK FALSE
INVARIANTS RowsMatchLedger ReversedOnce DailyLimit
PROPERTIES DecisionIsFinal SpendingIsCovered
