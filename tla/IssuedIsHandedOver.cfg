CONSTANTS
  Shops = {a1}
  Handlers = {h1}
  None = None
  MaxLiveSets = 2
  MaxNumber = 1
  Withdrawable = {1}
SPECIFICATION Spec
INVARIANTS IssuedIsHandedOver
