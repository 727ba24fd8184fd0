CONSTANTS
  Shops = {a1, a2}
  Handlers = {h1, h2}
  None = None
  MaxLiveSets = 1
  MaxNumber = 2
  Withdrawable = {1}
SPECIFICATION Spec
SYMMETRY Symmetry
INVARIANTS ShopIsRegistered
PROPERTIES HandoverWorks DecisionStands
