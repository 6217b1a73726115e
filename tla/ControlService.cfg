SPECIFICATION Spec
CONSTANTS
  Keys = {k1, k2}
  ZeroKey = ZeroKey
  Handlers = {h1, h2}
  Unlocked = Unlocked
  ChanCap = 1
  MaxNodes = 2
INVARIANTS
  IInv
  UniqueAddresses
  NoticeCovered
PROPERTIES
  ImplementsAddressPool
  EveryRequestAnswered
