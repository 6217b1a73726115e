SPECIFICATION Spec
CONSTANTS
  Nodes = {n1, n2}
  Handlers = {h1, h2, h3}
  Unlocked = Unlocked
  Leaked = Leaked
  Nil = Nil
  InCap = 1
  OutCap = 1
  MaxPackets = 3
SYMMETRY Symmetry
INVARIANTS
  RelayInv
  OpenIsRouted
PROPERTIES
  ImplementsNetwork
CHECK_DEADLOCK FALSE
