SPECIFICATION Spec
CONSTANTS
  Nodes = {n1, n2}
  Handlers = {h1, h2}
  Unlocked = Unlocked
  Leaked = Leaked
  Nil = Nil
  InCap = 1
  OutCap = 1
  MaxPackets = 3
PROPERTIES
  RegistrationEnds
  ClosedHandlerEnds
CHECK_DEADLOCK FALSE
