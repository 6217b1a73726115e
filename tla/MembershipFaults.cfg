SPECIFICATION MembershipSpec
CONSTANTS
  Keys = {k1, k2, k3}
  ZeroKey = ZeroKey
  Handlers = {h1, h2}
  Unlocked = Unlocked
  ChanCap = 1
  MaxNodes = 3
  Hosts = {a, b}
  NoCaller = NoCaller
  PrefixSize = 2
  MaxFaults = 1
SYMMETRY Symmetry
INVARIANTS
  MembershipTypeOK
  OneRowPerKey
  RoutesAgree
  LinkedWhenQuiet
  OneUpdateRoutine
CHECK_DEADLOCK FALSE
