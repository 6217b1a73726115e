SPECIFICATION MembershipSpec
CONSTANTS
  Keys = {k1, k2}
  ZeroKey = ZeroKey
  Handlers = {h1, h2}
  Unlocked = Unlocked
  ChanCap = 1
  MaxNodes = 2
  Hosts = {a, b}
  NoCaller = NoCaller
  PrefixSize = 2
  MaxFaults = 0
PROPERTIES
  AnnouncedIsLearned
CHECK_DEADLOCK FALSE
