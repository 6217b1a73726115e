SPECIFICATION PairSpec
CONSTANTS
  Endpoints = {a, b}
  Nodes = {a, b}
  Talkers = {}
  None = None
  PingEvery = 1
  PruneWindow = 1
  PongOld = 2
  PruneAttempts = 2
  CheckEvery = 1
  SilentAfter = 1
  FullIdle = 1
  FullActive = 2
  SyncEvery = 3
  Never = 4
  MaxData = 1
  MaxLosses = 0
  MaxFlight = 1
PROPERTIES
  RelayCarriesData
