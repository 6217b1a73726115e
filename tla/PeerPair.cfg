SPECIFICATION TimelySpec
CONSTANTS
  Endpoints = {a, b}
  Nodes = {a, b}
  Talkers = {a}
  None = None
  PingEvery = 1
  PruneWindow = 0
  PongOld = 1
  PruneAttempts = 0
  CheckEvery = 1
  SilentAfter = 0
  FullIdle = 0
  FullActive = 1
  SyncEvery = 1
  Never = 2
  MaxData = 1
  MaxLosses = 1
  MaxFlight = 1
PROPERTIES
  ImplementsTunnel
  TalkerFindsPath
