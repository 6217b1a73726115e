SPECIFICATION Spec
CONSTANTS
  Endpoints = {e1, e2}
  None = None
  PingEvery = 1
  PruneWindow = 1
  PongOld = 4
  PruneAttempts = 2
  CheckEvery = 2
  SilentAfter = 2
  FullIdle = 2
  FullActive = 4
  SyncEvery = 4
  Never = 5
  MaxFlight = 1
SYMMETRY Symmetry
INVARIANTS
  PathInv
  NeverPruned
  SilentPathGivenUp
