SPECIFICATION FairSpec
CONSTANTS
  MaxUps = 2
  MaxFaults = 2
INVARIANTS
  MuxInv
  PortIsFree
  ReadsWhileUp
PROPERTIES
  PanicsOnlyOfOldRead
  FailedUpReleases
CHECK_DEADLOCK FALSE
