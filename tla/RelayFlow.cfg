SPECIFICATION FairFlowSpec
CONSTANTS
  Nodes = {a, b}
  Nothing = Nothing
  UpCap = 1
  DownCap = 1
INVARIANTS
  FlowInv
  BlockedTogether
PROPERTIES
  WaitForEver
  HandledUnlessAllWait
CHECK_DEADLOCK FALSE
