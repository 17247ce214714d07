SPECIFICATION FairSpec
CONSTANTS
  DocIds = {1, 2}
  FirstDoc = 1
  MaxPending = 2
  MaxWrites = 2
  MaxForeign = 2
  MaxFaults = 1
PROPERTIES
  QueueDrains
  ViewSettles
CHECK_DEADLOCK FALSE
