SPECIFICATION Spec
CONSTANTS
  DocIds = {1, 2}
  FirstDoc = 1
  MaxPending = 2
  MaxWrites = 3
  MaxForeign = 2
  MaxFaults = 1
INVARIANTS
  TypeOK
  PipelineInStep
  NoSilentLoss
  OnceUnlessAnswerLost
  DeletedStaysDeleted
  SyncedViewIsBackend
PROPERTIES
  CommitsInOrder
  OwnTextStays
  ImplementsOutbox
CHECK_DEADLOCK FALSE
