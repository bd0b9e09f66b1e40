\* One task, cancelled at any moment, whose batches fail one after the other.
SPECIFICATION FairSpec
CONSTANTS
  MaxTasks = 1
  Steps = {1,2,3}
  Checklists <- SmallChecklists
  Width = 2
  MaxUpdates = 1
  MaxBatches = 2
  MaxClears = 0
  MaxExchanges = 1
  None = none
INVARIANTS
  OrphanBound RunsTwiceOnlyAfterFailure
PROPERTIES
  NoStepStartsOnceCancelled CancelledTaskEnds
CHECK_DEADLOCK FALSE
