SPECIFICATION Spec
CONSTANTS
  MaxTasks = 2
  Steps = {1,2}
  Checklists <- SmallChecklists
  Width = 2
  MaxUpdates = 1
  MaxBatches = 1
  MaxClears = 1
  MaxExchanges = 1
  None = none
INVARIANT
  ChecklistIsOwn
CHECK_DEADLOCK FALSE
