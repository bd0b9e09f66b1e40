\* Three iterations, two calls in each.
SPECIFICATION FairSpec
CONSTANTS
  Files = {f1}
  Responses <- SmallResponses
  MaxIterations = 3
  MaxCalls = 2
  MaxUnproductive = 2
INVARIANTS
  TypeOK PlanModeGate CompletionIsGated HistoryInCallOrder MutationsWait
PROPERTY
  TurnEnds
CHECK_DEADLOCK FALSE
