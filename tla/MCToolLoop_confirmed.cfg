\* A verify command that passed before the first write.
SPECIFICATION Spec
CONSTANTS
  Files = {f1}
  Responses <- SmallResponses
  MaxIterations = 4
  MaxCalls = 2
  MaxUnproductive = 2
INVARIANT
  WritesAreConfirmed
CHECK_DEADLOCK FALSE
