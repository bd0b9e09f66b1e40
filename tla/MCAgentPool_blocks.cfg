\* The description of run_steps_parallel: it blocks until all steps finish.
SPECIFICATION FairSpec
CONSTANTS
  Tasks = {1, 2, 3}
  None = none
  Plans <- AllPlans
  Limits = {0, 2}
  Ceilings = {0, 1}
INVARIANT BlocksUntilAllFinish
