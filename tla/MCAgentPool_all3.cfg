\* Every dependency graph over three tasks, one to three workers.
SPECIFICATION FairSpec
CONSTANTS
  Tasks = {1, 2, 3}
  None = none
  Plans <- AllPlans
  Limits = {0, 2}
  Ceilings = {0, 1}
INVARIANTS
  TypeOK DependencyOrder ReadyIsExact TasksOwned
  NoLostWakeup ResolvedMeansAllDone DeadlockOnlyIfCyclic
PROPERTIES
  RunsAtMostOnce BatchSettles ReadyIsEventuallyTaken ImplementsSchedule
