\* Three reviews, a timeout of two ticks, disposal at any moment.
SPECIFICATION FairSpec
CONSTANTS
  Requests = {p1, p2, p3}
  Timeout = 2
  None = none
INVARIANTS
  TypeOK PendingIsActiveThenQueued OneUndecidedOnScreen AnswerSettlesItsPlan
PROPERTIES
  SettledOnce EveryReviewSettles
CHECK_DEADLOCK FALSE
