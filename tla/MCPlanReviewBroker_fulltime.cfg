\* The class comment: a queued plan gets the whole timeout once it is sent.
SPECIFICATION Spec
CONSTANTS
  Requests = {p1, p2}
  Timeout = 2
  None = none
SYMMETRY Symmetry
INVARIANT FullReviewTime
CHECK_DEADLOCK FALSE
