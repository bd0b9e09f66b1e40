------------------------- MODULE MCPlanReviewBroker -------------------------
(* Instances of PlanReviewBroker for TLC.                                  *)
EXTENDS PlanReviewBroker, TLC

Symmetry == Permutations(Requests)
=============================================================================
