---------------------------- MODULE MCAgentPool ----------------------------
(* Instances of AgentPool for TLC.                                         *)
EXTENDS AgentPool

(* Every graph, self-dependencies and cycles among them.                   *)
AllPlans == [Tasks -> SUBSET Tasks]
=============================================================================
