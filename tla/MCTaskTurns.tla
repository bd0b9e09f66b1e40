----------------------------- MODULE MCTaskTurns -----------------------------
(* Instances of TaskTurns for TLC.                                         *)
EXTENDS TaskTurns

(* All steps outstanding, two of them, and everything done.                *)
SmallChecklists ==
  {[s \in Steps |-> "pending"],
   [s \in Steps |-> IF s = Max(Steps) THEN "absent" ELSE "pending"],
   [s \in Steps |-> "done"]}
=============================================================================
