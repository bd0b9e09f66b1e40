------------------------------ MODULE MCToolLoop ------------------------------
(* Instances of ToolLoop for TLC.                                          *)
EXTENDS ToolLoop

Calls == [tool : FileTools, file : Files] \cup [tool : OtherTools]

(* One call, two of them, and three, the last of which is deferred.        *)
SmallResponses ==
  {<<c>> : c \in Calls} \cup (Calls \X Calls)
    \cup {<<c, d, [tool |-> "unknown"]>> : c, d \in Calls}
=============================================================================
