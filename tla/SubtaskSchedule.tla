--------------------------- MODULE SubtaskSchedule ---------------------------
(***************************************************************************)
(* What run_steps_parallel promises of a batch, without queue, signal or   *)
(* workers: every subtask goes once through blocked/waiting, running and   *)
(* complete or failed; it starts only after everything it depends on is    *)
(* complete; and at most `width' run at a time.  The states are those of   *)
(* TaskLifecycleState, the view of the batch the user interface shows.     *)
(***************************************************************************)
EXTENDS Integers, FiniteSets

CONSTANT Tasks

VARIABLES
  deps,     \* what each subtask depends on
  width,    \* how many may run at a time
  status    \* the life-cycle state of each subtask

vars == <<deps, width, status>>

Running(st) == {t \in Tasks : st[t] = "running"}

Unfinished(st) == {t \in Tasks : st[t] \in {"waiting", "blocked"}}

(* blocked turns into waiting as dependencies complete.                    *)
Unblocked(st) ==
  [t \in Tasks |->
     IF t \in Unfinished(st)
     THEN IF \A d \in deps[t] : st[d] = "complete" THEN "waiting" ELSE "blocked"
     ELSE st[t]]

Init ==
  /\ deps \in [Tasks -> SUBSET Tasks]
  /\ width \in 1..Cardinality(Tasks)
  /\ status = Unblocked([t \in Tasks |-> "blocked"])

(* Some waiting subtask starts in st, if there is room for it.             *)
StartsOne(st) ==
  \E t \in Tasks :
    /\ st[t] = "waiting"
    /\ Cardinality(Running(st)) < width
    /\ status' = [st EXCEPT ![t] = "running"]

Start ==
  /\ StartsOne(status)
  /\ UNCHANGED <<deps, width>>

(* A subtask completes, and the worker it frees may take the next at once. *)
Finish(t) ==
  /\ status[t] = "running"
  /\ LET done == Unblocked([status EXCEPT ![t] = "complete"])
     IN  status' = done \/ StartsOne(done)
  /\ UNCHANGED <<deps, width>>

Fail(t) ==
  /\ status[t] = "running"
  /\ status' = [status EXCEPT ![t] = "failed"]
  /\ UNCHANGED <<deps, width>>

Next == Start \/ \E t \in Tasks : Finish(t) \/ Fail(t)

Spec == Init /\ [][Next]_vars
=============================================================================
