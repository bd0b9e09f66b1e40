------------------------------ MODULE TaskTurns ------------------------------
(***************************************************************************)
(* The tasks of one connection (agent/agentTurn.ts) and what they share    *)
(* through their PerConnection: the checklist `activePlan' and the         *)
(* `conversation'.  The client runs one task at a time, but it takes the   *)
(* next one as soon as the user cancelled the last, while the server is    *)
(* still winding that one down: a parallel batch returns when one of its   *)
(* steps ends, and a plan under review when its timer expires.             *)
(*                                                                         *)
(* AgentPool shows how a batch with dependencies is scheduled; the steps   *)
(* of a batch are independent here, as run_steps_parallel asks for.        *)
(***************************************************************************)
EXTENDS Integers, Sequences, FiniteSets, FiniteSetsExt

CONSTANTS
  MaxTasks,      \* bound: tasks submitted on the connection
  Steps,         \* the ids of checklist steps
  Checklists,    \* the checklists a model may declare with update_plan
  Width,         \* workerCountFor of every batch, if it has that many steps
  MaxUpdates,    \* bound: update_plan calls of a task
  MaxBatches,    \* bound: run_steps_parallel calls of a task
  MaxClears,     \* bound: uses of /new
  MaxExchanges,  \* MAX_EXCHANGES: exchanges a conversation keeps
  None           \* no task, no checklist

Tasks == 1..MaxTasks
Status == {"absent", "pending", "done", "failed"}
Checklist == [Steps -> Status]     \* "absent": not in the list at all

(* perConn.activePlan when it is undefined, which the code reads as [].    *)
NoPlan == [s \in Steps |-> "absent"]

ASSUME TurnsAssumption ==
  /\ MaxTasks \in Nat /\ MaxUpdates \in Nat /\ MaxBatches \in Nat /\ MaxClears \in Nat
  /\ Steps \subseteq Nat /\ IsFiniteSet(Steps)
  /\ Checklists \subseteq Checklist \ {NoPlan}
  /\ Width \in Nat \ {0} /\ MaxExchanges \in Nat \ {0}
  /\ None \notin Tasks /\ None \notin Checklist

VARIABLES
  activePlan,    \* perConn.activePlan
  conversation,  \* perConn.conversation: the tasks of its exchanges
  cleared,       \* how often the session was cleared
  current,       \* the task the client is busy with
  phase,         \* where each task's turn is
  aborted,       \* the abort signal of each task
  approved,      \* planApproved of each turn
  planThisTurn,  \* of each turn
  updates,       \* update_plan calls of each turn
  since,         \* value of `cleared' when the task was submitted
  batches        \* the parallel batches of each turn

perConn == <<activePlan, conversation>>
turn == <<phase, aborted, approved, planThisTurn, updates, since>>
vars == <<perConn, cleared, current, turn, batches>>

Phase == {"idle", "starting", "deciding", "review", "batch", "ended"}
Outcome == {"starting", "pending", "resolved", "failed", "aborted"}
Batch == [ids : SUBSET Steps, snapshot : Checklist, todo : SUBSET Steps,
          running : SUBSET Steps, results : [Steps -> {"none", "ok", "failed"}],
          outcome : Outcome]

Init ==
  /\ activePlan = NoPlan /\ conversation = <<>> /\ cleared = 0 /\ current = None
  /\ phase = [t \in Tasks |-> "idle"]
  /\ aborted = [t \in Tasks |-> FALSE]
  /\ approved = [t \in Tasks |-> FALSE]
  /\ planThisTurn = [t \in Tasks |-> None]
  /\ updates = [t \in Tasks |-> 0]
  /\ since = [t \in Tasks |-> 0]
  /\ batches = [t \in Tasks |-> <<>>]

-----------------------------------------------------------------------------
(* The client.  Its next task waits until it is no longer busy.            *)
Submit(t) ==
  /\ current = None
  /\ phase[t] = "idle" /\ \A u \in Tasks : u < t => phase[u] # "idle"
  /\ current' = t
  /\ phase' = [phase EXCEPT ![t] = "starting"]
  /\ since' = [since EXCEPT ![t] = cleared]
  /\ \E planMode \in BOOLEAN : approved' = [approved EXCEPT ![t] = ~planMode]
  /\ UNCHANGED <<perConn, cleared, aborted, planThisTurn, updates, batches>>

(* Esc or Ctrl+C: the stream is cancelled, and the client is free at once. *)
Cancel ==
  /\ current # None
  /\ aborted' = [aborted EXCEPT ![current] = TRUE]
  /\ current' = None
  /\ UNCHANGED <<perConn, cleared, phase, approved, planThisTurn, updates, since, batches>>

(* Mutant of ClearSession: the conversation is forgotten.                  *)
ClearChecklistOnly ==
  /\ current = None /\ cleared < MaxClears
  /\ cleared' = cleared + 1
  /\ activePlan' = NoPlan
  /\ UNCHANGED <<conversation, current, turn, batches>>

(* /new: session.clear.                                                    *)
ClearSession ==
  /\ current = None /\ cleared < MaxClears
  /\ cleared' = cleared + 1
  /\ activePlan' = NoPlan
  /\ conversation' = <<>>
  /\ UNCHANGED <<current, turn, batches>>

-----------------------------------------------------------------------------
(* runAgentTurn.  A carried-over checklist is resumed unless all is done.  *)
IsResumed(plan) == \E s \in Steps : plan[s] \notin {"absent", "done"}

Begin(t) ==
  /\ phase[t] = "starting"
  /\ phase' = [phase EXCEPT ![t] = "deciding"]
  /\ planThisTurn' =
       [planThisTurn EXCEPT ![t] = IF IsResumed(activePlan) THEN activePlan ELSE None]
  /\ UNCHANGED <<perConn, cleared, current, aborted, approved, updates, since, batches>>

(* Mutant of EmitPlanUpdate: the turn's own view is forgotten.             *)
EmitToConnectionOnly(t, plan) ==
  /\ activePlan' = plan
  /\ UNCHANGED planThisTurn

(* emitPlanUpdate, the one place where the checklist is written.           *)
EmitPlanUpdate(t, plan) ==
  /\ activePlan' = plan
  /\ planThisTurn' = [planThisTurn EXCEPT ![t] = plan]

(* Mutant of RecordExchange: nothing is trimmed.                           *)
RecordUntrimmed(t) == conversation' = Append(conversation, t)

(* recordExchange: the oldest exchange makes room for the new one.         *)
RecordExchange(t) ==
  conversation' = LET next == Append(conversation, t)
                  IN  IF Len(next) > MaxExchanges THEN Tail(next) ELSE next

(* The stream of task t completes, with an error or without.               *)
End(t) ==
  /\ phase' = [phase EXCEPT ![t] = "ended"]
  /\ current' = IF current = t THEN None ELSE current

(* Between two tool calls; a cancelled turn makes no further one.          *)
Deciding(t) == phase[t] = "deciding" /\ ~aborted[t]

UpdatePlan(t, plan) ==
  /\ Deciding(t) /\ updates[t] < MaxUpdates
  /\ EmitPlanUpdate(t, plan)
  /\ updates' = [updates EXCEPT ![t] = @ + 1]
  /\ phase' = [phase EXCEPT ![t] = IF approved[t] THEN "deciding" ELSE "review"]
  /\ UNCHANGED <<conversation, cleared, current, aborted, approved, since, batches>>

(* The user approves the plan or asks for another.                         *)
ReviewContinues(t) ==
  /\ phase[t] = "review"
  /\ phase' = [phase EXCEPT ![t] = "deciding"]
  /\ \E decision \in {"implement", "edit"} :
       approved' = [approved EXCEPT ![t] = decision = "implement"]
  /\ UNCHANGED <<perConn, cleared, current, aborted, planThisTurn, updates, since, batches>>

(* The user skips the plan or its timer expires, perhaps long after the    *)
(* task was cancelled: the turn returns and its exchange is recorded.      *)
ReviewStops(t) ==
  /\ phase[t] = "review"
  /\ End(t)
  /\ RecordExchange(t)
  /\ UNCHANGED <<activePlan, cleared, aborted, approved, planThisTurn, updates, since, batches>>

Finish(t) ==
  /\ Deciding(t)
  /\ End(t)
  /\ RecordExchange(t)
  /\ UNCHANGED <<activePlan, cleared, aborted, approved, planThisTurn, updates, since, batches>>

(* The turn throws: it sees the abort signal, or the provider fails.       *)
Throw(t) ==
  /\ phase[t] = "deciding"
  /\ End(t)
  /\ UNCHANGED <<perConn, cleared, aborted, approved, planThisTurn, updates, since, batches>>

-----------------------------------------------------------------------------
(* runStepsParallel.  The checklist is read before the batch starts; the   *)
(* tool is offered only once a plan was approved.                          *)
RunStepsParallel(t, ids) ==
  /\ Deciding(t) /\ approved[t] /\ Len(batches[t]) < MaxBatches
  /\ Cardinality(ids) >= 2
  /\ \A s \in ids : activePlan[s] # "absent"
  /\ batches' = [batches EXCEPT ![t] = Append(@,
       [ids |-> ids, snapshot |-> activePlan, todo |-> ids, running |-> {},
        results |-> [s \in Steps |-> "none"], outcome |-> "starting"])]
  /\ phase' = [phase EXCEPT ![t] = "batch"]
  /\ UNCHANGED <<perConn, cleared, current, aborted, approved, planThisTurn, updates, since>>

(* Mutant of IsFirst: one worker per step, whatever the cap.               *)
IsEveryStep(steps, n, all) == steps = all

(* The workers take the steps with the smallest ids, unless the task was   *)
(* cancelled while the provider's tuning was read.                         *)
IsFirst(steps, n, all) ==
  /\ steps \subseteq all
  /\ Cardinality(steps) = IF n <= Cardinality(all) THEN n ELSE Cardinality(all)
  /\ \A s \in steps, r \in all \ steps : s < r

Launch(t) ==
  LET b == Len(batches[t])  batch == batches[t][b]
  IN  /\ phase[t] = "batch" /\ batch.outcome = "starting"
      /\ \E first \in SUBSET batch.todo :
           /\ IsFirst(first, Width, batch.todo)
           /\ batches' = [batches EXCEPT ![t][b] =
                IF aborted[t] THEN [batch EXCEPT !.outcome = "aborted"]
                ELSE [batch EXCEPT !.todo = @ \ first, !.running = first,
                                   !.outcome = "pending"]]
      /\ UNCHANGED <<perConn, cleared, current, turn>>

(* Mutant of Reject: a worker that sees the signal just returns.           *)
RejectUnlessAborted(batch, why) ==
  [batch EXCEPT !.outcome = IF @ = "pending" /\ why # "aborted" THEN why ELSE @]

(* The first rejection settles the batch.                                  *)
Reject(batch, why) ==
  [batch EXCEPT !.outcome = IF @ = "pending" THEN why ELSE @]

(* The worker's step is over: with a result, or without one.               *)
Completed(batch, s, result) == [batch EXCEPT !.running = @ \ {s}, !.results[s] = result]
Abandoned(batch, s) == [batch EXCEPT !.running = @ \ {s}]

(* Mutants of AfterSuccess: the signal is not looked at between two steps; *)
(* and the batch resolves once no step is left to take.                    *)
AfterSuccessUnchecked(batch, s, isAborted) ==
  LET done == Completed(batch, s, "ok")
  IN  IF done.todo # {}
      THEN [done EXCEPT !.todo = @ \ {Min(done.todo)},
                        !.running = @ \cup {Min(done.todo)}]
      ELSE IF done.running = {} THEN Reject(done, "resolved") ELSE done

AfterSuccessEarly(batch, s, isAborted) ==
  LET done == Completed(batch, s, "ok")
  IN  IF isAborted THEN Reject(done, "aborted")
      ELSE IF done.todo # {}
      THEN [done EXCEPT !.todo = @ \ {Min(done.todo)},
                        !.running = @ \cup {Min(done.todo)}]
      ELSE Reject(done, "resolved")

(* What the worker that completed step s does next: it sees the signal, or *)
(* takes a step, whether or not the batch has settled, or is done.         *)
AfterSuccess(batch, s, isAborted) ==
  LET done == Completed(batch, s, "ok")
  IN  IF isAborted THEN Reject(done, "aborted")
      ELSE IF done.todo # {}
      THEN [done EXCEPT !.todo = @ \ {Min(done.todo)},
                        !.running = @ \cup {Min(done.todo)}]
      ELSE IF done.running = {} THEN Reject(done, "resolved") ELSE done

StepSucceeds(t, b, s) ==
  /\ s \in batches[t][b].running
  /\ batches' = [batches EXCEPT ![t][b] = AfterSuccess(@, s, aborted[t])]
  /\ UNCHANGED <<perConn, cleared, current, turn>>

StepFails(t, b, s) ==
  /\ s \in batches[t][b].running
  /\ batches' = [batches EXCEPT ![t][b] = Reject(Completed(@, s, "failed"), "failed")]
  /\ UNCHANGED <<perConn, cleared, current, turn>>

StepThrows(t, b, s) ==
  /\ s \in batches[t][b].running
  /\ \E why \in {"failed"} \cup (IF aborted[t] THEN {"aborted"} ELSE {}) :
       batches' = [batches EXCEPT ![t][b] = Reject(Abandoned(@, s), why)]
  /\ UNCHANGED <<perConn, cleared, current, turn>>

(* Mutant of ApplyResults: only failures are recorded.                     *)
ApplyFailures(batch) ==
  [s \in Steps |-> IF batch.results[s] = "failed" THEN "failed" ELSE batch.snapshot[s]]

(* applyResults: the checklist as it was read, with the results recorded   *)
(* so far.                                                                 *)
ApplyResults(batch) ==
  [s \in Steps |->
     IF batch.results[s] = "ok" THEN "done"
     ELSE IF batch.results[s] = "failed" THEN "failed"
     ELSE batch.snapshot[s]]

BatchReturns(t) ==
  LET batch == batches[t][Len(batches[t])]
  IN  /\ phase[t] = "batch" /\ batch.outcome \in {"resolved", "failed", "aborted"}
      /\ EmitPlanUpdate(t, ApplyResults(batch))
      /\ IF batch.outcome = "aborted" THEN End(t)
         ELSE phase' = [phase EXCEPT ![t] = "deciding"] /\ UNCHANGED current
      /\ UNCHANGED <<conversation, cleared, aborted, approved, updates, since, batches>>

-----------------------------------------------------------------------------
StepEnds(t, b, s) == StepSucceeds(t, b, s) \/ StepFails(t, b, s) \/ StepThrows(t, b, s)

Next ==
  \/ Cancel
  \/ ClearSession
  \/ \E t \in Tasks :
       \/ Submit(t) \/ Begin(t)
       \/ \E plan \in Checklists : UpdatePlan(t, plan)
       \/ ReviewContinues(t) \/ ReviewStops(t)
       \/ Finish(t) \/ Throw(t)
       \/ \E ids \in SUBSET Steps : RunStepsParallel(t, ids)
       \/ Launch(t) \/ BatchReturns(t)
       \/ \E b \in 1..Len(batches[t]) : \E s \in Steps : StepEnds(t, b, s)

(* Continuations run, timers expire and a step ends; neither the user nor  *)
(* the model has to do anything.                                           *)
Fairness ==
  \A t \in Tasks :
    /\ WF_vars(Begin(t)) /\ WF_vars(ReviewStops(t)) /\ WF_vars(Launch(t))
    /\ WF_vars(BatchReturns(t)) /\ WF_vars(aborted[t] /\ Throw(t))
    /\ \A b \in 1..MaxBatches : \A s \in Steps :
         WF_vars(b <= Len(batches[t]) /\ StepEnds(t, b, s))

Spec == Init /\ [][Next]_vars
FairSpec == Spec /\ Fairness

-----------------------------------------------------------------------------
(* Values of the variables.                                                *)
TypeOK ==
  /\ activePlan \in Checklist
  /\ conversation \in Seq(Tasks) /\ Len(conversation) <= MaxExchanges
  /\ cleared \in 0..MaxClears
  /\ current \in Tasks \cup {None}
  /\ phase \in [Tasks -> Phase]
  /\ aborted \in [Tasks -> BOOLEAN] /\ approved \in [Tasks -> BOOLEAN]
  /\ planThisTurn \in [Tasks -> Checklist \cup {None}]
  /\ updates \in [Tasks -> 0..MaxUpdates]
  /\ since \in [Tasks -> 0..MaxClears]
  /\ batches \in [Tasks -> Seq(Batch)]

(* The steps that run, each with the batch it belongs to.                  *)
RunningSteps(t) ==
  {p \in (1..Len(batches[t])) \X Steps : p[2] \in batches[t][p[1]].running}

(* No task was cancelled on this connection.                               *)
Uncancelled == \A t \in Tasks : ~aborted[t]

(* The turn the user is waiting for has declared or resumed a checklist.   *)
HasChecklist(t) == t # None /\ phase[t] \notin {"idle", "starting"} /\ planThisTurn[t] # None

(* The comment on PerConnection.activePlan: it is the checklist as last    *)
(* reported via update_plan.  While a task runs, no other task changes it. *)
ChecklistIsOwn == HasChecklist(current) => activePlan = planThisTurn[current]

(* The comment on session.clear: after /new no turn resumes a checklist    *)
(* from before it ...                                                      *)
ChecklistStaysCleared ==
  \A t \in Tasks : activePlan # NoPlan => \E u \in Tasks : /\ since[u] = cleared
                                                          /\ planThisTurn[u] # None

(* ... or refers back to an earlier exchange.                              *)
ConversationStaysCleared ==
  \A i \in 1..Len(conversation) : since[conversation[i]] = cleared

(* Tasks that follow one another without a cancellation never touch each   *)
(* other's checklist, although steps of a failed batch may outlive the     *)
(* turn that started them, and what /new cleared stays cleared.            *)
OwnUnlessCancelled ==
  Uncancelled => ChecklistIsOwn /\ ChecklistStaysCleared /\ ConversationStaysCleared

(* The comment in runStepsParallel: a batch respects the concurrency cap   *)
(* of the turn.  A batch that fails can leave all but one of its workers   *)
(* behind, so the turn as a whole exceeds the cap by that much at most; in *)
(* focus mode nothing is left.                                             *)
OrphanBound ==
  \A t \in Tasks :
    LET failed == {b \in 1..Len(batches[t]) : batches[t][b].outcome = "failed"}
    IN  Cardinality(RunningSteps(t)) <= Width + (Width - 1) * Cardinality(failed)

(* A step runs in two batches at once only if the earlier one failed and   *)
(* left it running: its worker is then past the model's control.           *)
RunsTwiceOnlyAfterFailure ==
  \A t \in Tasks : \A b, c \in 1..Len(batches[t]) :
    b < c /\ batches[t][b].running \cap batches[t][c].running # {}
      => batches[t][b].outcome = "failed"

(* When the model goes on after a batch, the checklist shows every step of *)
(* it that succeeded so far as done: all of them if the batch did not fail. *)
ResolvedBatchIsShown ==
  [][\A t \in Tasks :
       phase[t] = "batch" /\ phase'[t] = "deciding" =>
         LET batch == batches[t][Len(batches[t])]
         IN  /\ batch.outcome = "resolved" => \A s \in batch.ids : activePlan'[s] = "done"
             /\ batch.outcome = "failed" =>
                  \A s \in batch.ids : batch.results[s] = "ok" => activePlan'[s] = "done"]_vars

(* Once a task is cancelled no further step of it is started, in the batch *)
(* it waits for or in a failed one that is still draining.                 *)
NoStepStartsOnceCancelled ==
  [][\A t \in Tasks : aborted[t] =>
       \A b \in 1..Len(batches[t]) : batches'[t][b].running \subseteq batches[t][b].running]_vars

(* A cancelled task ends, and so does every step it started.               *)
CancelledTaskEnds ==
  \A t \in Tasks : aborted[t] ~> phase[t] = "ended" /\ RunningSteps(t) = {}
=============================================================================
