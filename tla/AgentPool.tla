------------------------------ MODULE AgentPool ------------------------------
(***************************************************************************)
(* runAgentPool (orchestratorPipelineHelpers.ts): the workers that drain   *)
(* one ReadyQueue.  A worker is an async loop; what it does between two    *)
(* awaits is one action.  The awaits are workSignal.wait() ("waiting") and *)
(* runSubtask() ("running").                                               *)
(*                                                                         *)
(*   absent    beyond workerCountFor's count                               *)
(*   starting  not yet called by Array.from                                *)
(*   waiting   its promise is in WorkSignal's waiters                      *)
(*   awake     resolved by a broadcast, not yet resumed                    *)
(*   running   awaiting runSubtask for job[w]                              *)
(*   returned, rejected                                                    *)
(***************************************************************************)
EXTENDS ReadyQueue

CONSTANTS
  Plans,       \* the dependency graphs a batch may have
  Limits,      \* the values max_subagents may have
  Ceilings,    \* the local-provider ceilings, NoCeiling among them if remote
  None         \* no job

ASSUME PoolAssumption ==
  /\ Plans \subseteq Plan
  /\ Limits \subseteq Nat
  /\ Ceilings \subseteq Nat
  /\ None \notin Tasks

Workers == 1..Cardinality(Tasks)

VARIABLES
  deps,        \* dependsOn of every subtask; never changes
  queue,       \* the ReadyQueue
  worker,      \* the state of each worker
  job,         \* the subtask a running worker awaits
  resultMap,   \* "none", or the ok of the result the caller can read
  aborted,     \* signal.aborted
  outcome      \* the promise runAgentPool returned

vars == <<deps, queue, worker, job, resultMap, aborted, outcome>>

WorkerState == {"absent", "starting", "waiting", "awake", "running",
                "returned", "rejected"}
Outcome == {"pending", "resolved", "deadlock", "failed", "aborted"}

Init ==
  /\ deps \in Plans
  /\ queue = CreateReadyQueue(deps)
  /\ \E limit \in Limits, ceiling \in Ceilings :
       worker = [w \in Workers |-> IF w <= WorkerCountFor(limit, deps, ceiling)
                                   THEN "starting" ELSE "absent"]
  /\ job = [w \in Workers |-> None]
  /\ resultMap = [t \in Tasks |-> "none"]
  /\ aborted \in BOOLEAN
  /\ outcome = "pending"

(* All workers are called in one synchronous Array.from.                   *)
AllStarted == \A w \in Workers : worker[w] # "starting"

(* Mutants of broadcast(), of the loop's first lines and of the check that *)
(* follows Promise.all.                                                    *)
BroadcastToNobody(ws) == ws

LoopHeadIdleFirst(w, q, ws) ==   \* asks "is anything running?" before "is anything ready?"
  /\ queue' = q
  /\ worker' = [ws EXCEPT ![w] = IF q.running = {} THEN "returned" ELSE "waiting"]
  /\ job' = [job EXCEPT ![w] = None]
  /\ UNCHANGED outcome

SettleUnchecked ==               \* tasks left in pending are not noticed
  /\ outcome = "pending"
  /\ \A w \in Workers : worker[w] \in {"absent", "returned"}
  /\ outcome' = "resolved"
  /\ UNCHANGED <<deps, queue, worker, job, resultMap, aborted>>

(* WorkSignal.broadcast: every waiter's promise is resolved.               *)
Broadcast(ws) ==
  [w \in Workers |-> IF ws[w] = "waiting" THEN "awake" ELSE ws[w]]

(* The first rejection settles Promise.all; later ones are lost.           *)
Rejected(why) == IF outcome = "pending" THEN why ELSE outcome

Leave(w, ws, state) ==
  /\ worker' = [ws EXCEPT ![w] = state]
  /\ job' = [job EXCEPT ![w] = None]

(* One pass of the worker's while loop, from its head to its next await,   *)
(* on the queue q and the workers ws that the code before it left behind.  *)
LoopHead(w, q, ws) ==
  \/ /\ aborted
     /\ queue' = q
     /\ Leave(w, ws, "rejected")
     /\ outcome' = Rejected("aborted")
  \/ /\ ~aborted
     /\ q.ready = {}
     /\ queue' = q
     /\ Leave(w, ws, IF q.running = {} THEN "returned" ELSE "waiting")
     /\ UNCHANGED outcome
  \/ /\ ~aborted
     /\ \E t \in q.ready :
          /\ IsNextAvailable(q, CriticalPathLength(deps), t)
          /\ CanTake(q, t)
          /\ queue' = Take(q, t)
          /\ worker' = [Broadcast(ws) EXCEPT ![w] = "running"]
          /\ job' = [job EXCEPT ![w] = t]
     /\ UNCHANGED outcome

(* A worker is called, or resumes after a broadcast.                       *)
Turn(w) ==
  /\ \/ worker[w] = "starting"
     \/ worker[w] = "awake" /\ AllStarted
  /\ LoopHead(w, queue, worker)
  /\ UNCHANGED <<deps, resultMap, aborted>>

(* runSubtask resolves with ok: the result is recorded, the workers woken  *)
(* and the loop goes round.                                                *)
SubtaskSucceeds(w) ==
  /\ worker[w] = "running" /\ AllStarted
  /\ resultMap' = [resultMap EXCEPT ![job[w]] = "ok"]
  /\ LoopHead(w, Complete(queue, deps, job[w], TRUE), Broadcast(worker))
  /\ UNCHANGED <<deps, aborted>>

(* runSubtask resolves without ok: recorded, then the worker throws; there *)
(* is no broadcast on this path.                                           *)
SubtaskFails(w) ==
  /\ worker[w] = "running" /\ AllStarted
  /\ queue' = Complete(queue, deps, job[w], FALSE)
  /\ resultMap' = [resultMap EXCEPT ![job[w]] = "failed"]
  /\ Leave(w, worker, "rejected")
  /\ outcome' = Rejected("failed")
  /\ UNCHANGED <<deps, aborted>>

(* runSubtask rejects: an AbortError once the signal fired, or any other   *)
(* error.  complete() is never called, so the task stays in running.       *)
SubtaskThrows(w) ==
  /\ worker[w] = "running" /\ AllStarted
  /\ Leave(w, worker, "rejected")
  /\ \E why \in {"failed"} \cup (IF aborted THEN {"aborted"} ELSE {}) :
       outcome' = Rejected(why)
  /\ UNCHANGED <<deps, queue, resultMap, aborted>>

(* Every worker returned: Promise.all resolves and the pending check runs. *)
Settle ==
  /\ outcome = "pending"
  /\ \A w \in Workers : worker[w] \in {"absent", "returned"}
  /\ outcome' = IF queue.pending # {} THEN "deadlock" ELSE "resolved"
  /\ UNCHANGED <<deps, queue, worker, job, resultMap, aborted>>

(* The user cancels, or the connection closes.                             *)
Abort ==
  /\ ~aborted /\ AllStarted
  /\ aborted' = TRUE
  /\ UNCHANGED <<deps, queue, worker, job, resultMap, outcome>>

(* Nothing is left that could run; workers may be waiting for ever.        *)
Quiescent ==
  /\ outcome # "pending" /\ aborted
  /\ \A w \in Workers : worker[w] \in {"absent", "waiting", "returned", "rejected"}
  /\ UNCHANGED vars

SubtaskEnds(w) == SubtaskSucceeds(w) \/ SubtaskFails(w) \/ SubtaskThrows(w)

Next ==
  \/ \E w \in Workers : Turn(w) \/ SubtaskEnds(w)
  \/ Settle
  \/ Abort
  \/ Quiescent

(* The event loop runs every resolved continuation, and a subtask ends:    *)
(* its tool-call loop has an iteration ceiling.                            *)
Fairness ==
  /\ \A w \in Workers : WF_vars(Turn(w)) /\ WF_vars(SubtaskEnds(w))
  /\ WF_vars(Settle)

Spec == Init /\ [][Next]_vars
FairSpec == Spec /\ Fairness

-----------------------------------------------------------------------------
(* Values of the variables.                                                *)
TypeOK ==
  /\ deps \in Plan
  /\ queue \in Queue
  /\ worker \in [Workers -> WorkerState]
  /\ job \in [Workers -> Tasks \cup {None}]
  /\ resultMap \in [Tasks -> {"none", "ok", "failed"}]
  /\ aborted \in BOOLEAN
  /\ outcome \in Outcome

(* A subtask leaves pending only when everything it depends on in the      *)
(* batch has completed, so buildSessionContext finds a result for each of  *)
(* its dependencies.                                                       *)
DependencyOrder ==
  \A t \in Tasks \ queue.pending : deps[t] \subseteq queue.completed

(* The incrementally maintained ready map is exactly the set of pending    *)
(* tasks whose dependencies have all completed: none is forgotten, none is *)
(* released early, none is still there once it was taken.                  *)
ReadyIsExact ==
  queue.ready = {t \in queue.pending : deps[t] \subseteq queue.completed}

(* The workers' view and the queue's agree: a running worker's job is in   *)
(* the running set, no two workers run the same task, and the tasks divide *)
(* into pending, running, completed and failed.                            *)
OneWorkerPerTask ==
  /\ \A w \in Workers : worker[w] = "running" <=> job[w] # None
  /\ \A w \in Workers : worker[w] = "running" => job[w] \in queue.running
  /\ \A v, w \in Workers :
       worker[v] = "running" /\ worker[w] = "running" /\ job[v] = job[w] => v = w

TasksPartitioned ==
  /\ Tasks = queue.pending \cup queue.running \cup queue.completed \cup queue.failed
  /\ queue.pending \cap (queue.running \cup queue.completed \cup queue.failed) = {}
  /\ queue.running \cap (queue.completed \cup queue.failed) = {}
  /\ queue.completed \cap queue.failed = {}

(* However the workers interleave, no task is lost, done twice or in two   *)
(* hands.                                                                  *)
TasksOwned == OneWorkerPerTask /\ TasksPartitioned

(* No wake-up is lost: a worker sleeps only while there is nothing to      *)
(* take, and, until some worker has thrown, only while another worker will *)
(* broadcast.                                                              *)
NoLostWakeup ==
  (\E w \in Workers : worker[w] = "waiting")
    => /\ queue.ready = {}
       /\ \/ \E w \in Workers : worker[w] = "running"
          \/ outcome # "pending"

(* The batch is reported done only when every subtask completed and the    *)
(* caller's result map says so for each.                                   *)
ResolvedMeansAllDone ==
  outcome = "resolved" => /\ queue.completed = Tasks
                          /\ \A t \in Tasks : resultMap[t] = "ok"

(* "Deadlock: cyclic or invalid dependencies" is reported of cyclic plans  *)
(* only, and after everything that could run has completed: every subtask  *)
(* left over waits for another one left over.                              *)
DeadlockOnlyIfCyclic ==
  outcome = "deadlock" =>
    /\ queue.running = {} /\ queue.failed = {}
    /\ \A t \in queue.pending : deps[t] \cap queue.pending # {}

(* run_steps_parallel tells the model it "blocks until all finish": when   *)
(* the promise has settled, no subtask of the batch is still being run.    *)
BlocksUntilAllFinish ==
  outcome # "pending" => \A w \in Workers : worker[w] # "running"

(* A step never runs twice, and a recorded result is never overwritten.    *)
RunsAtMostOnce ==
  [][/\ queue.pending' \subseteq queue.pending
     /\ \A t \in Tasks : resultMap[t] # "none" => resultMap'[t] = resultMap[t]
     /\ outcome # "pending" => outcome' = outcome]_vars

(* The batch always settles: neither a cyclic plan, a failed subtask nor a *)
(* worker asleep at the wrong moment leaves the tool call hanging.         *)
BatchSettles == <>(outcome # "pending")

(* While no worker has thrown and the task is not cancelled, a subtask     *)
(* whose dependencies have completed is taken by some worker.              *)
ReadyIsEventuallyTaken ==
  \A t \in Tasks :
    t \in queue.ready ~> \/ t \notin queue.pending
                         \/ \E w \in Workers : worker[w] = "rejected"

(* The pool keeps the promise of SubtaskSchedule.                          *)
Schedule ==
  INSTANCE SubtaskSchedule
    WITH width  <- Cardinality({w \in Workers : worker[w] # "absent"}),
         status <- [t \in Tasks |-> TaskLifecycleState(queue, deps, t)]

ImplementsSchedule == Schedule!Spec
=============================================================================
