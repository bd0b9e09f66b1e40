--------------------------- MODULE AgentPoolProofs ---------------------------
(***************************************************************************)
(* Safety of the agent pool for every finite set of subtasks, every        *)
(* dependency graph, every worker limit and every ceiling.                 *)
(*                                                                         *)
(* A worker goes round its loop in the same step in which its subtask      *)
(* ended, so the invariant is stated of arbitrary values (PoolInv): it is  *)
(* shown to hold half-way through such a step, of the queue complete()     *)
(* left and with the worker at the loop's head, and LoopHead is then shown *)
(* to preserve it once for all its uses.  The last part shows that the     *)
(* pool implements SubtaskSchedule, step by step.                          *)
(***************************************************************************)
EXTENDS AgentPool, FiniteSetTheorems, TLAPS

PoolType(d, q, ws, jb, rm, out) ==
  /\ d \in Plan
  /\ q \in Queue
  /\ ws \in [Workers -> WorkerState]
  /\ jb \in [Workers -> Tasks \cup {None}]
  /\ rm \in [Tasks -> {"none", "ok", "failed"}]
  /\ out \in Outcome

(* The queue: its four life-cycle sets, the order of the dependencies, and *)
(* the results recorded of it.                                             *)
QueueInv(d, q, rm) ==
  /\ q.ready = {t \in q.pending : d[t] \subseteq q.completed}
  /\ \A t \in Tasks \ q.pending : d[t] \subseteq q.completed
  /\ Tasks = q.pending \cup q.running \cup q.completed \cup q.failed
  /\ q.pending \cap (q.running \cup q.completed \cup q.failed) = {}
  /\ q.running \cap (q.completed \cup q.failed) = {}
  /\ q.completed \cap q.failed = {}
  /\ \A t \in Tasks : t \in q.completed <=> rm[t] = "ok"
  /\ \A t \in Tasks : t \in q.failed <=> rm[t] = "failed"

(* The workers against the queue.                                          *)
JobInv(q, ws, jb) ==
  /\ \A w \in Workers : ws[w] = "running" <=> jb[w] # None
  /\ \A w \in Workers : ws[w] = "running" => jb[w] \in q.running
  /\ \A v, w \in Workers :
       ws[v] = "running" /\ ws[w] = "running" /\ jb[v] = jb[w] => v = w

(* Sleeping, leaving and settling: a sleeper has nothing to take; until a  *)
(* worker throws every running task has its worker and every sleeper a     *)
(* task to wait for; a worker that returned left nothing to do; and a      *)
(* settled batch stays as it was.                                          *)
WakeInv(q, ws, jb, out) ==
  /\ (\E w \in Workers : ws[w] = "waiting") => q.ready = {}
  /\ (\E w \in Workers : ws[w] = "waiting") /\ out = "pending" => q.running # {}
  /\ out = "pending" =>
       \A t \in q.running : \E w \in Workers : ws[w] = "running" /\ jb[w] = t
  /\ (\E w \in Workers : ws[w] = "returned") => q.ready = {} /\ q.running = {}
  /\ \E w \in Workers : ws[w] # "absent"
  /\ q.failed # {} => out \in {"failed", "aborted"}
  /\ out \in {"resolved", "deadlock"} =>
       /\ \A w \in Workers : ws[w] \in {"absent", "returned"}
       /\ q.running = {} /\ q.ready = {}
  /\ out = "resolved" => q.pending = {}

PoolInv(d, q, ws, jb, rm, out) ==
  /\ PoolType(d, q, ws, jb, rm, out)
  /\ QueueInv(d, q, rm)
  /\ JobInv(q, ws, jb)
  /\ WakeInv(q, ws, jb, out)

IInv == PoolInv(deps, queue, worker, job, resultMap, outcome) /\ aborted \in BOOLEAN

-----------------------------------------------------------------------------
(* The first worker exists and is started: workerCountFor is at least one. *)
LEMMA SomeWorkerStarts ==
  ASSUME NEW limit, NEW plan, NEW ceiling
  PROVE  1 \in Workers /\ 1 <= WorkerCountFor(limit, plan, ceiling)
<1>1. Cardinality(Tasks) \in Nat /\ Cardinality(Tasks) # 0
  BY TasksAssumption, FS_CardinalityType, FS_EmptySet
<1>2. 1 \in Workers
  BY <1>1 DEF Workers
<1>3. ASSUME NEW n PROVE 1 <= Larger(1, n)
  BY DEF Larger
<1>4. QED
  BY <1>2, <1>3 DEF WorkerCountFor

(* The strengthened invariant holds at the start.                          *)
LEMMA InitInv == Init => IInv
<1> SUFFICES ASSUME Init PROVE IInv
  OBVIOUS
<1>1. deps \in Plan
  BY PoolAssumption DEF Init
<1>2. PoolType(deps, queue, worker, job, resultMap, outcome)
  <2>1. queue \in Queue
    BY <1>1 DEF Init, CreateReadyQueue, Queue
  <2>2. worker \in [Workers -> WorkerState]
    BY DEF Init, WorkerState
  <2>3. QED
    BY <1>1, <2>1, <2>2 DEF Init, PoolType, Outcome
<1>3. QueueInv(deps, queue, resultMap)
  BY <1>1 DEF Init, QueueInv, CreateReadyQueue, Plan
<1>4. JobInv(queue, worker, job)
  BY DEF Init, JobInv
<1>5. WakeInv(queue, worker, job, outcome)
  <2>1. worker[1] # "absent" /\ 1 \in Workers
    BY SomeWorkerStarts DEF Init
  <2>2. \A w \in Workers : worker[w] \in {"starting", "absent"}
    BY DEF Init
  <2>3. QED
    BY <2>1, <2>2 DEF Init, WakeInv, CreateReadyQueue
<1>6. QED
  BY <1>2, <1>3, <1>4, <1>5 DEF IInv, PoolInv, Init

(* LoopHead as a relation between constants: worker w goes from the head   *)
(* of its loop, at queue q, workers ws, jobs jb and outcome out, to its    *)
(* next await.                                                             *)
LoopStep(w, q, ws, jb, out, q2, ws2, jb2, out2) ==
  \/ /\ q2 = q
     /\ jb2 = [jb EXCEPT ![w] = None]
     /\ \E s \in {"rejected", "returned", "waiting"} :
          /\ ws2 = [ws EXCEPT ![w] = s]
          /\ s = "rejected" => out2 = IF out = "pending" THEN "aborted" ELSE out
          /\ s # "rejected" => out2 = out /\ q.ready = {}
          /\ s = "returned" => q.running = {}
          /\ s = "waiting" => q.running # {}
  \/ \E t \in q.ready :
          /\ q2 = Take(q, t)
          /\ ws2 = [Broadcast(ws) EXCEPT ![w] = "running"]
          /\ jb2 = [jb EXCEPT ![w] = t]
          /\ out2 = out

(* The loop preserves the invariant, from a queue q and workers ws in      *)
(* which w stands at the head of its loop and the batch is not settled.    *)
LEMMA LoopStepInv ==
  ASSUME NEW d, NEW w \in Workers, NEW q, NEW ws, NEW jb, NEW rm, NEW out,
         NEW q2, NEW ws2, NEW jb2, NEW out2,
         ws[w] \in {"starting", "awake"},
         PoolInv(d, q, ws, jb, rm, out),
         LoopStep(w, q, ws, jb, out, q2, ws2, jb2, out2)
  PROVE  PoolInv(d, q2, ws2, jb2, rm, out2)
<1>t. PoolType(d, q, ws, jb, rm, out) /\ QueueInv(d, q, rm)
      /\ JobInv(q, ws, jb) /\ WakeInv(q, ws, jb, out)
  BY DEF PoolInv
<1>u. out \notin {"resolved", "deadlock"}
  BY <1>t DEF WakeInv
<1>j. jb[w] = None /\ jb \in [Workers -> Tasks \cup {None}]
  BY <1>t DEF PoolType, JobInv
<1>1. ASSUME q2 = q, jb2 = [jb EXCEPT ![w] = None],
             NEW s \in {"rejected", "returned", "waiting"},
             ws2 = [ws EXCEPT ![w] = s],
             s = "rejected" => out2 = IF out = "pending" THEN "aborted" ELSE out,
             s # "rejected" => out2 = out /\ q.ready = {},
             s = "returned" => q.running = {},
             s = "waiting" => q.running # {}
      PROVE  PoolInv(d, q2, ws2, jb2, rm, out2)
  <2>1. jb2 = jb
    BY <1>1, <1>j
  <2>2. \A v \in Workers : ws2[v] = IF v = w THEN s ELSE ws[v]
    BY <1>t, <1>1 DEF PoolType
  <2>3. PoolType(d, q2, ws2, jb2, rm, out2)
    BY <1>1, <1>t, <2>1 DEF PoolType, WorkerState, Outcome
  <2>4. JobInv(q2, ws2, jb2)
    BY <1>1, <1>t, <1>j, <2>1, <2>2 DEF JobInv
  <2>5. WakeInv(q2, ws2, jb2, out2)
    BY <1>1, <1>t, <1>u, <2>1, <2>2 DEF WakeInv
  <2>6. QED
    BY <1>1, <1>t, <2>3, <2>4, <2>5 DEF PoolInv
<1>2. ASSUME NEW t \in q.ready,
             q2 = Take(q, t),
             ws2 = [Broadcast(ws) EXCEPT ![w] = "running"],
             jb2 = [jb EXCEPT ![w] = t],
             out2 = out
      PROVE  PoolInv(d, q2, ws2, jb2, rm, out2)
  <2>1. /\ t \in Tasks /\ t \in q.pending /\ t \notin q.running
        /\ d[t] \subseteq q.completed /\ t # None
    BY <1>t, PoolAssumption DEF QueueInv, PoolType, Queue
  <2>2. /\ q2 \in Queue
        /\ q2.pending = q.pending \ {t}
        /\ q2.ready = q.ready \ {t}
        /\ q2.running = q.running \cup {t}
        /\ q2.completed = q.completed
        /\ q2.failed = q.failed
    BY <1>2, <1>t, <2>1 DEF PoolType, Queue, Take
  <2>3. \A v \in Workers :
           ws2[v] = IF v = w THEN "running"
                        ELSE IF ws[v] = "waiting" THEN "awake" ELSE ws[v]
    BY <1>2 DEF Broadcast
  <2>4. \A v \in Workers : jb2[v] = IF v = w THEN t ELSE jb[v]
    BY <1>2, <1>j
  <2>5. PoolType(d, q2, ws2, jb2, rm, out2)
    <3>1. ws2 \in [Workers -> WorkerState]
      BY <1>2, <1>t DEF Broadcast, PoolType, WorkerState
    <3>2. jb2 \in [Workers -> Tasks \cup {None}]
      BY <1>2, <1>j, <2>1
    <3>3. QED
      BY <1>2, <1>t, <2>2, <3>1, <3>2 DEF PoolType
  <2>6. QueueInv(d, q2, rm)
    BY <1>t, <2>1, <2>2 DEF QueueInv
  <2>7. JobInv(q2, ws2, jb2)
    BY <1>t, <2>1, <2>2, <2>3, <2>4 DEF JobInv
  <2>8. WakeInv(q2, ws2, jb2, out2)
    <3>1. \A v \in Workers : ws2[v] # "waiting"
      BY <2>3
    <3>2. \A v \in Workers : ws2[v] # "returned"
      BY <1>t, <2>3 DEF WakeInv
    <3>3. out2 = "pending" =>
            \A u \in q2.running :
               \E v \in Workers : ws2[v] = "running" /\ jb2[v] = u
      <4> SUFFICES ASSUME out2 = "pending", NEW u \in q2.running
                   PROVE  \E v \in Workers : ws2[v] = "running" /\ jb2[v] = u
        OBVIOUS
      <4>1. CASE u = t
        BY <4>1, <2>3, <2>4
      <4>2. CASE u # t
        <5>1. PICK v \in Workers : ws[v] = "running" /\ jb[v] = u
          BY <4>2, <1>2, <1>t, <2>2 DEF WakeInv
        <5>2. v # w
          BY <5>1
        <5>3. QED
          BY <5>1, <5>2, <2>3, <2>4
      <4>3. QED
        BY <4>1, <4>2
    <3>4. QED
      BY <1>2, <1>t, <1>u, <2>2, <2>3, <3>1, <3>2, <3>3 DEF WakeInv
  <2>9. QED
    BY <2>5, <2>6, <2>7, <2>8 DEF PoolInv
<1>3. QED
  BY <1>1, <1>2 DEF LoopStep

-----------------------------------------------------------------------------
(* A scheduler's turn, which starts what is free, keeps it.                *)
LEMMA TurnInv ==
  ASSUME IInv, NEW w \in Workers, Turn(w)
  PROVE  IInv'
<1>1. /\ PoolInv(deps, queue, worker, job, resultMap, outcome)
      /\ worker[w] \in {"starting", "awake"}
      /\ deps' = deps /\ resultMap' = resultMap /\ aborted' = aborted
  BY DEF Turn, IInv
<1>2. LoopStep(w, queue, worker, job, outcome, queue', worker', job', outcome')
  BY DEF Turn, LoopHead, LoopStep, Leave, Rejected
<1>3. PoolInv(deps, queue', worker', job', resultMap, outcome')
  BY <1>1, <1>2, LoopStepInv
<1>4. QED
  BY <1>1, <1>3 DEF IInv

(* The effect of a successful complete() on the queue.                     *)
LEMMA CompleteOk ==
  ASSUME IInv, NEW t \in queue.running
  PROVE  LET q == Complete(queue, deps, t, TRUE)
             rm == [resultMap EXCEPT ![t] = "ok"]
         IN  /\ q \in Queue
             /\ QueueInv(deps, q, rm)
             /\ q.running = queue.running \ {t}
             /\ q.pending = queue.pending
             /\ q.failed = queue.failed
<1> DEFINE q == Complete(queue, deps, t, TRUE)
           rm == [resultMap EXCEPT ![t] = "ok"]
           done == [queue EXCEPT !.running = @ \ {t}, !.completed = @ \cup {t}]
<1>1. queue \in Queue /\ QueueInv(deps, queue, resultMap) /\ deps \in Plan
      /\ resultMap \in [Tasks -> {"none", "ok", "failed"}]
  BY DEF IInv, PoolInv, PoolType
<1>2. t \in Tasks /\ t \notin queue.pending /\ t \notin queue.failed
  BY <1>1 DEF QueueInv, Queue
<1>3. /\ done \in Queue
      /\ done.pending = queue.pending /\ done.ready = queue.ready
      /\ done.running = queue.running \ {t}
      /\ done.completed = queue.completed \cup {t}
      /\ done.failed = queue.failed
  BY <1>1, <1>2 DEF Queue
<1>4. /\ q = [done EXCEPT !.ready = done.ready \cup NewlyReady(done, deps, t)]
      /\ NewlyReady(done, deps, t) \subseteq Tasks
  BY DEF Complete, NewlyReady, Dependents
<1>5. /\ q \in Queue
      /\ q.ready = queue.ready \cup NewlyReady(done, deps, t)
      /\ q.pending = queue.pending /\ q.failed = queue.failed
      /\ q.running = queue.running \ {t}
      /\ q.completed = queue.completed \cup {t}
  <2>1. ASSUME NEW r \in Queue, NEW S \in SUBSET Tasks
        PROVE  LET m == [r EXCEPT !.ready = r.ready \cup S]
               IN  /\ m \in Queue /\ m.ready = r.ready \cup S
                   /\ m.pending = r.pending /\ m.running = r.running
                   /\ m.completed = r.completed /\ m.failed = r.failed
    BY DEF Queue
  <2>. HIDE DEF q, done
  <2>. QED
    BY <1>3, <1>4, <2>1
<1>6. q.ready = {u \in q.pending : deps[u] \subseteq q.completed}
  <2>1. NewlyReady(done, deps, t)
          = {u \in Tasks : /\ t \in deps[u] /\ u \in queue.pending
                           /\ deps[u] \subseteq queue.completed \cup {t}}
    BY <1>3 DEF NewlyReady, Dependents
  <2>2. queue.ready = {u \in queue.pending : deps[u] \subseteq queue.completed}
        /\ queue.pending \subseteq Tasks
    BY <1>1 DEF QueueInv, Queue
  <2>3. \A u \in queue.pending :
          deps[u] \subseteq queue.completed \cup {t} /\ t \notin deps[u]
            => deps[u] \subseteq queue.completed
    OBVIOUS
  <2>4. QED
    BY <1>5, <2>1, <2>2, <2>3
<1>7. QueueInv(deps, q, rm)
  <2>1. \A u \in Tasks : rm[u] = IF u = t THEN "ok" ELSE resultMap[u]
    BY <1>1
  <2> HIDE DEF q, rm, done
  <2>2. \A u \in Tasks : (u \in q.completed <=> rm[u] = "ok")
                       /\ (u \in q.failed <=> rm[u] = "failed")
    BY <1>1, <1>2, <1>5, <2>1 DEF QueueInv
  <2>3. \A u \in Tasks \ q.pending : deps[u] \subseteq q.completed
    BY <1>1, <1>5 DEF QueueInv
  <2>4. /\ Tasks = q.pending \cup q.running \cup q.completed \cup q.failed
        /\ q.pending \cap (q.running \cup q.completed \cup q.failed) = {}
        /\ q.running \cap (q.completed \cup q.failed) = {}
        /\ q.completed \cap q.failed = {}
    BY <1>1, <1>2, <1>5 DEF QueueInv
  <2>5. QED
    BY <1>6, <2>2, <2>3, <2>4 DEF QueueInv
<1>8. QED
  BY <1>5, <1>7

(* What a worker whose subtask succeeded does before it is back at the     *)
(* head of its loop keeps the invariant, and the rest of the step is the   *)
(* loop's.                                                                 *)
LEMMA SuccessReturnsToLoop ==
  ASSUME IInv, NEW w \in Workers, SubtaskSucceeds(w)
  PROVE  LET q  == Complete(queue, deps, job[w], TRUE)
             ws == [Broadcast(worker) EXCEPT ![w] = "awake"]
             jb == [job EXCEPT ![w] = None]
             rm == [resultMap EXCEPT ![job[w]] = "ok"]
         IN  /\ PoolInv(deps, q, ws, jb, rm, outcome)
             /\ LoopStep(w, q, ws, jb, outcome, queue', worker', job', outcome')
             /\ ws[w] = "awake"
<1> DEFINE q == Complete(queue, deps, job[w], TRUE)
           ws == [Broadcast(worker) EXCEPT ![w] = "awake"]
           jb == [job EXCEPT ![w] = None]
           rm == [resultMap EXCEPT ![job[w]] = "ok"]
<1>1. /\ job[w] \in queue.running /\ job[w] \in Tasks /\ job[w] # None
      /\ worker[w] = "running"
      /\ PoolType(deps, queue, worker, job, resultMap, outcome)
      /\ JobInv(queue, worker, job)
      /\ WakeInv(queue, worker, job, outcome)
  BY PoolAssumption DEF SubtaskSucceeds, IInv, PoolInv, JobInv, PoolType
<1>2. /\ q \in Queue /\ QueueInv(deps, q, rm)
      /\ q.running = queue.running \ {job[w]}
      /\ q.pending = queue.pending /\ q.failed = queue.failed
  BY <1>1, CompleteOk
<1>3. \A v \in Workers :
         /\ ws[v] = IF v = w THEN "awake"
                    ELSE IF worker[v] = "waiting" THEN "awake" ELSE worker[v]
         /\ jb[v] = IF v = w THEN None ELSE job[v]
  BY <1>1 DEF Broadcast, PoolType
<1>4. PoolType(deps, q, ws, jb, rm, outcome)
  BY <1>1, <1>2 DEF PoolType, Broadcast, WorkerState
<1>5. JobInv(q, ws, jb)
  <2> HIDE DEF q, ws, jb
  <2>1. \A v \in Workers : ws[v] = "running" <=> v # w /\ worker[v] = "running"
    BY <1>3
  <2>2. \A v \in Workers : v # w => jb[v] = job[v]
    BY <1>3
  <2>3. \A v \in Workers : ws[v] = "running" => job[v] \in queue.running \ {job[w]}
    BY <1>1, <2>1 DEF JobInv
  <2>4. QED
    BY <1>1, <1>2, <1>3, <2>1, <2>2, <2>3 DEF JobInv
<1>6. WakeInv(q, ws, jb, outcome)
  <2>1. outcome \notin {"resolved", "deadlock"}
    BY <1>1 DEF WakeInv
  <2>2. \A v \in Workers : ws[v] \notin {"waiting", "returned"}
    BY <1>1, <1>3 DEF WakeInv
  <2>3. outcome = "pending" =>
          \A u \in q.running : \E v \in Workers : ws[v] = "running" /\ jb[v] = u
    <3> SUFFICES ASSUME outcome = "pending", NEW u \in q.running
                 PROVE  \E v \in Workers : ws[v] = "running" /\ jb[v] = u
      OBVIOUS
    <3>1. PICK v \in Workers : worker[v] = "running" /\ job[v] = u
      BY <1>1, <1>2 DEF WakeInv
    <3>2. v # w
      BY <1>2, <3>1
    <3>3. QED
      BY <1>3, <3>1, <3>2
  <2>4. ws[w] # "absent"
    BY <1>3
  <2>5. QED
    BY <1>1, <1>2, <2>1, <2>2, <2>3, <2>4 DEF WakeInv
<1>7. PoolInv(deps, q, ws, jb, rm, outcome)
  BY <1>2, <1>4, <1>5, <1>6 DEF PoolInv
<1>8. LoopStep(w, q, ws, jb, outcome, queue', worker', job', outcome')
  <2>1. LoopHead(w, q, Broadcast(worker))
    BY DEF SubtaskSucceeds
  <2>2. \A s : [ws EXCEPT ![w] = s] = [Broadcast(worker) EXCEPT ![w] = s]
    BY DEF Broadcast
  <2>3. [Broadcast(ws) EXCEPT ![w] = "running"]
          = [Broadcast(Broadcast(worker)) EXCEPT ![w] = "running"]
    BY DEF Broadcast
  <2>4. \A t : [jb EXCEPT ![w] = t] = [job EXCEPT ![w] = t]
    OBVIOUS
  <2> HIDE DEF q, ws, jb
  <2>5. QED
    BY <2>1, <2>2, <2>3, <2>4 DEF LoopHead, LoopStep, Leave, Rejected
<1>9. QED
  BY <1>3, <1>7, <1>8

(* A subtask that succeeds, and wakes the waiting workers, keeps it.       *)
LEMMA SubtaskSucceedsInv ==
  ASSUME IInv, NEW w \in Workers, SubtaskSucceeds(w)
  PROVE  IInv'
<1> DEFINE q == Complete(queue, deps, job[w], TRUE)
           ws == [Broadcast(worker) EXCEPT ![w] = "awake"]
           jb == [job EXCEPT ![w] = None]
           rm == [resultMap EXCEPT ![job[w]] = "ok"]
<1>1. /\ PoolInv(deps, q, ws, jb, rm, outcome)
      /\ LoopStep(w, q, ws, jb, outcome, queue', worker', job', outcome')
      /\ ws[w] = "awake"
  BY SuccessReturnsToLoop
<1>2. resultMap' = rm /\ deps' = deps /\ aborted' = aborted
  BY DEF SubtaskSucceeds
<1> HIDE DEF q, ws, jb, rm
<1>3. PoolInv(deps, queue', worker', job', rm, outcome')
  BY <1>1, LoopStepInv
<1>4. QED
  BY <1>2, <1>3 DEF IInv

(* A subtask that fails keeps it.                                          *)
LEMMA SubtaskFailsInv ==
  ASSUME IInv, NEW w \in Workers, SubtaskFails(w)
  PROVE  IInv'
<1>1. /\ PoolType(deps, queue, worker, job, resultMap, outcome)
      /\ QueueInv(deps, queue, resultMap)
      /\ JobInv(queue, worker, job)
      /\ WakeInv(queue, worker, job, outcome)
      /\ worker[w] = "running" /\ job[w] \in queue.running
      /\ job[w] \in Tasks
  BY DEF IInv, PoolInv, JobInv, PoolType, Queue, SubtaskFails
<1>2. /\ queue' \in Queue
      /\ queue'.pending = queue.pending /\ queue'.ready = queue.ready
      /\ queue'.running = queue.running \ {job[w]}
      /\ queue'.completed = queue.completed
      /\ queue'.failed = queue.failed \cup {job[w]}
  BY <1>1 DEF SubtaskFails, Complete, PoolType, Queue
<1>3. \A v \in Workers : /\ worker'[v] = IF v = w THEN "rejected" ELSE worker[v]
                         /\ job'[v] = IF v = w THEN None ELSE job[v]
  BY <1>1 DEF SubtaskFails, Leave, PoolType
<1>4. \A u \in Tasks : resultMap'[u] = IF u = job[w] THEN "failed" ELSE resultMap[u]
  BY <1>1 DEF SubtaskFails, PoolType
<1>5. outcome \notin {"resolved", "deadlock"} /\ outcome' \in {"failed", "aborted"}
  BY <1>1 DEF WakeInv, PoolType, Outcome, SubtaskFails, Rejected
<1>6. PoolType(deps', queue', worker', job', resultMap', outcome')
  BY <1>1, <1>2, <1>5 DEF PoolType, SubtaskFails, Leave, WorkerState, Outcome
<1>7. QueueInv(deps', queue', resultMap')
  <2>1. deps' = deps
    BY DEF SubtaskFails
  <2>2. \A u \in Tasks : (u \in queue'.completed <=> resultMap'[u] = "ok")
                       /\ (u \in queue'.failed <=> resultMap'[u] = "failed")
    BY <1>1, <1>2, <1>4 DEF QueueInv
  <2>3. QED
    BY <1>1, <1>2, <2>1, <2>2 DEF QueueInv
<1>8. JobInv(queue', worker', job')
  <2>1. \A v \in Workers : worker'[v] = "running" => v # w /\ worker[v] = "running"
    BY <1>3
  <2>2. \A v \in Workers : worker'[v] = "running" => job'[v] \in queue'.running
    BY <1>1, <1>2, <1>3, <2>1 DEF JobInv
  <2>3. QED
    BY <1>1, <1>3, <2>1, <2>2 DEF JobInv
<1>9. WakeInv(queue', worker', job', outcome')
  BY <1>1, <1>2, <1>3, <1>5 DEF WakeInv
<1>10. QED
  BY <1>6, <1>7, <1>8, <1>9 DEF IInv, PoolInv, SubtaskFails

(* A subtask that throws, and costs its worker, keeps it.                  *)
LEMMA SubtaskThrowsInv ==
  ASSUME IInv, NEW w \in Workers, SubtaskThrows(w)
  PROVE  IInv'
<1>1. /\ PoolType(deps, queue, worker, job, resultMap, outcome)
      /\ QueueInv(deps, queue, resultMap)
      /\ JobInv(queue, worker, job)
      /\ WakeInv(queue, worker, job, outcome)
      /\ worker[w] = "running"
      /\ deps' = deps /\ queue' = queue /\ resultMap' = resultMap
  BY DEF IInv, PoolInv, SubtaskThrows
<1>2. \A v \in Workers : /\ worker'[v] = IF v = w THEN "rejected" ELSE worker[v]
                         /\ job'[v] = IF v = w THEN None ELSE job[v]
  BY <1>1 DEF SubtaskThrows, Leave, PoolType
<1>3. outcome \notin {"resolved", "deadlock"} /\ outcome' \in {"failed", "aborted"}
  BY <1>1 DEF WakeInv, PoolType, Outcome, SubtaskThrows, Rejected
<1>4. PoolType(deps', queue', worker', job', resultMap', outcome')
  BY <1>1, <1>3 DEF PoolType, SubtaskThrows, Leave, WorkerState, Outcome
<1>5. JobInv(queue', worker', job')
  BY <1>1, <1>2 DEF JobInv
<1>6. WakeInv(queue', worker', job', outcome')
  BY <1>1, <1>2, <1>3 DEF WakeInv
<1>7. QED
  BY <1>1, <1>4, <1>5, <1>6 DEF IInv, PoolInv, SubtaskThrows

(* The end of the batch keeps it.                                          *)
LEMMA SettleInv == IInv /\ Settle => IInv'
<1> SUFFICES ASSUME IInv, Settle PROVE IInv'
  OBVIOUS
<1>1. /\ PoolType(deps, queue, worker, job, resultMap, outcome)
      /\ QueueInv(deps, queue, resultMap)
      /\ JobInv(queue, worker, job)
      /\ WakeInv(queue, worker, job, outcome)
      /\ deps' = deps /\ queue' = queue /\ resultMap' = resultMap
      /\ worker' = worker /\ job' = job /\ aborted' = aborted
  BY DEF IInv, PoolInv, Settle
<1>2. queue.ready = {} /\ queue.running = {} /\ queue.failed = {}
  <2>1. PICK w \in Workers : worker[w] # "absent"
    BY <1>1 DEF WakeInv
  <2>2. worker[w] = "returned"
    BY <2>1 DEF Settle
  <2>3. QED
    BY <1>1, <2>2 DEF WakeInv, Settle
<1>3. WakeInv(queue', worker', job', outcome')
  BY <1>1, <1>2 DEF WakeInv, Settle
<1>4. PoolType(deps', queue', worker', job', resultMap', outcome')
  BY <1>1 DEF PoolType, Settle, Outcome
<1>5. QED
  BY <1>1, <1>3, <1>4 DEF IInv, PoolInv

(* Every step keeps the strengthened invariant.                            *)
LEMMA NextInv == IInv /\ [Next]_vars => IInv'
<1> SUFFICES ASSUME IInv, [Next]_vars PROVE IInv'
  OBVIOUS
<1>1. ASSUME NEW w \in Workers, Turn(w) PROVE IInv'
  BY <1>1, TurnInv
<1>2. ASSUME NEW w \in Workers, SubtaskEnds(w) PROVE IInv'
  BY <1>2, SubtaskSucceedsInv, SubtaskFailsInv, SubtaskThrowsInv DEF SubtaskEnds
<1>3. CASE Settle
  BY <1>3, SettleInv
<1>4. CASE Abort
  BY <1>4 DEF Abort, IInv
<1>5. CASE UNCHANGED vars
  BY <1>5 DEF vars, IInv
<1>6. QED
  BY <1>1, <1>2, <1>3, <1>4, <1>5 DEF Next, Quiescent

(* The strengthened invariant holds always.                                *)
THEOREM PoolInvariant == Spec => []IInv
<1>1. Init => IInv
  BY InitInv
<1>2. IInv /\ [Next]_vars => IInv'
  BY NextInv
<1>3. QED
  BY <1>1, <1>2, PTL DEF Spec

-----------------------------------------------------------------------------
(* Every variable keeps its type.                                          *)
THEOREM TypeCorrect == Spec => []TypeOK
<1>1. IInv => TypeOK
  BY DEF IInv, PoolInv, PoolType, TypeOK
<1>2. QED
  BY <1>1, PoolInvariant, PTL

(* A subtask starts only after all it depends on, for every plan.          *)
THEOREM DependencyOrderHolds == Spec => []DependencyOrder
<1>1. IInv => DependencyOrder
  BY DEF IInv, PoolInv, QueueInv, DependencyOrder
<1>2. QED
  BY <1>1, PoolInvariant, PTL

(* The incremental ready set equals its definition.                        *)
THEOREM ReadyIsExactHolds == Spec => []ReadyIsExact
<1>1. IInv => ReadyIsExact
  BY DEF IInv, PoolInv, QueueInv, ReadyIsExact
<1>2. QED
  BY <1>1, PoolInvariant, PTL

(* No subtask has two workers, or two life-cycle states.                   *)
THEOREM OneWorkerHolds == Spec => []TasksOwned
<1>1. IInv => TasksOwned
  BY DEF IInv, PoolInv, JobInv, QueueInv, TasksOwned, OneWorkerPerTask, TasksPartitioned
<1>2. QED
  BY <1>1, PoolInvariant, PTL

(* No wake-up is lost between a worker's check of the queue and its wait.  *)
THEOREM NoLostWakeupHolds == Spec => []NoLostWakeup
<1>1. IInv => NoLostWakeup
  BY DEF IInv, PoolInv, WakeInv, NoLostWakeup
<1>2. QED
  BY <1>1, PoolInvariant, PTL

(* A batch reported done is done.                                          *)
THEOREM ResolvedHolds == Spec => []ResolvedMeansAllDone
<1>1. IInv => ResolvedMeansAllDone
  <2> SUFFICES ASSUME IInv, outcome = "resolved"
               PROVE  queue.completed = Tasks /\ \A t \in Tasks : resultMap[t] = "ok"
    BY DEF ResolvedMeansAllDone
  <2>1. queue.pending = {} /\ queue.running = {} /\ queue.failed = {}
    BY DEF IInv, PoolInv, WakeInv
  <2>2. QED
    BY <2>1 DEF IInv, PoolInv, QueueInv
<1>2. QED
  BY <1>1, PoolInvariant, PTL

(* "Deadlock" is reported only of what a cycle keeps from running.         *)
THEOREM DeadlockHolds == Spec => []DeadlockOnlyIfCyclic
<1>1. IInv => DeadlockOnlyIfCyclic
  <2> SUFFICES ASSUME IInv, outcome = "deadlock"
               PROVE  /\ queue.running = {} /\ queue.failed = {}
                      /\ \A t \in queue.pending : deps[t] \cap queue.pending # {}
    BY DEF DeadlockOnlyIfCyclic
  <2>1. queue.ready = {} /\ queue.running = {} /\ queue.failed = {}
    BY DEF IInv, PoolInv, WakeInv
  <2>2. ASSUME NEW t \in queue.pending PROVE deps[t] \cap queue.pending # {}
    <3>1. t \in Tasks /\ deps[t] \subseteq Tasks
      BY DEF IInv, PoolInv, PoolType, Plan, Queue
    <3>2. PICK d \in deps[t] : d \notin queue.completed
      BY <2>1 DEF IInv, PoolInv, QueueInv
    <3>3. d \in queue.pending
      BY <2>1, <3>1, <3>2 DEF IInv, PoolInv, QueueInv
    <3>4. QED
      BY <3>2, <3>3
  <2>3. QED
    BY <2>1, <2>2
<1>2. QED
  BY <1>1, PoolInvariant, PTL

(* No task is run twice, no result overwritten, no settled promise settled *)
(* again.                                                                  *)
THEOREM RunsAtMostOnceHolds == Spec => RunsAtMostOnce
<1> DEFINE Once == /\ queue.pending' \subseteq queue.pending
                   /\ \A t \in Tasks : resultMap[t] # "none" => resultMap'[t] = resultMap[t]
                   /\ outcome # "pending" => outcome' = outcome
<1>1. IInv /\ [Next]_vars => [Once]_vars
  <2> SUFFICES ASSUME IInv, Next PROVE Once
    OBVIOUS
  <2>1. /\ queue \in Queue /\ deps \in Plan
        /\ resultMap \in [Tasks -> {"none", "ok", "failed"}]
    BY DEF IInv, PoolInv, PoolType
  <2>2. ASSUME NEW w \in Workers, NEW q, NEW ws, q \in Queue, LoopHead(w, q, ws)
        PROVE  /\ queue'.pending \subseteq q.pending
               /\ outcome # "pending" => outcome' = outcome
    <3>1. \A t \in Tasks : Take(q, t).pending \subseteq q.pending
      BY <2>2 DEF Take, Queue
    <3>2. q.ready \subseteq Tasks
      BY <2>2 DEF Queue
    <3>3. QED
      BY <2>2, <3>1, <3>2 DEF LoopHead, Rejected
  <2>3. ASSUME NEW w \in Workers, Turn(w) PROVE Once
    BY <2>1, <2>2, <2>3 DEF Turn
  <2>4. ASSUME NEW w \in Workers, worker[w] = "running"
        PROVE  /\ job[w] \in queue.running /\ job[w] \in Tasks
               /\ resultMap[job[w]] = "none"
    <3>1. job[w] \in queue.running /\ job[w] \in Tasks
      BY <2>1, <2>4 DEF IInv, PoolInv, JobInv, Queue
    <3>2. job[w] \notin queue.completed /\ job[w] \notin queue.failed
      BY <3>1 DEF IInv, PoolInv, QueueInv
    <3>3. QED
      BY <2>1, <3>1, <3>2 DEF IInv, PoolInv, QueueInv
  <2>5. ASSUME NEW w \in Workers, SubtaskSucceeds(w) PROVE Once
    <3> DEFINE q == Complete(queue, deps, job[w], TRUE)
    <3>1. q \in Queue /\ q.pending = queue.pending
      BY <2>4, <2>5, CompleteOk DEF SubtaskSucceeds
    <3>2. LoopHead(w, q, Broadcast(worker))
      BY <2>5 DEF SubtaskSucceeds
    <3>3. /\ queue'.pending \subseteq q.pending
          /\ outcome # "pending" => outcome' = outcome
      <4>1. q.ready \subseteq Tasks
        BY <3>1 DEF Queue
      <4>2. \A t \in Tasks : Take(q, t).pending \subseteq q.pending
        <5> HIDE DEF q
        <5> QED
          BY <3>1 DEF Take, Queue
      <4> HIDE DEF q
      <4>3. QED
        BY <3>2, <4>1, <4>2 DEF LoopHead, Rejected
    <3>4. QED
      BY <2>1, <2>4, <2>5, <3>1, <3>3 DEF SubtaskSucceeds
  <2>6. ASSUME NEW w \in Workers, SubtaskFails(w) PROVE Once
    BY <2>1, <2>4, <2>6 DEF SubtaskFails, Complete, Rejected, Queue
  <2>7. ASSUME NEW w \in Workers, SubtaskThrows(w) PROVE Once
    BY <2>7 DEF SubtaskThrows, Rejected
  <2>8. CASE Settle \/ Abort \/ Quiescent
    BY <2>8 DEF Settle, Abort, Quiescent, vars
  <2>9. QED
    BY <2>3, <2>5, <2>6, <2>7, <2>8 DEF Next, SubtaskEnds
<1>2. QED
  BY <1>1, PoolInvariant, PTL DEF Spec, RunsAtMostOnce

-----------------------------------------------------------------------------
(* SubtaskSchedule's view of the pool, as a function of the values of its  *)
(* variables: the states of the subtasks, and the workers that exist.      *)
StatusOf(d, q) == [t \in Tasks |-> TaskLifecycleState(q, d, t)]

Present(ws) == {w \in Workers : ws[w] # "absent"}

Occupied(ws) == {w \in Workers : ws[w] \in {"running", "rejected"}}

(* A subtask the queue calls running has a worker, or cost one: the worker *)
(* that threw without complete() left the loop for good.                   *)
RoomInv(q, ws) ==
  IsFiniteSet(q.running) /\ Cardinality(q.running) <= Cardinality(Occupied(ws))

Room == RoomInv(queue, worker)

(* What runs is a finite set, whose size can be counted.                   *)
LEMMA WorkersAreFinite ==
  ASSUME NEW ws
  PROVE  /\ IsFiniteSet(Workers) /\ Cardinality(Workers) = Cardinality(Tasks)
         /\ IsFiniteSet(Present(ws)) /\ IsFiniteSet(Occupied(ws))
         /\ Cardinality(Present(ws)) \in Nat /\ Cardinality(Occupied(ws)) \in Nat
         /\ Cardinality(Present(ws)) <= Cardinality(Tasks)
<1>1. Cardinality(Tasks) \in Nat
  BY TasksAssumption, FS_CardinalityType
<1>2. IsFiniteSet(Workers) /\ Cardinality(Workers) = Cardinality(Tasks)
  BY <1>1, FS_Interval DEF Workers
<1>3. Present(ws) \subseteq Workers /\ Occupied(ws) \subseteq Workers
  BY DEF Present, Occupied
<1>4. QED
  BY <1>2, <1>3, FS_Subset, FS_CardinalityType

(* A worker at the head of its loop leaves room for one more subtask.      *)
LEMMA LoopHeadHasRoom ==
  ASSUME NEW q, NEW ws, RoomInv(q, ws), NEW w \in Workers, ws[w] \in {"starting", "awake"}
  PROVE  Cardinality(q.running) < Cardinality(Present(ws))
<1>1. /\ IsFiniteSet(Present(ws)) /\ IsFiniteSet(Occupied(ws))
      /\ Cardinality(Present(ws)) \in Nat /\ Cardinality(Occupied(ws)) \in Nat
      /\ Cardinality(q.running) \in Nat
  BY WorkersAreFinite, FS_CardinalityType DEF RoomInv
<1>2. w \in Present(ws) /\ Occupied(ws) \subseteq Present(ws) \ {w}
  BY DEF Present, Occupied
<1>3. /\ IsFiniteSet(Present(ws) \ {w})
      /\ Cardinality(Present(ws) \ {w}) = Cardinality(Present(ws)) - 1
  BY <1>1, <1>2, FS_RemoveElement
<1>4. Cardinality(Occupied(ws)) <= Cardinality(Present(ws) \ {w})
  BY <1>2, <1>3, FS_Subset
<1>5. QED
  BY <1>1, <1>3, <1>4 DEF RoomInv

(* The loop keeps the room, and no worker comes into being or vanishes.    *)
LEMMA LoopStepRoom ==
  ASSUME NEW w \in Workers, NEW q, NEW ws, NEW jb, NEW out,
         NEW q2, NEW ws2, NEW jb2, NEW out2,
         q \in Queue, ws \in [Workers -> WorkerState], ws[w] \in {"starting", "awake"},
         RoomInv(q, ws),
         LoopStep(w, q, ws, jb, out, q2, ws2, jb2, out2)
  PROVE  RoomInv(q2, ws2) /\ Present(ws2) = Present(ws)
<1>1. /\ IsFiniteSet(Occupied(ws)) /\ Cardinality(Occupied(ws)) \in Nat
      /\ IsFiniteSet(q.running) /\ Cardinality(q.running) \in Nat
      /\ w \notin Occupied(ws) /\ ws[w] # "absent"
  BY WorkersAreFinite, FS_CardinalityType DEF RoomInv, Occupied
<1>2. /\ IsFiniteSet(Occupied(ws) \cup {w})
      /\ Cardinality(Occupied(ws) \cup {w}) = Cardinality(Occupied(ws)) + 1
  BY <1>1, FS_AddElement
<1>3. ASSUME NEW s \in {"rejected", "returned", "waiting"}, ws2 = [ws EXCEPT ![w] = s], q2 = q
      PROVE  RoomInv(q2, ws2) /\ Present(ws2) = Present(ws)
  <2>1. \A v \in Workers : ws2[v] = IF v = w THEN s ELSE ws[v]
    BY <1>3
  <2>2. Present(ws2) = Present(ws)
    BY <1>1, <2>1 DEF Present
  <2>3. Occupied(ws2) = Occupied(ws) \/ Occupied(ws2) = Occupied(ws) \cup {w}
    BY <1>1, <2>1 DEF Occupied
  <2>4. Cardinality(Occupied(ws2)) \in {Cardinality(Occupied(ws)), Cardinality(Occupied(ws)) + 1}
    BY <1>2, <2>3
  <2>5. Cardinality(q.running) <= Cardinality(Occupied(ws2))
    BY <1>1, <2>4 DEF RoomInv
  <2>6. QED
    BY <1>1, <1>3, <2>2, <2>5 DEF RoomInv
<1>4. ASSUME NEW t \in q.ready, q2 = Take(q, t), ws2 = [Broadcast(ws) EXCEPT ![w] = "running"]
      PROVE  RoomInv(q2, ws2) /\ Present(ws2) = Present(ws)
  <2>1. \A v \in Workers : ws2[v] = IF v = w THEN "running"
                                    ELSE IF ws[v] = "waiting" THEN "awake" ELSE ws[v]
    BY <1>4 DEF Broadcast
  <2>2. Present(ws2) = Present(ws)
    BY <1>1, <2>1 DEF Present
  <2>3. Occupied(ws2) = Occupied(ws) \cup {w}
    BY <1>1, <2>1 DEF Occupied
  <2>4. q2.running = q.running \cup {t}
    BY <1>4 DEF Take, Queue
  <2>5. IsFiniteSet(q.running \cup {t}) /\ Cardinality(q.running \cup {t}) <= Cardinality(q.running) + 1
    <3>1. CASE t \in q.running
      <4>1. q.running \cup {t} = q.running
        BY <3>1
      <4>2. /\ IsFiniteSet(q.running \cup {t})
            /\ Cardinality(q.running \cup {t}) = Cardinality(q.running)
        BY <1>1, <4>1, Zenon
      <4>3. QED
        BY <1>1, <4>2
    <3>2. CASE t \notin q.running
      BY <1>1, <3>2, FS_AddElement
    <3>3. QED
      BY <3>1, <3>2
  <2>6. Cardinality(q2.running) <= Cardinality(Occupied(ws2))
    <3>1. Cardinality(q2.running) \in Nat
      BY <2>4, <2>5, FS_CardinalityType
    <3>2. QED
      BY <1>1, <1>2, <2>3, <2>4, <2>5, <3>1 DEF RoomInv
  <2>7. QED
    BY <2>2, <2>4, <2>5, <2>6 DEF RoomInv
<1>5. QED
  BY <1>3, <1>4 DEF LoopStep
(* A worker that gives up its subtask frees no less room than it took.     *)
LEMMA WorkerFreesRoom ==
  ASSUME IInv, Room, NEW w \in Workers, worker[w] = "running"
  PROVE  /\ job[w] \in queue.running /\ IsFiniteSet(queue.running \ {job[w]})
         /\ Cardinality(queue.running \ {job[w]}) <= Cardinality(Occupied(worker) \ {w})
         /\ Cardinality(queue.running \ {job[w]}) <= Cardinality(Occupied(worker))
<1>1. /\ IsFiniteSet(queue.running) /\ Cardinality(queue.running) \in Nat
      /\ IsFiniteSet(Occupied(worker)) /\ Cardinality(Occupied(worker)) \in Nat
  BY WorkersAreFinite, FS_CardinalityType DEF Room, RoomInv
<1>2. w \in Occupied(worker) /\ job[w] \in queue.running
  BY DEF Occupied, IInv, PoolInv, JobInv
<1>3. /\ IsFiniteSet(queue.running \ {job[w]})
      /\ Cardinality(queue.running \ {job[w]}) = Cardinality(queue.running) - 1
  BY <1>1, <1>2, FS_RemoveElement
<1>4. Cardinality(Occupied(worker) \ {w}) = Cardinality(Occupied(worker)) - 1
  BY <1>1, <1>2, FS_RemoveElement
<1>5. Cardinality(queue.running) <= Cardinality(Occupied(worker))
  BY DEF Room, RoomInv
<1>. QED
  BY <1>1, <1>2, <1>3, <1>4, <1>5

(* After a success no more subtasks run than workers are occupied.         *)
LEMMA SuccessLeavesRoom ==
  ASSUME IInv, Room, NEW w \in Workers, SubtaskSucceeds(w)
  PROVE  LET q  == Complete(queue, deps, job[w], TRUE)
             ws == [Broadcast(worker) EXCEPT ![w] = "awake"]
         IN  RoomInv(q, ws) /\ Present(ws) = Present(worker)
<1>. DEFINE q == Complete(queue, deps, job[w], TRUE)
            ws == [Broadcast(worker) EXCEPT ![w] = "awake"]
<1>1. worker[w] = "running"
  BY DEF SubtaskSucceeds
<1>2. q.running = queue.running \ {job[w]}
  BY <1>1, WorkerFreesRoom, CompleteOk
<1>3. \A v \in Workers : ws[v] = IF v = w THEN "awake"
                                 ELSE IF worker[v] = "waiting" THEN "awake" ELSE worker[v]
  BY DEF Broadcast
<1>. HIDE DEF q, ws
<1>4. Occupied(ws) = Occupied(worker) \ {w} /\ Present(ws) = Present(worker)
  BY <1>1, <1>3 DEF Occupied, Present
<1>5. /\ IsFiniteSet(queue.running \ {job[w]})
      /\ Cardinality(queue.running \ {job[w]}) <= Cardinality(Occupied(worker) \ {w})
  BY <1>1, WorkerFreesRoom
<1>6. RoomInv(q, ws)
  BY <1>2, <1>4, <1>5, Zenon DEF RoomInv
<1>. QED
  BY <1>4, <1>6 DEF q, ws

(* The room survives every step; the workers that exist never change.      *)
LEMMA NextRoom ==
  ASSUME IInv, Room, [Next]_vars
  PROVE  Room' /\ Present(worker') = Present(worker)
<1>1. /\ queue \in Queue /\ worker \in [Workers -> WorkerState]
      /\ job \in [Workers -> Tasks \cup {None}]
      /\ IsFiniteSet(queue.running) /\ Cardinality(queue.running) \in Nat
      /\ IsFiniteSet(Occupied(worker)) /\ Cardinality(Occupied(worker)) \in Nat
  BY WorkersAreFinite, FS_CardinalityType DEF IInv, PoolInv, PoolType, Room, RoomInv
<1>2. ASSUME NEW w \in Workers, Turn(w)
      PROVE  RoomInv(queue', worker') /\ Present(worker') = Present(worker)
  <2>1. LoopStep(w, queue, worker, job, outcome, queue', worker', job', outcome')
    BY <1>2 DEF Turn, LoopHead, LoopStep, Leave, Rejected
  <2>2. worker[w] \in {"starting", "awake"}
    BY <1>2 DEF Turn
  <2>3. QED
    BY <1>1, <2>1, <2>2, LoopStepRoom DEF Room
<1>4. ASSUME NEW w \in Workers, SubtaskSucceeds(w)
      PROVE  RoomInv(queue', worker') /\ Present(worker') = Present(worker)
  <2>. DEFINE q == Complete(queue, deps, job[w], TRUE)
              ws == [Broadcast(worker) EXCEPT ![w] = "awake"]
              jb == [job EXCEPT ![w] = None]
              rm == [resultMap EXCEPT ![job[w]] = "ok"]
  <2>1. /\ PoolInv(deps, q, ws, jb, rm, outcome)
        /\ LoopStep(w, q, ws, jb, outcome, queue', worker', job', outcome')
        /\ ws[w] = "awake"
    BY <1>4, SuccessReturnsToLoop
  <2>2. RoomInv(q, ws) /\ Present(ws) = Present(worker)
    BY <1>4, SuccessLeavesRoom
  <2>. HIDE DEF q, ws, jb, rm
  <2>3. q \in Queue /\ ws \in [Workers -> WorkerState]
    BY <2>1 DEF PoolInv, PoolType
  <2>. QED
    BY <2>1, <2>2, <2>3, LoopStepRoom
<1>5. ASSUME NEW w \in Workers, worker[w] = "running", worker' = [worker EXCEPT ![w] = "rejected"]
      PROVE  Occupied(worker') = Occupied(worker) /\ Present(worker') = Present(worker)
  BY <1>1, <1>5 DEF Occupied, Present
<1>6. ASSUME NEW w \in Workers, SubtaskFails(w)
      PROVE  RoomInv(queue', worker') /\ Present(worker') = Present(worker)
  <2>1. queue'.running = queue.running \ {job[w]} /\ worker[w] = "running"
    BY <1>1, <1>6 DEF SubtaskFails, Complete, Queue
  <2>2. Occupied(worker') = Occupied(worker) /\ Present(worker') = Present(worker)
    BY <1>5, <1>6 DEF SubtaskFails, Leave
  <2>3. /\ IsFiniteSet(queue.running \ {job[w]})
        /\ Cardinality(queue.running \ {job[w]}) <= Cardinality(Occupied(worker))
    BY <2>1, WorkerFreesRoom
  <2>. QED
    BY <2>1, <2>2, <2>3, Zenon DEF RoomInv
<1>7. ASSUME NEW w \in Workers, SubtaskThrows(w)
      PROVE  RoomInv(queue', worker') /\ Present(worker') = Present(worker)
  <2>1. queue' = queue /\ Occupied(worker') = Occupied(worker) /\ Present(worker') = Present(worker)
    BY <1>5, <1>7 DEF SubtaskThrows, Leave
  <2>. QED
    BY <2>1 DEF Room, RoomInv
<1>8. CASE UNCHANGED <<queue, worker>>
  BY <1>8 DEF Room
<1>. QED
  BY <1>2, <1>4, <1>6, <1>7, <1>8
  DEF Room, Next, SubtaskEnds, Settle, Abort, Quiescent, vars

(* While no subtask runs there is room for any number of them.             *)
LEMMA InitRoom == Init => Room
<1>. SUFFICES ASSUME Init PROVE Room
  OBVIOUS
<1>1. queue.running = {}
  BY DEF Init, CreateReadyQueue
<1>2. Cardinality(Occupied(worker)) \in Nat
  BY WorkersAreFinite
<1>. QED
  BY <1>1, <1>2, FS_EmptySet DEF Room, RoomInv
-----------------------------------------------------------------------------
(* Which subtasks the queue's sets make waiting, running, complete, failed. *)
LEMMA StatusOfSets ==
  ASSUME NEW d, NEW q, NEW rm, q \in Queue, QueueInv(d, q, rm), NEW t \in Tasks
  PROVE  /\ (StatusOf(d, q)[t] = "running") <=> t \in q.running
         /\ (StatusOf(d, q)[t] = "complete") <=> t \in q.completed
         /\ (StatusOf(d, q)[t] = "failed") <=> t \in q.failed
         /\ (StatusOf(d, q)[t] \in {"waiting", "blocked"}) <=> t \in q.pending
         /\ (StatusOf(d, q)[t] = "waiting") <=> t \in q.ready
<1>1. StatusOf(d, q)[t] = TaskLifecycleState(q, d, t)
  BY DEF StatusOf
<1>2. /\ t \in q.pending \/ t \in q.running \/ t \in q.completed \/ t \in q.failed
      /\ t \in q.pending => t \notin q.running /\ t \notin q.completed /\ t \notin q.failed
      /\ t \in q.running => t \notin q.completed /\ t \notin q.failed
      /\ t \in q.completed => t \notin q.failed
      /\ t \in q.ready <=> t \in q.pending /\ d[t] \subseteq q.completed
  BY DEF QueueInv
<1>3. CASE t \in q.pending
  BY <1>1, <1>2, <1>3 DEF TaskLifecycleState
<1>4. CASE t \in q.running
  BY <1>1, <1>2, <1>4 DEF TaskLifecycleState
<1>5. CASE t \in q.completed
  BY <1>1, <1>2, <1>5 DEF TaskLifecycleState
<1>6. CASE t \in q.failed
  BY <1>1, <1>2, <1>6 DEF TaskLifecycleState
<1>. QED
  BY <1>2, <1>3, <1>4, <1>5, <1>6

(* take() is a start: a waiting subtask becomes running, nothing else.     *)
LEMMA TakeIsStart ==
  ASSUME NEW d, NEW q, NEW rm, q \in Queue, QueueInv(d, q, rm), NEW t \in q.ready
  PROVE  /\ t \in Tasks /\ StatusOf(d, q)[t] = "waiting"
         /\ StatusOf(d, Take(q, t)) = [StatusOf(d, q) EXCEPT ![t] = "running"]
<1>1. t \in Tasks /\ t \notin q.completed /\ t \notin q.failed
  BY DEF Queue, QueueInv
<1>2. StatusOf(d, q)[t] = "waiting"
  BY <1>1, StatusOfSets
<1>3. /\ Take(q, t).running = q.running \cup {t}
      /\ Take(q, t).completed = q.completed /\ Take(q, t).failed = q.failed
  BY DEF Take, Queue
<1>4. ASSUME NEW u \in Tasks
      PROVE  TaskLifecycleState(Take(q, t), d, u)
               = IF u = t THEN "running" ELSE TaskLifecycleState(q, d, u)
  BY <1>1, <1>3 DEF TaskLifecycleState
<1>5. StatusOf(d, Take(q, t)) = [StatusOf(d, q) EXCEPT ![t] = "running"]
  BY <1>4 DEF StatusOf
<1>. QED
  BY <1>1, <1>2, <1>5

(* complete() with an ok result is a finish, its eager release of the      *)
(* dependents included.                                                    *)
LEMMA CompleteIsFinish ==
  ASSUME IInv, NEW t \in queue.running
  PROVE  StatusOf(deps, Complete(queue, deps, t, TRUE))
           = Schedule!Unblocked([StatusOf(deps, queue) EXCEPT ![t] = "complete"])
<1>. DEFINE q  == Complete(queue, deps, t, TRUE)
            rm == [resultMap EXCEPT ![t] = "ok"]
            st == [StatusOf(deps, queue) EXCEPT ![t] = "complete"]
<1>1. /\ q \in Queue /\ QueueInv(deps, q, rm) /\ q.running = queue.running \ {t}
      /\ q.pending = queue.pending /\ q.failed = queue.failed
  BY CompleteOk
<1>2. /\ queue \in Queue /\ QueueInv(deps, queue, resultMap) /\ deps \in Plan /\ t \in Tasks
      /\ t \notin queue.pending /\ t \notin queue.failed /\ t \notin queue.completed
  BY DEF IInv, PoolInv, PoolType, Queue, QueueInv
<1>3. q.completed = queue.completed \cup {t}
  BY <1>2 DEF Complete, Queue
<1>4. \A u \in Tasks : st[u] = IF u = t THEN "complete" ELSE StatusOf(deps, queue)[u]
  BY <1>2 DEF StatusOf
<1>. HIDE DEF q, rm, st
<1>5. \A u \in Tasks : (st[u] = "complete") <=> u \in q.completed
  BY <1>2, <1>3, <1>4, StatusOfSets
<1>6. \A u \in Tasks : (st[u] \in {"waiting", "blocked"}) <=> u \in q.pending
  BY <1>1, <1>2, <1>4, StatusOfSets
<1>7. ASSUME NEW u \in Tasks
      PROVE  TaskLifecycleState(q, deps, u)
               = IF u \in q.pending
                 THEN IF deps[u] \subseteq q.completed THEN "waiting" ELSE "blocked"
                 ELSE st[u]
  <2>1. CASE u = t
    BY <1>1, <1>2, <1>3, <1>4, <2>1 DEF TaskLifecycleState
  <2>2. CASE u # t
    <3>1. StatusOf(deps, queue)[u] = TaskLifecycleState(queue, deps, u)
      BY DEF StatusOf
    <3>2. st[u] = TaskLifecycleState(queue, deps, u)
      BY <1>4, <2>2, <3>1
    <3>3. /\ u \in q.failed <=> u \in queue.failed
          /\ u \in q.completed <=> u \in queue.completed
          /\ u \in q.running <=> u \in queue.running
          /\ u \in q.pending <=> u \in queue.pending
      BY <1>1, <1>3, <2>2
    <3>4. /\ u \in queue.pending \/ u \in queue.running \/ u \in queue.completed \/ u \in queue.failed
          /\ u \in queue.pending => /\ u \notin queue.running
                                    /\ u \notin queue.completed /\ u \notin queue.failed
      BY <1>2 DEF QueueInv
    <3>. QED
      BY <3>2, <3>3, <3>4 DEF TaskLifecycleState
  <2>. QED
    BY <2>1, <2>2
<1>8. \A u \in Tasks :
        (\A v \in deps[u] : st[v] = "complete") <=> deps[u] \subseteq q.completed
  <2>1. \A u \in Tasks : deps[u] \subseteq Tasks
    BY <1>2 DEF Plan
  <2>. QED
    BY <1>5, <2>1
<1>9. Schedule!Unblocked(st) = StatusOf(deps, q)
  BY <1>6, <1>7, <1>8 DEF StatusOf, Schedule!Unblocked, Schedule!Unfinished
<1>. QED
  BY <1>9 DEF q, st

(* complete() with a failed result is a failure.                           *)
LEMMA CompleteIsFail ==
  ASSUME IInv, NEW t \in queue.running
  PROVE  StatusOf(deps, Complete(queue, deps, t, FALSE))
           = [StatusOf(deps, queue) EXCEPT ![t] = "failed"]
<1>1. /\ queue \in Queue /\ QueueInv(deps, queue, resultMap) /\ t \in Tasks
      /\ t \notin queue.completed
  BY DEF IInv, PoolInv, PoolType, Queue, QueueInv
<1>2. /\ Complete(queue, deps, t, FALSE).running = queue.running \ {t}
      /\ Complete(queue, deps, t, FALSE).completed = queue.completed
      /\ Complete(queue, deps, t, FALSE).failed = queue.failed \cup {t}
  BY <1>1 DEF Complete, Queue
<1>3. ASSUME NEW u \in Tasks
      PROVE  TaskLifecycleState(Complete(queue, deps, t, FALSE), deps, u)
               = IF u = t THEN "failed" ELSE TaskLifecycleState(queue, deps, u)
  <2>. DEFINE q == Complete(queue, deps, t, FALSE)
  <2>1. /\ u \in q.failed <=> u = t \/ u \in queue.failed
        /\ u \in q.completed <=> u \in queue.completed
        /\ u \in q.running <=> u # t /\ u \in queue.running
        /\ q.completed = queue.completed
    BY <1>1, <1>2
  <2>. HIDE DEF q
  <2>2. TaskLifecycleState(q, deps, u)
          = IF u = t THEN "failed" ELSE TaskLifecycleState(queue, deps, u)
    <3>1. CASE u = t
      <4>1. u \in q.failed /\ u \notin q.completed /\ u \notin q.running
        BY <1>1, <2>1, <3>1
      <4>. QED
        BY <3>1, <4>1 DEF TaskLifecycleState
    <3>2. CASE u # t /\ u \in queue.failed
      BY <2>1, <3>2 DEF TaskLifecycleState
    <3>3. CASE u # t /\ u \notin queue.failed
      BY <2>1, <3>3 DEF TaskLifecycleState
    <3>. QED
      BY <3>1, <3>2, <3>3
  <2>. QED
    BY <2>2 DEF q
<1>. QED
  BY <1>3 DEF StatusOf
(* SubtaskSchedule counts as the pool does.                                *)
LEMMA ScheduleCounts ==
  ASSUME NEW S
  PROVE  Schedule!Cardinality(S) = Cardinality(S)
BY DEF Cardinality, Schedule!Cardinality

(* A pass of the loop, seen from SubtaskSchedule: nothing, or the start of *)
(* a subtask there is room for.                                            *)
LEMMA LoopStepStarts ==
  ASSUME NEW d, NEW rm, NEW w \in Workers, NEW q, NEW ws, NEW jb, NEW out,
         NEW q2, NEW ws2, NEW jb2, NEW out2,
         q \in Queue, QueueInv(d, q, rm), RoomInv(q, ws), ws[w] \in {"starting", "awake"},
         LoopStep(w, q, ws, jb, out, q2, ws2, jb2, out2)
  PROVE  \/ StatusOf(d, q2) = StatusOf(d, q)
         \/ \E t \in Tasks :
              /\ StatusOf(d, q)[t] = "waiting"
              /\ Cardinality({u \in Tasks : StatusOf(d, q)[u] = "running"})
                   < Cardinality(Present(ws))
              /\ StatusOf(d, q2) = [StatusOf(d, q) EXCEPT ![t] = "running"]
<1>1. CASE q2 = q
  BY <1>1
<1>2. ASSUME NEW t \in q.ready, q2 = Take(q, t)
      PROVE  \E u \in Tasks :
               /\ StatusOf(d, q)[u] = "waiting"
               /\ Cardinality({v \in Tasks : StatusOf(d, q)[v] = "running"})
                    < Cardinality(Present(ws))
               /\ StatusOf(d, q2) = [StatusOf(d, q) EXCEPT ![u] = "running"]
  <2>1. {v \in Tasks : StatusOf(d, q)[v] = "running"} = q.running
    BY StatusOfSets DEF Queue
  <2>2. Cardinality(q.running) < Cardinality(Present(ws))
    BY LoopHeadHasRoom
  <2>3. /\ t \in Tasks /\ StatusOf(d, q)[t] = "waiting"
        /\ StatusOf(d, q2) = [StatusOf(d, q) EXCEPT ![t] = "running"]
    BY <1>2, TakeIsStart
  <2>. QED
    BY <2>1, <2>2, <2>3
<1>. QED
  BY <1>1, <1>2 DEF LoopStep

(* The pool starts with at least one worker and at most one per subtask,   *)
(* and with exactly the subtasks waiting that depend on nothing.           *)
LEMMA InitMaps == Init => Schedule!Init
<1>. SUFFICES ASSUME Init PROVE Schedule!Init
  OBVIOUS
<1>1. deps \in Plan
  BY PoolAssumption DEF Init
<1>2. Cardinality(Present(worker)) \in 1..Cardinality(Tasks)
  <2>1. 1 \in Present(worker)
    BY SomeWorkerStarts DEF Init, Present
  <2>2. /\ IsFiniteSet(Present(worker)) /\ Cardinality(Present(worker)) \in Nat
        /\ Cardinality(Present(worker)) <= Cardinality(Tasks)
    BY WorkersAreFinite
  <2>3. Cardinality(Present(worker)) # 0
    BY <2>1, <2>2, FS_EmptySet
  <2>4. Cardinality(Tasks) \in Nat
    BY TasksAssumption, FS_CardinalityType
  <2>. QED
    BY <2>2, <2>3, <2>4
<1>3. queue.running = {} /\ queue.completed = {} /\ queue.failed = {}
  BY DEF Init, CreateReadyQueue
<1>4. ASSUME NEW t \in Tasks
      PROVE  TaskLifecycleState(queue, deps, t) = IF deps[t] = {} THEN "waiting" ELSE "blocked"
  BY <1>3 DEF TaskLifecycleState
<1>5. Schedule!Unblocked([t \in Tasks |-> "blocked"])
        = [t \in Tasks |-> IF deps[t] = {} THEN "waiting" ELSE "blocked"]
  <2>1. \A t \in Tasks : deps[t] \subseteq Tasks
    BY <1>1 DEF Plan
  <2>. QED
    BY <2>1 DEF Schedule!Unblocked, Schedule!Unfinished
<1>6. Cardinality({w \in Workers : worker[w] # "absent"}) \in 1..Schedule!Cardinality(Tasks)
  BY <1>2, ScheduleCounts DEF Present
<1>7. [t \in Tasks |-> TaskLifecycleState(queue, deps, t)]
        = Schedule!Unblocked([t \in Tasks |-> "blocked"])
  BY <1>4, <1>5
<1>. QED
  BY <1>1, <1>6, <1>7 DEF Schedule!Init, Plan

(* StartsOne of SubtaskSchedule, in the pool's terms.                      *)
LEMMA StartsOneOf ==
  ASSUME NEW st, NEW t \in Tasks, st[t] = "waiting",
         Cardinality({u \in Tasks : st[u] = "running"}) < Cardinality(Present(worker)),
         StatusOf(deps, queue)' = [st EXCEPT ![t] = "running"]
  PROVE  Schedule!StartsOne(st)
<1>1. Schedule!Cardinality(Schedule!Running(st)) < Cardinality({w \in Workers : worker[w] # "absent"})
  BY ScheduleCounts DEF Schedule!Running, Present
<1>2. [u \in Tasks |-> TaskLifecycleState(queue, deps, u)]' = [st EXCEPT ![t] = "running"]
  BY DEF StatusOf
<1>. QED
  BY <1>1, <1>2 DEF Schedule!StartsOne

(* Every step of the pool is a step of SubtaskSchedule, or none.           *)
LEMMA NextMaps == IInv /\ Room /\ [Next]_vars => [Schedule!Next]_Schedule!vars
<1>. SUFFICES ASSUME IInv, Room, [Next]_vars PROVE [Schedule!Next]_Schedule!vars
  OBVIOUS
<1>. DEFINE Width == Cardinality(Present(worker))
            Status == StatusOf(deps, queue)
<1>1. /\ queue \in Queue /\ QueueInv(deps, queue, resultMap)
      /\ deps' = deps /\ Width' = Width
  <2>1. Present(worker') = Present(worker)
    BY NextRoom
  <2>2. deps' = deps
    BY DEF Next, SubtaskEnds, Turn, SubtaskSucceeds, SubtaskFails, SubtaskThrows,
           Settle, Abort, Quiescent, vars
  <2>. QED
    BY <2>1, <2>2 DEF IInv, PoolInv, PoolType
<1>2. ASSUME NEW w \in Workers, Turn(w)
      PROVE  Schedule!Start \/ Status' = Status
  <2>1. LoopStep(w, queue, worker, job, outcome, queue', worker', job', outcome')
    BY <1>2 DEF Turn, LoopHead, LoopStep, Leave, Rejected
  <2>2. worker[w] \in {"starting", "awake"}
    BY <1>2 DEF Turn
  <2>3. \/ StatusOf(deps, queue') = Status
        \/ \E t \in Tasks :
              /\ Status[t] = "waiting"
              /\ Cardinality({u \in Tasks : Status[u] = "running"}) < Width
              /\ StatusOf(deps, queue') = [Status EXCEPT ![t] = "running"]
    BY <1>1, <2>1, <2>2, LoopStepStarts DEF Room
  <2>4. StatusOf(deps, queue') = Status'
    BY <1>1
  <2>5. CASE Status' = Status
    BY <2>5
  <2>6. ASSUME NEW t \in Tasks, Status[t] = "waiting", Status' = [Status EXCEPT ![t] = "running"],
               Cardinality({u \in Tasks : Status[u] = "running"}) < Width
        PROVE  Schedule!Start
    <3>1. Schedule!StartsOne(Status)
      BY <2>6, StartsOneOf
    <3>. QED
      BY <1>1, <3>1 DEF Schedule!Start, StatusOf, Present
  <2>. QED
    BY <2>3, <2>4, <2>5, <2>6
<1>3. ASSUME NEW w \in Workers, SubtaskSucceeds(w)
      PROVE  Schedule!Finish(job[w]) /\ job[w] \in Tasks
  <2>. DEFINE q == Complete(queue, deps, job[w], TRUE)
              ws == [Broadcast(worker) EXCEPT ![w] = "awake"]
              jb == [job EXCEPT ![w] = None]
              rm == [resultMap EXCEPT ![job[w]] = "ok"]
              done == Schedule!Unblocked([Status EXCEPT ![job[w]] = "complete"])
  <2>1. job[w] \in queue.running /\ job[w] \in Tasks
    BY <1>1, <1>3 DEF SubtaskSucceeds, IInv, PoolInv, JobInv, Queue
  <2>2. Status[job[w]] = "running"
    BY <1>1, <2>1, StatusOfSets
  <2>3. StatusOf(deps, q) = done
    BY <2>1, CompleteIsFinish
  <2>4. /\ PoolInv(deps, q, ws, jb, rm, outcome)
        /\ LoopStep(w, q, ws, jb, outcome, queue', worker', job', outcome')
        /\ ws[w] = "awake"
    BY <1>3, SuccessReturnsToLoop
  <2>5. RoomInv(q, ws) /\ Present(ws) = Present(worker)
    BY <1>3, SuccessLeavesRoom
  <2>. HIDE DEF q, ws, jb, rm, done
  <2>6. \/ StatusOf(deps, queue') = done
        \/ \E t \in Tasks :
              /\ done[t] = "waiting"
              /\ Cardinality({u \in Tasks : done[u] = "running"}) < Width
              /\ StatusOf(deps, queue') = [done EXCEPT ![t] = "running"]
    <3>1. q \in Queue /\ QueueInv(deps, q, rm)
      BY <2>4 DEF PoolInv, PoolType
    <3>2. ws[w] \in {"starting", "awake"}
      BY <2>4
    <3>3. LoopStep(w, q, ws, jb, outcome, queue', worker', job', outcome')
      BY <2>4
    <3>4. RoomInv(q, ws)
      BY <2>5
    <3>5. \/ StatusOf(deps, queue') = StatusOf(deps, q)
          \/ \E t \in Tasks :
                /\ StatusOf(deps, q)[t] = "waiting"
                /\ Cardinality({u \in Tasks : StatusOf(deps, q)[u] = "running"})
                     < Cardinality(Present(ws))
                /\ StatusOf(deps, queue') = [StatusOf(deps, q) EXCEPT ![t] = "running"]
      BY ONLY <3>1, <3>2, <3>3, <3>4, LoopStepStarts, w \in Workers, SMTT(60)
    <3>. QED
      BY <2>3, <2>5, <3>5
  <2>7. Status' = done \/ Schedule!StartsOne(done)
    <3>1. StatusOf(deps, queue') = Status'
      BY <1>1
    <3>2. ASSUME NEW t \in Tasks, done[t] = "waiting", Status' = [done EXCEPT ![t] = "running"],
                 Cardinality({u \in Tasks : done[u] = "running"}) < Width
          PROVE  Schedule!StartsOne(done)
      BY <3>2, StartsOneOf
    <3>. QED
      BY <2>6, <3>1, <3>2
  <2>. QED
    BY <1>1, <2>1, <2>2, <2>7 DEF Schedule!Finish, StatusOf, Present, done
<1>4. ASSUME NEW w \in Workers, SubtaskFails(w)
      PROVE  Schedule!Fail(job[w]) /\ job[w] \in Tasks
  <2>1. job[w] \in queue.running /\ job[w] \in Tasks
    BY <1>1, <1>4 DEF SubtaskFails, IInv, PoolInv, JobInv, Queue
  <2>2. Status[job[w]] = "running"
    BY <1>1, <2>1, StatusOfSets
  <2>3. Status' = [Status EXCEPT ![job[w]] = "failed"]
    BY <1>1, <1>4, <2>1, CompleteIsFail DEF SubtaskFails
  <2>. QED
    BY <1>1, <2>1, <2>2, <2>3 DEF Schedule!Fail, StatusOf, Present
<1>5. CASE UNCHANGED queue
  <2>1. Status' = Status
    BY <1>1, <1>5
  <2>. QED
    BY <1>1, <2>1 DEF Schedule!vars, StatusOf, Present
<1>6. Status' = Status => [Schedule!Next]_Schedule!vars
  BY <1>1 DEF Schedule!vars, StatusOf, Present
<1>. QED
  BY <1>2, <1>3, <1>4, <1>5, <1>6
  DEF Next, SubtaskEnds, SubtaskThrows, Settle, Abort, Quiescent, vars, Schedule!Next

(* Whatever plan the model asks for and however the workers interleave,    *)
(* fail and are cancelled, the pool keeps the promise of                   *)
(* run_steps_parallel: each subtask goes once through its life cycle, none *)
(* starts before all it depends on is complete, and no more of them run at *)
(* once than workers were started.                                         *)
THEOREM PoolImplementsSchedule == Spec => ImplementsSchedule
<1>1. Init => Room /\ Schedule!Init
  BY InitRoom, InitMaps
<1>2. IInv /\ Room /\ [Next]_vars => Room'
  BY NextRoom
<1>3. IInv /\ Room /\ [Next]_vars => [Schedule!Next]_Schedule!vars
  BY NextMaps
<1>. QED
  BY <1>1, <1>2, <1>3, PoolInvariant, PTL DEF Spec, ImplementsSchedule, Schedule!Spec
=============================================================================
