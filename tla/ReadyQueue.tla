----------------------------- MODULE ReadyQueue -----------------------------
(***************************************************************************)
(* The dependency-aware queue of one batch of checklist steps              *)
(* (packages/server/src/orchestration/readyQueue.ts).                      *)
(*                                                                         *)
(* The functions of the source are pure operators here: they take a queue  *)
(* and return the next one.  A plan `deps' maps each task to the tasks it  *)
(* depends on; run_steps_parallel drops every dependency outside the batch *)
(* before it builds the queue, so deps[t] \subseteq Tasks, but nothing     *)
(* rejects a task that depends on itself or a cycle.                       *)
(***************************************************************************)
EXTENDS Integers, FiniteSets, FiniteSetsExt

CONSTANT Tasks          \* the ids of the subtasks of the batch

ASSUME TasksAssumption == Tasks \subseteq Nat /\ IsFiniteSet(Tasks) /\ Tasks # {}

Plan == [Tasks -> SUBSET Tasks]

(* The ReadyQueue record; `completed' and `failed' keep only the keys of   *)
(* the source's maps, and `dependents' and `allById' are functions of the  *)
(* plan.                                                                   *)
Queue == [pending   : SUBSET Tasks, ready  : SUBSET Tasks, running : SUBSET Tasks,
          completed : SUBSET Tasks, failed : SUBSET Tasks]

Dependents(deps, t) == {d \in Tasks : t \in deps[d]}

CreateReadyQueue(deps) ==
  [pending |-> Tasks, ready |-> {t \in Tasks : deps[t] = {}},
   running |-> {}, completed |-> {}, failed |-> {}]

(* Subtasks on the longest chain of dependents from t, counted up to one   *)
(* more than there are tasks: a task gets the extra one exactly when a     *)
(* cycle lies downstream of it.                                            *)
CriticalPathLength(deps) ==
  LET upTo[n \in Nat] ==
        [t \in Tasks |->
           IF n = 0 \/ Dependents(deps, t) = {} THEN 1
           ELSE 1 + Max({upTo[n - 1][d] : d \in Dependents(deps, t)})]
  IN  upTo[Cardinality(Tasks)]

(* t may stand before u in available(): the longer critical path first,    *)
(* then the smaller id.  On a cycle the source's lengths depend on the     *)
(* order in which it visits the tasks, so either order is allowed there.   *)
Before(length, t, u) ==
  \/ length[t] > Cardinality(Tasks)
  \/ length[u] > Cardinality(Tasks)
  \/ length[t] > length[u]
  \/ length[t] = length[u] /\ t < u

(* t is the head of available(queue).                                      *)
IsNextAvailable(q, length, t) ==
  /\ t \in q.ready
  /\ \A u \in q.ready \ {t} : Before(length, t, u)

(* Variants of take(), newlyReady and complete() with a plausible mistake.  *)
(* README, "Mutants", says which property notices which of them.           *)
TakeByPosition(q, t) ==        \* records the position in available(), not the id
  [q EXCEPT !.pending = @ \ {t}, !.ready = @ \ {t},
            !.running = @ \cup {Cardinality({u \in q.ready : u < t})}]

TakeKeepsReady(q, t) ==        \* the eager update of `ready' is forgotten
  [q EXCEPT !.pending = @ \ {t}, !.running = @ \cup {t}]

TakeKeepsPending(q, t) ==      \* only `running' is updated
  [q EXCEPT !.running = @ \cup {t}]

NewlyReadyAny(q, deps, t) ==   \* some() for every()
  {d \in Dependents(deps, t) \cap q.pending : deps[d] \cap q.completed # {}}

NewlyReadyOnly(q, deps, t) ==  \* looks at no dependency but the one completed
  {d \in Dependents(deps, t) \cap q.pending : deps[d] = {t}}

CompleteKeepsRunning(q, deps, t, ok) ==   \* `running' is never cleared
  IF ok
  THEN [q EXCEPT !.completed = @ \cup {t},
                 !.ready = @ \cup {d \in Dependents(deps, t) \cap q.pending :
                                     deps[d] \subseteq q.completed \cup {t}}]
  ELSE [q EXCEPT !.failed = @ \cup {t}]

CompleteRetries(q, deps, t, ok) ==        \* a failed task is put back
  IF ok
  THEN [q EXCEPT !.running = @ \ {t}, !.completed = @ \cup {t},
                 !.ready = @ \cup {d \in Dependents(deps, t) \cap q.pending :
                                     deps[d] \subseteq q.completed \cup {t}}]
  ELSE [q EXCEPT !.running = @ \ {t}, !.pending = @ \cup {t}, !.ready = @ \cup {t}]

(* take() refuses a task that is not pending; the callers guard on that.   *)
CanTake(q, t) == t \in q.pending

Take(q, t) ==
  [q EXCEPT !.pending = @ \ {t}, !.ready = @ \ {t}, !.running = @ \cup {t}]

(* The pending dependents of t whose every dependency has now completed.   *)
NewlyReady(q, deps, t) ==
  {d \in Dependents(deps, t) \cap q.pending : deps[d] \subseteq q.completed}

Complete(q, deps, t, ok) ==
  IF ok
  THEN LET done == [q EXCEPT !.running = @ \ {t}, !.completed = @ \cup {t}]
       IN  [done EXCEPT !.ready = @ \cup NewlyReady(done, deps, t)]
  ELSE [q EXCEPT !.running = @ \ {t}, !.failed = @ \cup {t}]

LifecycleState == {"failed", "complete", "running", "waiting", "blocked"}

TaskLifecycleState(q, deps, t) ==
  CASE t \in q.failed    -> "failed"
    [] t \in q.completed -> "complete"
    [] t \in q.running   -> "running"
    [] OTHER -> IF deps[t] \subseteq q.completed THEN "waiting" ELSE "blocked"

-----------------------------------------------------------------------------
(* Kahn's waves: LayersBelow(deps)[n] holds the tasks of the first n waves; *)
(* a task joins the wave after the last of its dependencies.               *)
LayersBelow(deps) ==
  LET below[n \in Nat] ==
        IF n = 0 THEN {} ELSE {t \in Tasks : deps[t] \subseteq below[n - 1]}
  IN  [n \in 0..Cardinality(Tasks) |-> below[n]]

MaxDagWidth(deps) ==
  LET below == LayersBelow(deps)
  IN  Max({Cardinality(below[n] \ below[n - 1]) : n \in 1..Cardinality(Tasks)})

Lesser(a, b) == IF a <= b THEN a ELSE b
Larger(a, b) == IF a <= b THEN b ELSE a

(* `limit' is the user's max_subagents: "max" or a number of at least one  *)
(* (TLC wants one type, so "max" is 0 here); `ceiling' is the ceiling of a *)
(* local provider, or 0 for a remote one.                                  *)
Unlimited == 0
NoCeiling == 0
DefaultLocalProviderWorkerCeiling == 4

WantedWorkers(limit, width) ==
  IF limit = Unlimited THEN width
  ELSE IF limit \in {1, 2} THEN limit ELSE Lesser(limit, width)

CappedWorkers(wanted, ceiling) ==
  IF ceiling = NoCeiling THEN wanted ELSE Lesser(wanted, ceiling)

WorkerCountFor(limit, deps, ceiling) ==
  Larger(1, Lesser(CappedWorkers(WantedWorkers(limit, MaxDagWidth(deps)), ceiling),
                   Cardinality(Tasks)))
=============================================================================
