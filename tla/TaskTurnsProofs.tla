---------------------------- MODULE TaskTurnsProofs ----------------------------
(***************************************************************************)
(* Safety of the tasks of a connection for every number of tasks, every    *)
(* finite set of steps, every width and every bound.                       *)
(*                                                                         *)
(* TurnsInv has three parts.  A batch by itself (BatchOK): who runs, and   *)
(* that no step of it is lost before it settles.  The batches of a turn    *)
(* (BatchesInv): all but the one the turn waits for have settled, and the  *)
(* steps that failed batches left behind are counted.  And the connection  *)
(* until somebody cancels (OwnInv): only the current task has a turn.      *)
(***************************************************************************)
EXTENDS TaskTurns, FiniteSetTheorems, SequenceTheorems, TLAPS

(* A batch: at most Width of its steps run, one fewer once it failed; each *)
(* step is to be taken, runs or has succeeded until the batch settles; and *)
(* when it resolves all of them have.                                      *)
BatchOK(batch) ==
  /\ Cardinality(batch.running) <= Width
  /\ batch.outcome = "failed" => Cardinality(batch.running) <= Width - 1
  /\ batch.outcome = "starting" => batch.running = {}
  /\ batch.outcome \in {"starting", "pending", "resolved"} =>
       \A s \in batch.ids : s \in batch.todo \/ s \in batch.running \/ batch.results[s] = "ok"
  /\ batch.outcome = "resolved" => batch.todo = {} /\ batch.running = {}

(* Of the batches bs of a turn, those that failed, and what they left.     *)
Failed(bs) == {b \in 1..Len(bs) : bs[b].outcome = "failed"}
Orphans(bs) == {p \in (1..Len(bs)) \X Steps : p[1] \in Failed(bs) /\ p[2] \in bs[p[1]].running}

BatchesInv ==
  \A t \in Tasks :
    /\ \A b \in 1..Len(batches[t]) :
         /\ BatchOK(batches[t][b])
         /\ b < Len(batches[t]) \/ phase[t] \in {"idle", "starting", "deciding", "review"}
              => batches[t][b].outcome \in {"resolved", "failed"}
    /\ phase[t] = "batch" => batches[t] # <<>>
    /\ Cardinality(Orphans(batches[t])) <= (Width - 1) * Cardinality(Failed(batches[t]))

(* Until a task is cancelled, only the current one has a turn, and it was  *)
(* submitted after the session was last cleared.                           *)
OwnInv ==
  /\ \A t \in Tasks : phase[t] \in {"idle", "starting"} => planThisTurn[t] = None
  /\ Uncancelled =>
       /\ \A t \in Tasks : phase[t] \notin {"idle", "ended"} => t = current
       /\ current # None => since[current] = cleared
       /\ ChecklistIsOwn /\ ChecklistStaysCleared /\ ConversationStaysCleared

TurnsInv == TypeOK /\ BatchesInv /\ OwnInv

-----------------------------------------------------------------------------
(* The step that a worker takes next exists: a set of numbers that is not  *)
(* empty has a smallest one, and Min returns it.                           *)
LEMMA MinIsMember ==
  ASSUME NEW S \in SUBSET Nat, S # {}
  PROVE  Min(S) \in S
<1>. DEFINE R == {ss \in Nat \X Nat : ss[1] < ss[2]}
<1>1. IsWellFoundedOn(R, Nat)
  BY NatLessThanWellFounded DEF OpToRel
<1>2. PICK x \in S : \A y \in S : ~ (<<y, x>> \in R)
  <2>. HIDE DEF R
  <2>. QED
    BY <1>1, WFMin
<1>3. \A y \in S : x <= y
  <2>. SUFFICES ASSUME NEW y \in S
                PROVE  x <= y
    OBVIOUS
  <2>1. <<y, x>> \in Nat \X Nat /\ <<y, x>>[1] = y /\ <<y, x>>[2] = x
    OBVIOUS
  <2>2. ~ (y < x)
    BY <1>2, <2>1
  <2>. QED
    BY <2>2
<1>. QED
  BY <1>3 DEF Min

(* As many steps run in batch b as there are pairs of b and one of them.   *)
LEMMA PairsWith ==
  ASSUME NEW b, NEW R, IsFiniteSet(R)
  PROVE  IsFiniteSet({b} \X R) /\ Cardinality({b} \X R) = Cardinality(R)
<1>1. IsFiniteSet({b}) /\ Cardinality({b}) = 1
  BY FS_Singleton
<1>2. IsFiniteSet({b} \X R) /\ Cardinality({b} \X R) = Cardinality({b}) * Cardinality(R)
  BY <1>1, FS_Product
<1>. QED
  BY <1>1, <1>2, FS_CardinalityType

(* A part X of A is replaced by Y, which has nothing of the rest of A.     *)
LEMMA PartReplaced ==
  ASSUME NEW A, IsFiniteSet(A), NEW X \in SUBSET A, NEW Y, IsFiniteSet(Y),
         (A \ X) \cap Y = {}
  PROVE  Cardinality((A \ X) \cup Y) = Cardinality(A) - Cardinality(X) + Cardinality(Y)
<1>. DEFINE C == A \ X
<1>1. IsFiniteSet(C) /\ Cardinality(C) = Cardinality(A) - Cardinality(A \cap X)
  BY FS_Difference
<1>2. A \cap X = X
  OBVIOUS
<1>3. Cardinality(C \cup Y) = Cardinality(C) + Cardinality(Y) - Cardinality(C \cap Y)
  BY <1>1, FS_Union
<1>4. Cardinality(C \cap Y) = 0
  BY FS_EmptySet
<1>5. /\ IsFiniteSet(X)
      /\ Cardinality(A) \in Nat /\ Cardinality(X) \in Nat /\ Cardinality(Y) \in Nat
      /\ Cardinality(C) \in Nat
  BY <1>1, FS_Subset, FS_CardinalityType
<1>6. Cardinality(C) = Cardinality(A) - Cardinality(X)
  BY <1>1, <1>2
<1>. QED
  BY <1>3, <1>4, <1>5, <1>6

-----------------------------------------------------------------------------
(* What the code may do to a batch that exists: a settled batch keeps its  *)
(* outcome, and no more steps run in a failed one than before.             *)
BatchStep(old, new) ==
  /\ new \in Batch /\ BatchOK(new) /\ new.ids = old.ids
  /\ old.outcome \in {"resolved", "failed", "aborted"} => new.outcome = old.outcome
  /\ old.outcome = "failed" => Cardinality(new.running) <= Cardinality(old.running)

(* The steps of a batch are finitely many, and so are those that run.      *)
LEMMA RunningIsFinite ==
  ASSUME NEW batch \in Batch
  PROVE  /\ IsFiniteSet(batch.running) /\ Cardinality(batch.running) \in Nat
         /\ \A s : IsFiniteSet(batch.running \ {s})
         /\ \A s \in batch.running :
              Cardinality(batch.running \ {s}) = Cardinality(batch.running) - 1
<1>1. IsFiniteSet(batch.running)
  BY TurnsAssumption, FS_Subset DEF Batch
<1>. QED
  BY <1>1, FS_CardinalityType, FS_RemoveElement

(* A worker whose step failed, or threw, leaves the batch: it settles      *)
(* unless it has.                                                          *)
LEMMA WorkerLeaves ==
  ASSUME NEW old \in Batch, BatchOK(old), NEW s \in old.running,
         NEW left \in Batch,
         left.running = old.running \ {s}, left.ids = old.ids, left.outcome = old.outcome,
         NEW why \in {"failed", "aborted"}
  PROVE  BatchStep(old, Reject(left, why))
<1>. DEFINE new == Reject(left, why)
<1>1. /\ Cardinality(old.running) \in Nat
      /\ Cardinality(left.running) = Cardinality(old.running) - 1
  BY RunningIsFinite
<1>2. /\ new \in Batch /\ new.ids = old.ids /\ new.running = left.running
      /\ new.outcome = IF old.outcome = "pending" THEN why ELSE old.outcome
  BY DEF Reject, Batch, Outcome
<1>3. old.outcome \notin {"starting", "resolved"}
  BY DEF BatchOK
<1>4. BatchOK(new)
  BY <1>1, <1>2, <1>3, TurnsAssumption DEF BatchOK
<1>. QED
  BY <1>1, <1>2, <1>3, <1>4 DEF BatchStep

(* A worker whose step succeeded leaves the batch, takes its next step, or *)
(* is the last one and resolves it.                                        *)
LEMMA WorkerGoesOn ==
  ASSUME NEW old \in Batch, BatchOK(old), NEW s \in old.running, NEW isAborted \in BOOLEAN
  PROVE  BatchStep(old, AfterSuccess(old, s, isAborted))
<1>. DEFINE done == Completed(old, s, "ok")
            m == Min(done.todo)
            more == [done EXCEPT !.todo = @ \ {m}, !.running = @ \cup {m}]
<1>1. /\ IsFiniteSet(done.running)
      /\ Cardinality(old.running) \in Nat
      /\ Cardinality(done.running) = Cardinality(old.running) - 1
  BY RunningIsFinite DEF Batch, Completed
<1>2. /\ done \in Batch /\ done.ids = old.ids /\ done.outcome = old.outcome
      /\ done.todo = old.todo /\ done.running = old.running \ {s}
      /\ \A r \in Steps : done.results[r] = IF r = s THEN "ok" ELSE old.results[r]
  BY DEF Batch, Completed
<1>3. old.outcome \notin {"starting", "resolved"}
  BY DEF BatchOK
<1>4. CASE isAborted
  BY <1>1, <1>2, <1>4, WorkerLeaves DEF AfterSuccess
<1>5. CASE ~isAborted /\ done.todo # {}
  <2>1. m \in done.todo /\ done.todo \in SUBSET Nat
    BY <1>2, <1>5, MinIsMember, TurnsAssumption DEF Batch
  <2>2. /\ more \in Batch /\ more.ids = old.ids /\ more.outcome = old.outcome
        /\ more.todo = done.todo \ {m} /\ more.running = done.running \cup {m}
        /\ more.results = done.results
    <3>1. m \in Steps
      BY <1>2, <2>1 DEF Batch
    <3>. HIDE DEF done, m
    <3>. QED
      BY <1>2, <3>1 DEF Batch
  <2>3. Cardinality(more.running) <= Cardinality(old.running)
    <3>1. Cardinality(done.running \cup {m}) \in {Cardinality(done.running), Cardinality(done.running) + 1}
      BY <1>1, FS_AddElement
    <3>. QED
      BY <1>1, <2>2, <3>1
  <2>4. BatchOK(more)
    <3>1. \A r \in old.ids : r \in old.todo \/ r \in old.running \/ old.results[r] = "ok"
              => r \in more.todo \/ r \in more.running \/ more.results[r] = "ok"
      BY <1>2, <2>2 DEF Batch
    <3>2. Cardinality(old.running) <= Width /\ Cardinality(more.running) \in Nat
      BY <2>2, RunningIsFinite DEF BatchOK
    <3>. HIDE DEF more, done, m
    <3>. QED
      BY <1>1, <1>3, <2>2, <2>3, <3>1, <3>2, TurnsAssumption DEF BatchOK
  <2>. QED
    BY <1>5, <2>2, <2>3, <2>4 DEF BatchStep, AfterSuccess
<1>6. CASE ~isAborted /\ done.todo = {}
  <2>. DEFINE new == IF done.running = {} THEN Reject(done, "resolved") ELSE done
  <2>1. /\ new \in Batch /\ new.ids = old.ids /\ new.running = done.running
        /\ new.todo = {} /\ new.results = done.results
        /\ new.outcome = IF old.outcome = "pending" /\ done.running = {} THEN "resolved"
                         ELSE old.outcome
    BY <1>2, <1>6 DEF Reject, Batch, Outcome
  <2>2. \A r \in old.ids : r \in old.todo \/ r \in old.running \/ old.results[r] = "ok"
            => r \in new.running \/ new.results[r] = "ok"
    BY <1>2, <1>6, <2>1 DEF Batch
  <2>3. BatchOK(new)
    <3>. HIDE DEF new
    <3>. QED
      BY <1>1, <1>3, <2>1, <2>2, TurnsAssumption DEF BatchOK
  <2>4. BatchStep(old, new)
    <3>. HIDE DEF new
    <3>. QED
      BY <1>1, <1>3, <2>1, <2>3 DEF BatchStep
  <2>. QED
    BY <1>6, <2>4 DEF AfterSuccess
<1>. QED
  BY <1>4, <1>5, <1>6

-----------------------------------------------------------------------------
(* The batches of a turn are finitely many, and so are the steps that      *)
(* failed ones left behind.                                                *)
LEMMA OrphansAreFinite ==
  ASSUME NEW bs \in Seq(Batch)
  PROVE  /\ IsFiniteSet(Failed(bs)) /\ Cardinality(Failed(bs)) \in Nat
         /\ IsFiniteSet(Orphans(bs)) /\ Cardinality(Orphans(bs)) \in Nat
<1>1. IsFiniteSet(1..Len(bs))
  BY FS_Interval
<1>2. IsFiniteSet(Failed(bs))
  BY <1>1, FS_Subset DEF Failed
<1>3. IsFiniteSet((1..Len(bs)) \X Steps)
  BY <1>1, FS_Product, TurnsAssumption
<1>4. IsFiniteSet(Orphans(bs))
  BY <1>3, FS_Subset DEF Orphans
<1>. QED
  BY <1>2, <1>4, FS_CardinalityType

(* What failed batches left behind stays within the bound when one batch   *)
(* of the turn makes a step.                                               *)
LEMMA OrphansOfStep ==
  ASSUME NEW bs \in Seq(Batch), NEW cs \in Seq(Batch), Len(cs) = Len(bs),
         NEW b \in 1..Len(bs), BatchStep(bs[b], cs[b]),
         \A c \in 1..Len(bs) : c # b => cs[c] = bs[c],
         Cardinality(Orphans(bs)) <= (Width - 1) * Cardinality(Failed(bs))
  PROVE  Cardinality(Orphans(cs)) <= (Width - 1) * Cardinality(Failed(cs))
<1>. DEFINE R == bs[b].running
            Q == cs[b].running
<1>1. bs[b] \in Batch /\ cs[b] \in Batch /\ BatchOK(cs[b])
  BY DEF BatchStep
<1>2. /\ IsFiniteSet(Orphans(bs)) /\ Cardinality(Orphans(bs)) \in Nat
      /\ IsFiniteSet(Failed(bs)) /\ Cardinality(Failed(bs)) \in Nat
      /\ Width - 1 \in Nat
  BY OrphansAreFinite, TurnsAssumption
<1>3. /\ IsFiniteSet(R) /\ Cardinality(R) \in Nat
      /\ IsFiniteSet(Q) /\ Cardinality(Q) \in Nat
  BY <1>1, RunningIsFinite
<1>4. CASE bs[b].outcome = "failed"
  <2>1. cs[b].outcome = "failed" /\ Cardinality(Q) <= Cardinality(R)
    BY <1>4 DEF BatchStep
  <2>2. Failed(cs) = Failed(bs)
    BY <1>4, <2>1 DEF Failed
  <2>3. Orphans(cs) = (Orphans(bs) \ ({b} \X R)) \cup ({b} \X Q)
    <3>1. b \in Failed(bs) /\ Q \subseteq Steps /\ R \subseteq Steps
      BY <1>1, <1>4 DEF Failed, Batch
    <3>. QED
      BY <2>2, <3>1 DEF Orphans
  <2>4. /\ {b} \X R \subseteq Orphans(bs)
        /\ (Orphans(bs) \ ({b} \X R)) \cap ({b} \X Q) = {}
    <3>1. b \in Failed(bs) /\ R \subseteq Steps
      BY <1>1, <1>4 DEF Failed, Batch
    <3>. QED
      BY <3>1 DEF Orphans
  <2>5. Cardinality(Orphans(cs)) = Cardinality(Orphans(bs)) - Cardinality(R) + Cardinality(Q)
    <3>. DEFINE X == {b} \X R
                Y == {b} \X Q
    <3>1. /\ IsFiniteSet(Y) /\ Cardinality(X) = Cardinality(R) /\ Cardinality(Y) = Cardinality(Q)
      BY <1>3, PairsWith
    <3>2. X \in SUBSET Orphans(bs) /\ (Orphans(bs) \ X) \cap Y = {}
      BY <2>4
    <3>3. Orphans(cs) = (Orphans(bs) \ X) \cup Y
      BY <2>3
    <3>. HIDE DEF X, Y
    <3>4. Cardinality((Orphans(bs) \ X) \cup Y)
             = Cardinality(Orphans(bs)) - Cardinality(X) + Cardinality(Y)
      <4>1. IsFiniteSet(Orphans(bs)) /\ IsFiniteSet(Y)
        BY <1>2, <3>1
      <4>. QED
        BY ONLY <4>1, <3>2, PartReplaced
    <3>. QED
      BY <3>1, <3>3, <3>4
  <2>6. Cardinality(Orphans(cs)) <= Cardinality(Orphans(bs))
    BY <1>2, <1>3, <2>1, <2>5
  <2>. QED
    BY <1>2, <2>2, <2>5, <2>6, <1>3
<1>5. CASE bs[b].outcome # "failed" /\ cs[b].outcome = "failed"
  <2>1. Failed(cs) = Failed(bs) \cup {b} /\ b \notin Failed(bs)
    BY <1>5 DEF Failed
  <2>2. Cardinality(Failed(cs)) = Cardinality(Failed(bs)) + 1
    BY <1>2, <2>1, FS_AddElement
  <2>3. Orphans(cs) = Orphans(bs) \cup ({b} \X Q)
    <3>1. Q \subseteq Steps
      BY <1>1 DEF Batch
    <3>. QED
      BY <2>1, <3>1 DEF Orphans
  <2>4. Orphans(bs) \cap ({b} \X Q) = {}
    BY <2>1 DEF Orphans
  <2>5. Cardinality(Orphans(cs)) = Cardinality(Orphans(bs)) + Cardinality(Q)
    <3>. DEFINE Y == {b} \X Q
    <3>1. IsFiniteSet(Y) /\ Cardinality(Y) = Cardinality(Q)
      BY <1>3, PairsWith
    <3>2. Cardinality(Orphans(bs) \cap Y) = 0
      BY <2>4, FS_EmptySet
    <3>3. Orphans(cs) = Orphans(bs) \cup Y
      BY <2>3
    <3>. HIDE DEF Y
    <3>4. Cardinality(Orphans(bs) \cup Y)
             = Cardinality(Orphans(bs)) + Cardinality(Y) - Cardinality(Orphans(bs) \cap Y)
      BY <1>2, <3>1, FS_Union
    <3>. QED
      BY <1>2, <1>3, <3>1, <3>2, <3>3, <3>4
  <2>6. Cardinality(Q) <= Width - 1
    BY <1>1, <1>5 DEF BatchOK
  <2>7. (Width - 1) * (Cardinality(Failed(bs)) + 1)
           = (Width - 1) * Cardinality(Failed(bs)) + (Width - 1)
    BY <1>2
  <2>. QED
    BY <1>2, <1>3, <2>2, <2>5, <2>6, <2>7
<1>6. CASE bs[b].outcome # "failed" /\ cs[b].outcome # "failed"
  <2>1. Failed(cs) = Failed(bs)
    BY <1>6 DEF Failed
  <2>2. Orphans(cs) = Orphans(bs)
    BY <1>6, <2>1 DEF Orphans, Failed
  <2>. QED
    BY <2>1, <2>2
<1>. QED
  BY <1>4, <1>5, <1>6

(* A batch that starts adds nothing to what is left behind.                *)
LEMMA OrphansOfStart ==
  ASSUME NEW bs \in Seq(Batch), NEW new \in Batch, new.outcome = "starting"
  PROVE  Failed(Append(bs, new)) = Failed(bs) /\ Orphans(Append(bs, new)) = Orphans(bs)
<1>1. /\ Len(Append(bs, new)) = Len(bs) + 1 /\ Len(bs) \in Nat
      /\ \A c \in 1..Len(bs) : Append(bs, new)[c] = bs[c]
      /\ Append(bs, new)[Len(bs) + 1] = new
  OBVIOUS
<1>2. \A c : c \in 1..(Len(bs) + 1) <=> c \in 1..Len(bs) \/ c = Len(bs) + 1
  BY <1>1
<1>. DEFINE cs == Append(bs, new)
<1>. HIDE DEF cs
<1>3. Failed(cs) = Failed(bs)
  BY <1>1, <1>2 DEF Failed, cs
<1>4. \A c \in Failed(bs) : c \in 1..Len(bs) /\ c \in 1..Len(cs) /\ cs[c] = bs[c]
  BY <1>1, <1>2 DEF Failed, cs
<1>5. Orphans(cs) = Orphans(bs)
  BY <1>3, <1>4 DEF Orphans
<1>. QED
  BY <1>3, <1>5 DEF cs

(* One batch of one turn becomes another one.                              *)
LEMMA BatchReplaced ==
  ASSUME batches \in [Tasks -> Seq(Batch)],
         NEW t \in Tasks, NEW b \in 1..Len(batches[t]), NEW new \in Batch,
         batches' = [batches EXCEPT ![t][b] = new]
  PROVE  /\ batches' \in [Tasks -> Seq(Batch)]
         /\ \A u \in Tasks : Len(batches'[u]) = Len(batches[u])
         /\ \A u \in Tasks : u # t => batches'[u] = batches[u]
         /\ batches'[t][b] = new
         /\ \A c \in 1..Len(batches[t]) : c # b => batches'[t][c] = batches[t][c]
<1>. DEFINE cs == [batches[t] EXCEPT ![b] = new]
<1>1. batches' = [batches EXCEPT ![t] = cs]
  OBVIOUS
<1>2. /\ cs \in Seq(Batch) /\ Len(cs) = Len(batches[t])
      /\ cs[b] = new /\ \A c \in 1..Len(batches[t]) : c # b => cs[c] = batches[t][c]
  BY ExceptSeq
<1>. HIDE DEF cs
<1>. QED
  BY <1>1, <1>2

-----------------------------------------------------------------------------
(* What happens to a batch that exists, while the rest stays as it is.     *)
Moves(t, b) ==
  /\ \E new : BatchStep(batches[t][b], new) /\ batches' = [batches EXCEPT ![t][b] = new]
  /\ UNCHANGED <<perConn, cleared, current, turn>>

(* The end of a step is such a move, of any batch of a turn.               *)
LEMMA StepEndsMoves ==
  ASSUME TypeOK, BatchesInv,
         NEW t \in Tasks, NEW b \in 1..Len(batches[t]), NEW s \in Steps, StepEnds(t, b, s)
  PROVE  Moves(t, b)
<1>. DEFINE old == batches[t][b]
<1>1. old \in Batch /\ BatchOK(old) /\ s \in old.running /\ aborted[t] \in BOOLEAN
  BY DEF TypeOK, BatchesInv, StepEnds, StepSucceeds, StepFails, StepThrows
<1>2. CASE StepSucceeds(t, b, s)
  <2>1. BatchStep(old, AfterSuccess(old, s, aborted[t]))
    <3>. HIDE DEF old
    <3>. QED
      BY <1>1, WorkerGoesOn
  <2>. QED
    BY <1>2, <2>1 DEF StepSucceeds, Moves
<1>3. CASE StepFails(t, b, s)
  <2>. DEFINE left == Completed(old, s, "failed")
  <2>1. /\ left \in Batch /\ left.running = old.running \ {s}
        /\ left.ids = old.ids /\ left.outcome = old.outcome
    BY <1>1 DEF Batch, Completed
  <2>2. BatchStep(old, Reject(left, "failed"))
    <3>. HIDE DEF old, left
    <3>. QED
      BY <1>1, <2>1, WorkerLeaves
  <2>3. /\ batches' = [batches EXCEPT ![t][b] = Reject(left, "failed")]
        /\ UNCHANGED <<perConn, cleared, current, turn>>
    BY <1>3 DEF StepFails
  <2>. HIDE DEF left
  <2>. QED
    BY <2>2, <2>3 DEF Moves
<1>4. CASE StepThrows(t, b, s)
  <2>. DEFINE left == Abandoned(old, s)
  <2>1. /\ left \in Batch /\ left.running = old.running \ {s}
        /\ left.ids = old.ids /\ left.outcome = old.outcome
    BY <1>1 DEF Batch, Abandoned
  <2>2. \A why \in {"failed", "aborted"} : BatchStep(old, Reject(left, why))
    <3>. HIDE DEF old, left
    <3>. QED
      BY <1>1, <2>1, WorkerLeaves
  <2>3. /\ \E why \in {"failed", "aborted"} :
             batches' = [batches EXCEPT ![t][b] = Reject(left, why)]
        /\ UNCHANGED <<perConn, cleared, current, turn>>
    BY <1>4 DEF StepThrows
  <2>. HIDE DEF left
  <2>. QED
    BY <2>2, <2>3 DEF Moves
<1>. QED
  BY <1>2, <1>3, <1>4 DEF StepEnds

(* So is the launch of the workers, of the last batch.                     *)
LEMMA LaunchMoves ==
  ASSUME TypeOK, BatchesInv, NEW t \in Tasks, Launch(t)
  PROVE  Len(batches[t]) \in 1..Len(batches[t]) /\ Moves(t, Len(batches[t]))
<1>. DEFINE b == Len(batches[t])
            old == batches[t][b]
<1>1. b \in 1..Len(batches[t])
  <2>1. batches[t] # <<>> /\ batches[t] \in Seq(Batch)
    BY DEF Launch, BatchesInv, TypeOK
  <2>. QED
    BY <2>1, EmptySeq
<1>2. old \in Batch /\ BatchOK(old) /\ old.outcome = "starting" /\ old.running = {}
  <2>1. old \in Batch /\ BatchOK(old)
    BY <1>1 DEF TypeOK, BatchesInv
  <2>2. old.outcome = "starting"
    BY DEF Launch
  <2>. QED
    BY <2>1, <2>2 DEF BatchOK
<1>3. PICK first \in SUBSET old.todo :
        /\ IsFirst(first, Width, old.todo)
        /\ batches' = [batches EXCEPT ![t][b] =
             IF aborted[t] THEN [old EXCEPT !.outcome = "aborted"]
             ELSE [old EXCEPT !.todo = @ \ first, !.running = first, !.outcome = "pending"]]
  BY DEF Launch
<1>4. first \subseteq Steps /\ Cardinality(first) \in Nat /\ Cardinality(first) <= Width
  <2>1. IsFiniteSet(old.todo) /\ first \subseteq Steps
    BY <1>2, FS_Subset, TurnsAssumption DEF Batch
  <2>2. IsFiniteSet(first) /\ Cardinality(first) \in Nat /\ Cardinality(old.todo) \in Nat
    BY <2>1, FS_Subset, FS_CardinalityType
  <2>. QED
    BY <1>3, <2>1, <2>2, TurnsAssumption DEF IsFirst
<1>5. BatchStep(old, [old EXCEPT !.outcome = "aborted"])
  <2>. DEFINE new == [old EXCEPT !.outcome = "aborted"]
  <2>1. /\ new \in Batch /\ new.ids = old.ids /\ new.running = {} /\ new.outcome = "aborted"
    BY <1>2 DEF Batch, Outcome
  <2>2. Cardinality({}) = 0
    BY FS_EmptySet
  <2>. HIDE DEF old, new
  <2>3. BatchOK(new)
    BY <2>1, <2>2, TurnsAssumption DEF BatchOK
  <2>4. BatchStep(old, new)
    BY <1>2, <2>1, <2>3 DEF BatchStep
  <2>. QED
    BY <2>4 DEF new
<1>6. BatchStep(old, [old EXCEPT !.todo = @ \ first, !.running = first, !.outcome = "pending"])
  <2>. DEFINE new == [old EXCEPT !.todo = @ \ first, !.running = first, !.outcome = "pending"]
  <2>. HIDE DEF old
  <2>1. /\ new \in Batch /\ new.ids = old.ids /\ new.running = first
        /\ new.todo = old.todo \ first /\ new.results = old.results /\ new.outcome = "pending"
    BY <1>2, <1>4 DEF Batch, Outcome
  <2>. HIDE DEF new
  <2>2. \A s \in new.ids : s \in new.todo \/ s \in new.running \/ new.results[s] = "ok"
    BY <1>2, <2>1 DEF BatchOK
  <2>3. BatchOK(new)
    BY <1>4, <2>1, <2>2 DEF BatchOK
  <2>4. BatchStep(old, new)
    BY <1>2, <2>1, <2>3 DEF BatchStep
  <2>. QED
    BY <2>4 DEF new
<1>7. UNCHANGED <<perConn, cleared, current, turn>>
  BY DEF Launch
<1>. HIDE DEF old
<1>8. \E new : BatchStep(old, new) /\ batches' = [batches EXCEPT ![t][b] = new]
  BY <1>3, <1>5, <1>6
<1>. QED
  BY <1>1, <1>7, <1>8 DEF Moves, old

-----------------------------------------------------------------------------
(* The checklist that a batch reports is one.                              *)
LEMMA ApplyResultsIsChecklist ==
  ASSUME NEW batch \in Batch
  PROVE  ApplyResults(batch) \in Checklist
BY DEF ApplyResults, Batch, Checklist, Status

(* A conversation keeps its length.                                        *)
LEMMA RecordExchangeFits ==
  ASSUME NEW t \in Tasks, conversation \in Seq(Tasks), Len(conversation) <= MaxExchanges,
         RecordExchange(t)
  PROVE  /\ conversation' \in Seq(Tasks) /\ Len(conversation') <= MaxExchanges
         /\ \A i \in 1..Len(conversation') :
              conversation'[i] = t \/ \E j \in 1..Len(conversation) : conversation'[i] = conversation[j]
<1>. DEFINE next == Append(conversation, t)
<1>1. /\ next \in Seq(Tasks) /\ Len(next) = Len(conversation) + 1 /\ Len(conversation) \in Nat
      /\ \A i \in 1..Len(conversation) : next[i] = conversation[i]
      /\ next[Len(conversation) + 1] = t
  OBVIOUS
<1>2. conversation' = IF Len(next) > MaxExchanges THEN Tail(next) ELSE next
  BY DEF RecordExchange
<1>. HIDE DEF next
<1>3. next # <<>>
  BY <1>1, EmptySeq
<1>4. /\ Tail(next) \in Seq(Tasks) /\ Len(Tail(next)) = Len(next) - 1
      /\ \A i \in 1..Len(Tail(next)) : Tail(next)[i] = next[i + 1]
  BY <1>1, <1>3, HeadTailProperties
<1>5. \A i \in 1..(Len(conversation) + 1) :
        next[i] = t \/ \E j \in 1..Len(conversation) : next[i] = conversation[j]
  BY <1>1
<1>6. MaxExchanges \in Nat \ {0}
  BY TurnsAssumption
<1>7. CASE Len(next) > MaxExchanges
  <2>1. conversation' = Tail(next)
    BY <1>2, <1>7
  <2>2. Len(Tail(next)) = Len(conversation)
    BY <1>1, <1>4
  <2>3. \A i \in 1..Len(Tail(next)) :
          Tail(next)[i] = t \/ \E j \in 1..Len(conversation) : Tail(next)[i] = conversation[j]
    <3>1. TAKE i \in 1..Len(Tail(next))
    <3>2. i + 1 \in 1..(Len(conversation) + 1)
      BY <1>1, <2>2
    <3>. QED
      BY <1>4, <1>5, <3>2
  <2>. QED
    BY <1>4, <2>1, <2>2, <2>3
<1>8. CASE ~(Len(next) > MaxExchanges)
  <2>1. conversation' = next
    BY <1>2, <1>8
  <2>2. Len(next) <= MaxExchanges
    BY <1>1, <1>6, <1>8
  <2>. QED
    BY <1>1, <1>5, <2>1, <2>2
<1>. QED
  BY <1>7, <1>8

(* Every step of the connection keeps the values of its variables.         *)
LEMMA TypeStep == TypeOK /\ BatchesInv /\ [Next]_vars => TypeOK'
<1>. SUFFICES ASSUME TypeOK, BatchesInv, [Next]_vars
              PROVE  TypeOK'
  OBVIOUS
<1>. USE TurnsAssumption DEF Phase
<1>1. CASE Cancel
  BY <1>1 DEF Cancel, TypeOK, perConn
<1>2. CASE ClearSession
  BY <1>2 DEF ClearSession, TypeOK, turn, NoPlan, Checklist, Status
<1>3. ASSUME NEW t \in Tasks, Submit(t)
      PROVE  TypeOK'
  BY <1>3 DEF Submit, TypeOK, perConn
<1>4. ASSUME NEW t \in Tasks, Begin(t)
      PROVE  TypeOK'
  BY <1>4 DEF Begin, TypeOK, perConn
<1>5. ASSUME NEW t \in Tasks, NEW new \in Checklists, UpdatePlan(t, new)
      PROVE  TypeOK'
  BY <1>5 DEF UpdatePlan, EmitPlanUpdate, TypeOK
<1>6. ASSUME NEW t \in Tasks, ReviewContinues(t)
      PROVE  TypeOK'
  BY <1>6 DEF ReviewContinues, TypeOK, perConn
<1>7. ASSUME NEW t \in Tasks, ReviewStops(t) \/ Finish(t)
      PROVE  TypeOK'
  BY <1>7, RecordExchangeFits DEF ReviewStops, Finish, End, TypeOK
<1>8. ASSUME NEW t \in Tasks, Throw(t)
      PROVE  TypeOK'
  BY <1>8 DEF Throw, End, TypeOK, perConn
<1>9. ASSUME NEW t \in Tasks, NEW ids \in SUBSET Steps, RunStepsParallel(t, ids)
      PROVE  TypeOK'
  <2>. DEFINE new == [ids |-> ids, snapshot |-> activePlan, todo |-> ids, running |-> {},
                      results |-> [s \in Steps |-> "none"], outcome |-> "starting"]
  <2>1. new \in Batch
    BY DEF Batch, Outcome, TypeOK
  <2>2. batches' = [batches EXCEPT ![t] = Append(batches[t], new)]
    BY <1>9 DEF RunStepsParallel
  <2>. HIDE DEF new
  <2>3. batches' \in [Tasks -> Seq(Batch)]
    BY <2>1, <2>2 DEF TypeOK
  <2>. QED
    BY <1>9, <2>3 DEF RunStepsParallel, TypeOK, perConn
<1>10. ASSUME NEW t \in Tasks, NEW b \in 1..Len(batches[t]), Moves(t, b)
       PROVE  TypeOK'
  <2>1. batches' \in [Tasks -> Seq(Batch)]
    BY <1>10, BatchReplaced DEF Moves, BatchStep, TypeOK
  <2>. QED
    BY <1>10, <2>1 DEF Moves, TypeOK, perConn, turn
<1>11. ASSUME NEW t \in Tasks, BatchReturns(t)
       PROVE  TypeOK'
  <2>1. Len(batches[t]) \in 1..Len(batches[t]) /\ batches[t][Len(batches[t])] \in Batch
    <3>1. batches[t] # <<>> /\ batches[t] \in Seq(Batch)
      BY <1>11 DEF BatchReturns, BatchesInv, TypeOK
    <3>. QED
      BY <3>1, EmptySeq
  <2>2. ApplyResults(batches[t][Len(batches[t])]) \in Checklist
    BY <2>1, ApplyResultsIsChecklist
  <2>. QED
    BY <1>11, <2>2 DEF BatchReturns, EmitPlanUpdate, End, TypeOK
<1>12. CASE UNCHANGED vars
  BY <1>12 DEF vars, perConn, turn, TypeOK
<1>. QED
  BY <1>1, <1>2, <1>3, <1>4, <1>5, <1>6, <1>7, <1>8, <1>9, <1>10, <1>11, <1>12,
     LaunchMoves, StepEndsMoves DEF Next

(* Every step of the connection keeps the batches in order: a turn goes on *)
(* after a batch only when that has settled, and whatever runs later runs  *)
(* in a batch that failed, or that the turn waits for.                     *)
LEMMA BatchesStep == TypeOK /\ BatchesInv /\ [Next]_vars => BatchesInv'
<1>. SUFFICES ASSUME TypeOK, BatchesInv, [Next]_vars
              PROVE  BatchesInv'
  OBVIOUS
<1>1. CASE Cancel \/ ClearSession \/ UNCHANGED vars
  <2>1. UNCHANGED <<phase, batches>>
    BY <1>1 DEF Cancel, ClearSession, vars, perConn, turn
  <2>. QED
    BY <2>1 DEF BatchesInv
<1>2. ASSUME NEW t \in Tasks,
             \/ Submit(t) \/ Begin(t) \/ (\E new \in Checklists : UpdatePlan(t, new))
             \/ ReviewContinues(t)
      PROVE  BatchesInv'
  <2>1. /\ batches' = batches
        /\ phase[t] \in {"idle", "starting", "deciding", "review"}
        /\ \A u \in Tasks : phase'[u] # phase[u] => u = t /\ phase'[u] # "batch"
    BY <1>2 DEF Submit, Begin, UpdatePlan, ReviewContinues, Deciding, TypeOK
  <2>. QED
    BY <2>1 DEF BatchesInv
<1>3. ASSUME NEW t \in Tasks, ReviewStops(t) \/ Finish(t) \/ Throw(t)
      PROVE  BatchesInv'
  <2>1. /\ batches' = batches
        /\ \A u \in Tasks : phase'[u] # phase[u] => phase'[u] = "ended"
    BY <1>3 DEF ReviewStops, Finish, Throw, End, TypeOK
  <2>. QED
    BY <2>1 DEF BatchesInv
<1>4. ASSUME NEW t \in Tasks, NEW ids \in SUBSET Steps, RunStepsParallel(t, ids)
      PROVE  BatchesInv'
  <2>. DEFINE new == [ids |-> ids, snapshot |-> activePlan, todo |-> ids, running |-> {},
                      results |-> [s \in Steps |-> "none"], outcome |-> "starting"]
              bs == batches[t]
  <2>1. /\ new \in Batch /\ new.outcome = "starting" /\ new.running = {}
        /\ new.ids = ids /\ new.todo = ids
    BY DEF Batch, Outcome, TypeOK
  <2>2. /\ batches' = [batches EXCEPT ![t] = Append(bs, new)]
        /\ phase' = [phase EXCEPT ![t] = "batch"] /\ phase[t] = "deciding"
    BY <1>4 DEF RunStepsParallel, Deciding
  <2>. HIDE DEF new
  <2>3. BatchOK(new)
    BY <2>1, FS_EmptySet, TurnsAssumption DEF BatchOK
  <2>4. /\ bs \in Seq(Batch) /\ Len(bs) \in Nat /\ Len(Append(bs, new)) = Len(bs) + 1
        /\ \A c \in 1..Len(bs) : Append(bs, new)[c] = bs[c]
        /\ Append(bs, new)[Len(bs) + 1] = new /\ Append(bs, new) \in Seq(Batch)
    BY <2>1 DEF TypeOK
  <2>5. /\ Orphans(batches'[t]) = Orphans(bs) /\ Failed(batches'[t]) = Failed(bs)
        /\ batches'[t] = Append(bs, new) /\ phase'[t] = "batch"
        /\ \A u \in Tasks : u # t => batches'[u] = batches[u] /\ phase'[u] = phase[u]
    BY <2>1, <2>2, <2>4, OrphansOfStart DEF TypeOK
  <2>6. \A c \in 1..(Len(bs) + 1) : c \in 1..Len(bs) \/ c = Len(bs) + 1
    BY <2>4
  <2>. HIDE DEF bs
  <2>7. \A c \in 1..Len(bs) : BatchOK(bs[c]) /\ bs[c].outcome \in {"resolved", "failed"}
    BY <2>2 DEF BatchesInv, bs
  <2>8. \A c \in 1..Len(batches'[t]) :
          /\ BatchOK(batches'[t][c])
          /\ c < Len(batches'[t]) => batches'[t][c].outcome \in {"resolved", "failed"}
    BY <2>3, <2>4, <2>5, <2>6, <2>7
  <2>9. Cardinality(Orphans(bs)) <= (Width - 1) * Cardinality(Failed(bs))
    BY DEF BatchesInv, bs
  <2>10. batches'[t] # <<>>
    BY <2>4, <2>5, EmptySeq
  <2>. QED
    BY <2>5, <2>8, <2>9, <2>10 DEF BatchesInv
<1>5. ASSUME NEW t \in Tasks, NEW b \in 1..Len(batches[t]), Moves(t, b)
      PROVE  BatchesInv'
  <2>1. PICK new : /\ BatchStep(batches[t][b], new)
                   /\ batches' = [batches EXCEPT ![t][b] = new]
    BY <1>5 DEF Moves
  <2>2. /\ phase' = phase /\ batches[t] \in Seq(Batch) /\ batches'[t] \in Seq(Batch)
        /\ Len(batches'[t]) = Len(batches[t])
        /\ \A u \in Tasks : u # t => batches'[u] = batches[u]
        /\ batches'[t][b] = new
        /\ \A c \in 1..Len(batches[t]) : c # b => batches'[t][c] = batches[t][c]
    BY <1>5, <2>1, BatchReplaced DEF Moves, turn, BatchStep, TypeOK
  <2>3. Cardinality(Orphans(batches'[t])) <= (Width - 1) * Cardinality(Failed(batches'[t]))
    BY <2>1, <2>2, OrphansOfStep DEF BatchesInv
  <2>4. \A c \in 1..Len(batches[t]) :
          /\ BatchOK(batches'[t][c])
          /\ batches[t][c].outcome \in {"resolved", "failed"}
               => batches'[t][c].outcome \in {"resolved", "failed"}
    BY <2>1, <2>2 DEF BatchesInv, BatchStep
  <2>5. batches[t] # <<>> => batches'[t] # <<>>
    BY <2>2, EmptySeq
  <2>. QED
    BY <2>2, <2>3, <2>4, <2>5 DEF BatchesInv
<1>6. ASSUME NEW t \in Tasks, BatchReturns(t)
      PROVE  BatchesInv'
  <2>. DEFINE n == Len(batches[t])
  <2>1. /\ batches' = batches /\ \A u \in Tasks : u # t => phase'[u] = phase[u]
        /\ phase[t] = "batch"
        /\ \/ phase'[t] = "ended"
           \/ phase'[t] = "deciding" /\ batches[t][n].outcome \in {"resolved", "failed"}
    BY <1>6 DEF BatchReturns, End, TypeOK
  <2>2. \A b \in 1..n : b < n \/ b = n
    BY DEF TypeOK
  <2>3. phase'[t] = "deciding" =>
          \A b \in 1..n : batches[t][b].outcome \in {"resolved", "failed"}
    BY <2>1, <2>2 DEF BatchesInv
  <2>. QED
    BY <2>1, <2>3 DEF BatchesInv
<1>. QED
  BY <1>1, <1>2, <1>3, <1>4, <1>5, <1>6, LaunchMoves, StepEndsMoves DEF Next

(* Every step of the connection keeps the checklist, the conversation and  *)
(* the current task in step, as long as nobody cancels.                    *)
LEMMA OwnStep == TypeOK /\ BatchesInv /\ OwnInv /\ [Next]_vars => OwnInv'
<1>. SUFFICES ASSUME TypeOK, BatchesInv, OwnInv, [Next]_vars
              PROVE  OwnInv'
  OBVIOUS
<1>. USE TurnsAssumption DEF OwnInv, Uncancelled, ChecklistIsOwn, HasChecklist,
                             ChecklistStaysCleared, ConversationStaysCleared
<1>1. CASE Cancel
  BY <1>1 DEF Cancel, TypeOK, perConn
<1>2. CASE ClearSession
  BY <1>2 DEF ClearSession, TypeOK, turn
<1>3. ASSUME NEW t \in Tasks, Submit(t)
      PROVE  OwnInv'
  <2>1. /\ UNCHANGED <<activePlan, conversation, cleared, aborted, planThisTurn>>
        /\ phase[t] = "idle" /\ current = None /\ current' = t
    BY <1>3 DEF Submit, perConn
  <2>2. \A u \in Tasks : phase'[u] = IF u = t THEN "starting" ELSE phase[u]
    BY <1>3 DEF Submit, TypeOK
  <2>3. \A u \in Tasks : since'[u] = IF u = t THEN cleared ELSE since[u]
    BY <1>3 DEF Submit, TypeOK
  <2>4. \A u \in Tasks : phase'[u] \in {"idle", "starting"} => planThisTurn'[u] = None
    BY <2>1, <2>2
  <2>5. Uncancelled' => Uncancelled
    BY <2>1
  <2>6. Uncancelled => \A u \in Tasks : phase'[u] \notin {"idle", "ended"} => u = current'
    BY <2>1, <2>2, TurnsAssumption DEF TypeOK
  <2>7. current' # None => since'[current'] = cleared'
    BY <2>1, <2>3
  <2>8. ChecklistIsOwn'
    BY <2>1, <2>2
  <2>9. Uncancelled => ChecklistStaysCleared'
    <3>1. \A u \in Tasks : since[u] = cleared => since'[u] = cleared
      BY <2>3
    <3>. QED
      BY <2>1, <3>1
  <2>10. Uncancelled => ConversationStaysCleared'
    <3>1. \A i \in 1..Len(conversation) : conversation[i] \in Tasks
      BY DEF TypeOK
    <3>. QED
      BY <2>1, <2>3, <3>1
  <2>. QED
    BY <2>4, <2>5, <2>6, <2>7, <2>8, <2>9, <2>10
<1>4. ASSUME NEW t \in Tasks, Begin(t)
      PROVE  OwnInv'
  BY <1>4 DEF Begin, TypeOK, perConn
<1>5. ASSUME NEW t \in Tasks, NEW new \in Checklists, UpdatePlan(t, new)
      PROVE  OwnInv'
  BY <1>5 DEF UpdatePlan, EmitPlanUpdate, Deciding, TypeOK
<1>6. ASSUME NEW t \in Tasks, ReviewContinues(t)
      PROVE  OwnInv'
  BY <1>6 DEF ReviewContinues, TypeOK, perConn
<1>7. ASSUME NEW t \in Tasks, ReviewStops(t) \/ Finish(t)
      PROVE  OwnInv'
  <2>1. /\ UNCHANGED <<activePlan, cleared, aborted, planThisTurn, since>>
        /\ RecordExchange(t) /\ phase[t] \in {"review", "deciding"}
        /\ phase' = [phase EXCEPT ![t] = "ended"]
        /\ current' = IF current = t THEN None ELSE current
    BY <1>7 DEF ReviewStops, Finish, Deciding, End
  <2>2. \A i \in 1..Len(conversation') :
          conversation'[i] = t \/ \E j \in 1..Len(conversation) : conversation'[i] = conversation[j]
    BY RecordExchangeFits, <2>1 DEF TypeOK
  <2>3. \A u \in Tasks : phase'[u] = IF u = t THEN "ended" ELSE phase[u]
    BY <2>1 DEF TypeOK
  <2>4. \A u \in Tasks : phase'[u] \in {"idle", "starting"} => planThisTurn'[u] = None
    BY <2>1, <2>3
  <2>5. ASSUME Uncancelled
        PROVE  /\ current = t /\ current' = None /\ since[t] = cleared
               /\ \A u \in Tasks : phase'[u] \in {"idle", "ended"}
               /\ ChecklistStaysCleared /\ ConversationStaysCleared
    BY <2>1, <2>3, <2>5
  <2>6. Uncancelled' => Uncancelled
    BY <2>1
  <2>7. Uncancelled => ConversationStaysCleared'
    BY <2>1, <2>2, <2>5
  <2>8. Uncancelled => ChecklistStaysCleared'
    BY <2>1, <2>5
  <2>. QED
    BY <2>4, <2>5, <2>6, <2>7, <2>8
<1>8. ASSUME NEW t \in Tasks, Throw(t)
      PROVE  OwnInv'
  BY <1>8 DEF Throw, End, TypeOK, perConn
<1>9. ASSUME NEW t \in Tasks, NEW ids \in SUBSET Steps, RunStepsParallel(t, ids)
      PROVE  OwnInv'
  BY <1>9 DEF RunStepsParallel, Deciding, TypeOK, perConn
<1>10. ASSUME NEW t \in Tasks, NEW b \in 1..Len(batches[t]), Moves(t, b)
       PROVE  OwnInv'
  BY <1>10 DEF Moves, perConn, turn
<1>11. ASSUME NEW t \in Tasks, BatchReturns(t)
       PROVE  OwnInv'
  <2>. DEFINE new == ApplyResults(batches[t][Len(batches[t])])
  <2>1. Len(batches[t]) \in 1..Len(batches[t]) /\ batches[t][Len(batches[t])] \in Batch
    <3>1. batches[t] # <<>> /\ batches[t] \in Seq(Batch)
      BY <1>11 DEF BatchReturns, BatchesInv, TypeOK
    <3>. QED
      BY <3>1, EmptySeq
  <2>2. new \in Checklist
    BY <2>1, ApplyResultsIsChecklist
  <2>3. /\ activePlan' = new /\ planThisTurn' = [planThisTurn EXCEPT ![t] = new]
        /\ UNCHANGED <<conversation, cleared, aborted, since>>
        /\ phase[t] = "batch"
        /\ \A u \in Tasks : u # t => phase'[u] = phase[u]
        /\ phase'[t] \in {"deciding", "ended"}
        /\ current' = current \/ (current = t /\ current' = None /\ phase'[t] = "ended")
        /\ phase'[t] = "ended" => current' # t
    BY <1>11 DEF BatchReturns, EmitPlanUpdate, End, TypeOK
  <2>. HIDE DEF new
  <2>4. \A u \in Tasks : planThisTurn'[u] = IF u = t THEN new ELSE planThisTurn[u]
    BY <2>3 DEF TypeOK
  <2>5. \A u \in Tasks : phase'[u] \in {"idle", "starting"} => planThisTurn'[u] = None
    BY <2>3, <2>4
  <2>12. Uncancelled' => Uncancelled
    BY <2>3
  <2>6. Uncancelled => current = t
    BY <2>3
  <2>7. Uncancelled => /\ \A u \in Tasks : phase'[u] \notin {"idle", "ended"} => u = current'
                       /\ current' # None => since'[current'] = cleared'
    BY <2>3, <2>6
  <2>8. Uncancelled => ChecklistIsOwn'
    BY <2>3, <2>4, <2>6
  <2>9. new # None
    BY <2>2, TurnsAssumption
  <2>10. Uncancelled => ChecklistStaysCleared'
    BY <2>3, <2>4, <2>6, <2>9, TurnsAssumption DEF TypeOK
  <2>11. Uncancelled => ConversationStaysCleared'
    BY <2>3
  <2>. QED
    <3>1. \A u \in Tasks : phase'[u] \in {"idle", "starting"} => planThisTurn'[u] = None
      BY <2>5
    <3>2. ASSUME Uncancelled'
          PROVE  /\ \A u \in Tasks : phase'[u] \notin {"idle", "ended"} => u = current'
                 /\ current' # None => since'[current'] = cleared'
                 /\ ChecklistIsOwn' /\ ChecklistStaysCleared' /\ ConversationStaysCleared'
      <4>1. Uncancelled
        BY ONLY <2>12, <3>2
      <4>2. /\ \A u \in Tasks : phase'[u] \notin {"idle", "ended"} => u = current'
            /\ current' # None => since'[current'] = cleared'
        BY ONLY <2>7, <4>1
      <4>3. ChecklistIsOwn'
        BY ONLY <2>8, <4>1
      <4>4. ChecklistStaysCleared'
        BY ONLY <2>10, <4>1
      <4>5. ConversationStaysCleared'
        BY ONLY <2>11, <4>1
      <4>. QED
        BY ONLY <4>2, <4>3, <4>4, <4>5
    <3>. QED
      BY ONLY <3>1, <3>2
<1>12. CASE UNCHANGED vars
  BY <1>12 DEF vars, perConn, turn
<1>. QED
  BY <1>1, <1>2, <1>3, <1>4, <1>5, <1>6, <1>7, <1>8, <1>9, <1>10, <1>11, <1>12,
     LaunchMoves, StepEndsMoves DEF Next

-----------------------------------------------------------------------------
(* The invariant of a connection's tasks.                                  *)
THEOREM TurnsInvariant == Spec => []TurnsInv
<1>1. Init => TurnsInv
  <2>. SUFFICES ASSUME Init
                PROVE  TurnsInv
    OBVIOUS
  <2>1. TypeOK
    BY TurnsAssumption DEF Init, TypeOK, Phase, NoPlan, Checklist, Status
  <2>2. BatchesInv
    <3>1. Failed(<<>>) = {} /\ Orphans(<<>>) = {} /\ Len(<<>>) = 0
      BY DEF Failed, Orphans
    <3>2. Cardinality({}) = 0
      BY FS_EmptySet
    <3>3. \A t \in Tasks : batches[t] = <<>> /\ phase[t] = "idle"
      BY DEF Init
    <3>4. 0 <= (Width - 1) * 0
      BY TurnsAssumption
    <3>5. \A t \in Tasks :
            /\ Cardinality(Orphans(batches[t])) = 0 /\ Cardinality(Failed(batches[t])) = 0
            /\ \A b \in 1..Len(batches[t]) : FALSE
      <4>1. SUFFICES ASSUME NEW t \in Tasks
                     PROVE  /\ Cardinality(Orphans(<<>>)) = 0 /\ Cardinality(Failed(<<>>)) = 0
                            /\ \A b \in 1..Len(<<>>) : FALSE
        BY <3>3, Zenon
      <4>2. Cardinality(Orphans(<<>>)) = 0 /\ Cardinality(Failed(<<>>)) = 0
        BY <3>1, <3>2, Zenon
      <4>3. \A b \in 1..Len(<<>>) : FALSE
        OBVIOUS
      <4>. QED
        BY <4>2, <4>3, Zenon
    <3>. QED
      BY <3>3, <3>4, <3>5 DEF BatchesInv
  <2>3. OwnInv
    BY DEF Init, OwnInv, ChecklistIsOwn, HasChecklist, ChecklistStaysCleared,
           ConversationStaysCleared
  <2>. QED
    BY <2>1, <2>2, <2>3 DEF TurnsInv
<1>2. TurnsInv /\ [Next]_vars => TurnsInv'
  BY TypeStep, BatchesStep, OwnStep DEF TurnsInv
<1>. QED
  BY <1>1, <1>2, PTL DEF Spec

(* The values of the variables; a conversation never has more exchanges    *)
(* than it may keep.                                                       *)
THEOREM TypeCorrect == Spec => []TypeOK
<1>1. TurnsInv => TypeOK
  BY DEF TurnsInv
<1>. QED
  BY <1>1, TurnsInvariant, PTL

(* Tasks that follow one another without a cancellation never touch each   *)
(* other's checklist, and what /new cleared stays cleared.                 *)
THEOREM OwnWhileUncancelled == Spec => []OwnUnlessCancelled
<1>1. TurnsInv => OwnUnlessCancelled
  BY DEF TurnsInv, OwnInv, OwnUnlessCancelled
<1>. QED
  BY <1>1, TurnsInvariant, PTL

(* A step runs in two batches of a turn at once only if the earlier batch  *)
(* failed.                                                                 *)
THEOREM RunsTwiceOnlyAfterFailures == Spec => []RunsTwiceOnlyAfterFailure
<1>1. TurnsInv => RunsTwiceOnlyAfterFailure
  <2>. SUFFICES ASSUME TurnsInv, NEW t \in Tasks,
                       NEW b \in 1..Len(batches[t]), NEW c \in 1..Len(batches[t]), b < c,
                       batches[t][b].running # {}
                PROVE  batches[t][b].outcome = "failed"
    BY DEF RunsTwiceOnlyAfterFailure
  <2>1. Len(batches[t]) \in Nat
    BY DEF TurnsInv, TypeOK
  <2>2. b < Len(batches[t])
    BY <2>1
  <2>. QED
    BY <2>2 DEF TurnsInv, BatchesInv, BatchOK
<1>. QED
  BY <1>1, TurnsInvariant, PTL

(* However many batches of a turn fail, and however their workers drain,   *)
(* no more steps run at once than the width allows and one fewer for each  *)
(* failed batch.                                                           *)
THEOREM OrphansAreBounded == Spec => []OrphanBound
<1>1. TurnsInv => OrphanBound
  <2>. SUFFICES ASSUME TurnsInv, NEW t \in Tasks
                PROVE  Cardinality(RunningSteps(t))
                         <= Width + (Width - 1) * Cardinality(Failed(batches[t]))
    BY DEF OrphanBound, Failed
  <2>. DEFINE bs == batches[t]
              n == Len(bs)
              last == IF n > 0 /\ bs[n].outcome # "failed" THEN bs[n].running ELSE {}
              mine == {n} \X last
  <2>1. bs \in Seq(Batch) /\ n \in Nat
    BY DEF TurnsInv, TypeOK
  <2>2. RunningSteps(t) = Orphans(bs) \cup mine
    <3>1. \A b \in 1..n : bs[b].running \subseteq Steps
      <4>1. \A b \in 1..n : bs[b] \in Batch
        BY <2>1
      <4>. QED
        BY <4>1 DEF Batch
    <3>2. \A b \in 1..n : bs[b].outcome # "failed" => b = n \/ bs[b].running = {}
      BY <2>1 DEF TurnsInv, BatchesInv, BatchOK
    <3>3. RunningSteps(t) = {p \in (1..n) \X Steps : p[2] \in bs[p[1]].running}
      BY DEF RunningSteps
    <3>. HIDE DEF bs
    <3>4. \A p : p \in mine <=> /\ p \in (1..n) \X Steps /\ p[1] = n
                                /\ bs[n].outcome # "failed" /\ p[2] \in bs[n].running
      BY <2>1, <3>1
    <3>5. \A p : p \in Orphans(bs) <=> /\ p \in (1..n) \X Steps /\ p[2] \in bs[p[1]].running
                                       /\ bs[p[1]].outcome = "failed"
      BY DEF Orphans, Failed
    <3>. HIDE DEF mine, last
    <3>. QED
      BY <3>2, <3>3, <3>4, <3>5
  <2>3. /\ IsFiniteSet(last) /\ Cardinality(last) \in Nat /\ Cardinality(last) <= Width
    <3>1. last = {} \/ (n > 0 /\ last = bs[n].running)
      OBVIOUS
    <3>2. n > 0 => bs[n] \in Batch /\ BatchOK(bs[n])
      BY <2>1 DEF TurnsInv, BatchesInv
    <3>. HIDE DEF last, bs
    <3>3. CASE last = {}
      BY <3>3, FS_EmptySet, TurnsAssumption
    <3>4. CASE n > 0 /\ last = bs[n].running
      BY <3>2, <3>4, RunningIsFinite DEF BatchOK
    <3>. QED
      BY <3>1, <3>3, <3>4
  <2>4. IsFiniteSet(mine) /\ Cardinality(mine) = Cardinality(last)
    BY <2>3, PairsWith
  <2>5. /\ IsFiniteSet(Orphans(bs)) /\ Cardinality(Orphans(bs)) \in Nat
        /\ IsFiniteSet(Failed(bs)) /\ Cardinality(Failed(bs)) \in Nat
    BY <2>1, OrphansAreFinite
  <2>6. Cardinality(Orphans(bs)) <= (Width - 1) * Cardinality(Failed(bs))
    BY DEF TurnsInv, BatchesInv
  <2>7. Cardinality(RunningSteps(t)) <= Cardinality(Orphans(bs)) + Cardinality(last)
    <3>. HIDE DEF bs, last, mine
    <3>1. /\ IsFiniteSet(Orphans(bs) \cap mine) /\ Cardinality(Orphans(bs) \cap mine) \in Nat
          /\ Cardinality(Orphans(bs) \cup mine)
               = Cardinality(Orphans(bs)) + Cardinality(mine) - Cardinality(Orphans(bs) \cap mine)
      BY <2>4, <2>5, FS_Union, FS_Intersection, FS_CardinalityType
    <3>. QED
      BY <2>2, <2>3, <2>4, <2>5, <3>1
  <2>8. (Width - 1) * Cardinality(Failed(bs)) \in Nat
    BY <2>5, TurnsAssumption
  <2>9. Cardinality(RunningSteps(t)) <= Width + (Width - 1) * Cardinality(Failed(bs))
    <3>1. IsFiniteSet(RunningSteps(t))
      <4>. HIDE DEF bs, last, mine
      <4>. QED
        BY <2>2, <2>4, <2>5, FS_Union
    <3>2. Cardinality(RunningSteps(t)) \in Nat
      BY <3>1, FS_CardinalityType
    <3>. HIDE DEF bs, last, mine
    <3>. QED
      BY <2>3, <2>5, <2>6, <2>7, <2>8, <3>2, TurnsAssumption
  <2>. QED
    BY <2>9
<1>. QED
  BY <1>1, TurnsInvariant, PTL

(* The model that goes on after a batch sees every step that succeeded as  *)
(* done: all steps of a batch that resolved.                               *)
THEOREM ResolvedBatchesAreShown == Spec => ResolvedBatchIsShown
<1>1. TurnsInv /\ [Next]_vars =>
        [\A t \in Tasks :
           phase[t] = "batch" /\ phase'[t] = "deciding" =>
             LET batch == batches[t][Len(batches[t])]
             IN  /\ batch.outcome = "resolved" => \A s \in batch.ids : activePlan'[s] = "done"
                 /\ batch.outcome = "failed" =>
                      \A s \in batch.ids : batch.results[s] = "ok" => activePlan'[s] = "done"]_vars
  <2>. SUFFICES ASSUME TurnsInv, Next, NEW t \in Tasks, phase[t] = "batch", phase'[t] = "deciding"
                PROVE  LET batch == batches[t][Len(batches[t])]
                       IN  /\ batch.outcome = "resolved" => \A s \in batch.ids : activePlan'[s] = "done"
                           /\ batch.outcome = "failed" =>
                                \A s \in batch.ids : batch.results[s] = "ok" => activePlan'[s] = "done"
    OBVIOUS
  <2>. DEFINE batch == batches[t][Len(batches[t])]
  <2>1. batch \in Batch /\ BatchOK(batch)
    <3>1. batches[t] # <<>> /\ batches[t] \in Seq(Batch)
      BY DEF TurnsInv, BatchesInv, TypeOK
    <3>2. Len(batches[t]) \in 1..Len(batches[t])
      BY <3>1, EmptySeq
    <3>. QED
      BY <3>1, <3>2 DEF TurnsInv, BatchesInv
  <2>2. BatchReturns(t)
    <3>1. phase \in [Tasks -> Phase]
      BY DEF TurnsInv, TypeOK
    <3>2. phase' # phase
      OBVIOUS
    <3>3. ~ Cancel /\ ~ ClearSession
      BY <3>2 DEF Cancel, ClearSession, turn
    <3>4. ASSUME NEW u \in Tasks
          PROVE  ~ Launch(u) /\ \A b \in 1..Len(batches[u]) : \A s \in Steps : ~ StepEnds(u, b, s)
      BY <3>2 DEF Launch, StepEnds, StepSucceeds, StepFails, StepThrows, turn
    <3>5. ASSUME NEW u \in Tasks,
                 \/ Submit(u) \/ Begin(u) \/ (\E new \in Checklists : UpdatePlan(u, new))
                 \/ ReviewContinues(u) \/ ReviewStops(u) \/ Finish(u) \/ Throw(u)
                 \/ \E ids \in SUBSET Steps : RunStepsParallel(u, ids)
          PROVE  FALSE
      <4>1. phase[u] # "batch"
        BY <3>5
           DEF Submit, Begin, UpdatePlan, ReviewContinues, ReviewStops, Finish, Throw,
                    RunStepsParallel, Deciding
      <4>2. \A v \in Tasks : v # u => phase'[v] = phase[v]
        BY <3>1, <3>5
           DEF Submit, Begin, UpdatePlan, ReviewContinues, ReviewStops, Finish, Throw,
                    RunStepsParallel, End
      <4>. QED
        BY <4>1, <4>2
    <3>6. ASSUME NEW u \in Tasks, BatchReturns(u), u # t
          PROVE  FALSE
      BY <3>1, <3>6 DEF BatchReturns, End
    <3>. QED
      BY <3>3, <3>4, <3>5, <3>6 DEF Next
  <2>3. activePlan' = ApplyResults(batch)
    BY <2>2 DEF BatchReturns, EmitPlanUpdate
  <2>4. \A s \in batch.ids : s \in Steps
    BY <2>1 DEF Batch
  <2>5. \A s \in batch.ids : batch.results[s] = "ok" => activePlan'[s] = "done"
    BY <2>3, <2>4 DEF ApplyResults
  <2>6. batch.outcome = "resolved" => \A s \in batch.ids : batch.results[s] = "ok"
    BY <2>1 DEF BatchOK
  <2>. QED
    BY <2>5, <2>6
<1>. QED
  BY <1>1, TurnsInvariant, PTL DEF Spec, ResolvedBatchIsShown

(* Once a task is cancelled no further step of any of its batches starts.  *)
THEOREM CancellationIsFinal == Spec => NoStepStartsOnceCancelled
<1>1. TurnsInv /\ [Next]_vars =>
        [\A t \in Tasks : aborted[t] =>
           \A b \in 1..Len(batches[t]) : batches'[t][b].running \subseteq batches[t][b].running]_vars
  <2>. SUFFICES ASSUME TurnsInv, Next, NEW t \in Tasks, aborted[t], NEW b \in 1..Len(batches[t])
                PROVE  batches'[t][b].running \subseteq batches[t][b].running
    OBVIOUS
  <2>1. /\ batches \in [Tasks -> Seq(Batch)] /\ batches[t] \in Seq(Batch)
        /\ batches[t][b] \in Batch /\ BatchOK(batches[t][b])
    BY DEF TurnsInv, TypeOK, BatchesInv
  <2>2. CASE batches'[t] = batches[t]
    BY <2>2
  <2>3. ASSUME NEW c \in 1..Len(batches[t]), NEW s \in Steps, StepEnds(t, c, s)
        PROVE  batches'[t][b].running \subseteq batches[t][b].running
    <3>. DEFINE old == batches[t][c]
    <3>1. old \in Batch
      BY <2>1
    <3>2. /\ Completed(old, s, "ok") \in Batch /\ Completed(old, s, "failed") \in Batch
          /\ Abandoned(old, s) \in Batch
          /\ Completed(old, s, "ok").running \subseteq old.running
          /\ Completed(old, s, "failed").running \subseteq old.running
          /\ Abandoned(old, s).running \subseteq old.running
      <4>1. s \in old.running
        BY <2>3 DEF StepEnds, StepSucceeds, StepFails, StepThrows
      <4>. HIDE DEF old
      <4>. QED
        BY <3>1 DEF Completed, Abandoned, Batch
    <3>3. ASSUME NEW left \in Batch, NEW why
          PROVE  Reject(left, why).running = left.running
      BY DEF Reject, Batch
    <3>4. AfterSuccess(old, s, TRUE).running \subseteq old.running
      <4>. HIDE DEF old
      <4>. QED
        BY <3>2, <3>3 DEF AfterSuccess
    <3>5. \E new : new.running \subseteq old.running /\ batches' = [batches EXCEPT ![t][c] = new]
      <4>1. CASE StepSucceeds(t, c, s)
        <5>1. aborted[t] = TRUE
          BY DEF TurnsInv, TypeOK
        <5>2. batches' = [batches EXCEPT ![t][c] = AfterSuccess(old, s, TRUE)]
          BY <4>1, <5>1 DEF StepSucceeds
        <5>. HIDE DEF old
        <5>. QED
          BY <3>4, <5>2
      <4>2. CASE StepFails(t, c, s)
        <5>1. batches' = [batches EXCEPT ![t][c] = Reject(Completed(old, s, "failed"), "failed")]
          BY <4>2 DEF StepFails
        <5>. HIDE DEF old
        <5>. QED
          BY <3>2, <3>3, <5>1
      <4>3. CASE StepThrows(t, c, s)
        <5>1. \E why : batches' = [batches EXCEPT ![t][c] = Reject(Abandoned(old, s), why)]
          BY <4>3 DEF StepThrows
        <5>. HIDE DEF old
        <5>. QED
          BY <3>2, <3>3, <5>1
      <4>. QED
        BY <2>3, <4>1, <4>2, <4>3 DEF StepEnds
    <3>. QED
      BY <2>1, <3>5
  <2>4. CASE Launch(t)
    BY <2>1, <2>4 DEF Launch
  <2>5. ASSUME NEW u \in Tasks, u # t, NEW c \in 1..Len(batches[u]), Moves(u, c)
        PROVE  batches'[t] = batches[t]
    BY <2>1, <2>5 DEF Moves
  <2>6. ASSUME NEW u \in Tasks, NEW ids \in SUBSET Steps, RunStepsParallel(u, ids)
        PROVE  batches'[t] = batches[t]
    BY <2>1, <2>6 DEF RunStepsParallel, Deciding
  <2>7. ASSUME NEW u \in Tasks,
               \/ Submit(u) \/ Begin(u) \/ (\E new \in Checklists : UpdatePlan(u, new))
               \/ ReviewContinues(u) \/ ReviewStops(u) \/ Finish(u) \/ Throw(u) \/ BatchReturns(u)
        PROVE  batches'[t] = batches[t]
    BY <2>7
       DEF Submit, Begin, UpdatePlan, ReviewContinues, ReviewStops, Finish, Throw,
           BatchReturns
  <2>8. CASE Cancel \/ ClearSession
    BY <2>8 DEF Cancel, ClearSession
  <2>. QED
    BY <2>2, <2>3, <2>4, <2>5, <2>6, <2>7, <2>8, LaunchMoves, StepEndsMoves
       DEF Next, TurnsInv
<1>. QED
  BY <1>1, TurnsInvariant, PTL DEF Spec, NoStepStartsOnceCancelled
=============================================================================
