---------------------------- MODULE PlacementReport ----------------------------
(***************************************************************************)
(* Ollama runs a model that does not fit its GPU on the CPU without a      *)
(* word.  When a turn has ended the pipeline asks Ollama what is loaded    *)
(* and where, and tells the client of a model that spilled, once for each  *)
(* connection (ollama/modelPlacement.ts).  Tasks of one connection ask     *)
(* side by side, and the connection may close while they do.               *)
(***************************************************************************)
EXTENDS Naturals, FiniteSets

CONSTANTS
  Reporters,  \* tasks
  Owners,  \* connections
  LocalModels,
  MaxMoves \* how often Ollama loads, moves or unloads a model

VARIABLES
  owner,  \* whose task it is, and its model
  placed, \* where a model runs
  moves,
  asking, \* how far the report of a task is
  listed, \* where its model was when Ollama answered
  closedOwners,
  quietTasks, \* tasks that were aborted
  warned, \* warnedKeysByScope: what each connection was warned of
  toldOf, \* warnings each connection was sent, one for each task that sent it
  muted   \* warnings recorded by tasks that were aborted meanwhile

placeVars == <<owner, placed, moves, asking, listed, closedOwners, quietTasks, warned,
               toldOf, muted>>

PlacementKinds == {"absent", "gpu", "partial", "cpu", "unknown"}
Spilled == {"partial", "cpu"}

PlaceInit ==
  /\ owner \in [Reporters -> [of : Owners, model : LocalModels]]
  /\ placed = [m \in LocalModels |-> "absent"]
  /\ moves = 0
  /\ asking = [t \in Reporters |-> "turn"]
  /\ listed = [t \in Reporters |-> "absent"]
  /\ closedOwners = {} /\ quietTasks = {}
  /\ warned = [c \in Owners |-> {}]
  /\ toldOf = [c \in Owners |-> {}]
  /\ muted = {}

(* Ollama (GET /api/ps); other applications load models as well.           *)
Place(m, place) ==
  /\ moves < MaxMoves /\ placed[m] # place
  /\ moves' = moves + 1
  /\ placed' = [placed EXCEPT ![m] = place]
  /\ UNCHANGED <<owner, asking, listed, closedOwners, quietTasks, warned, toldOf, muted>>

(* The turn is over: a task that was aborted has no report, the others ask *)
(* Ollama.                                                                 *)
AskPlacement(t) ==
  /\ asking[t] = "turn"
  /\ asking' = [asking EXCEPT ![t] = IF t \in quietTasks THEN "over" ELSE "asking"]
  /\ UNCHANGED <<owner, placed, moves, listed, closedOwners, quietTasks, warned, toldOf, muted>>

(* matchRunningModel: the entry of the task's model in Ollama's list.      *)
Matched(t) == placed[owner[t].model]

OllamaLists(t) ==
  /\ asking[t] = "asking"
  /\ asking' = [asking EXCEPT ![t] = "listed"]
  /\ listed' = [listed EXCEPT ![t] = Matched(t)]
  /\ UNCHANGED <<owner, placed, moves, closedOwners, quietTasks, warned, toldOf, muted>>

ListFails(t) ==
  /\ asking[t] = "asking"
  /\ asking' = [asking EXCEPT ![t] = "over"]
  /\ UNCHANGED <<owner, placed, moves, listed, closedOwners, quietTasks, warned, toldOf, muted>>

(* Mutant: somebody was warned of it, whoever that was.                    *)
WarnedAnybody(t) == <<owner[t].model, listed[t]>> \in UNION {warned[c] : c \in Owners}

(* createModelPlacementReporter: what is new to the connection is recorded *)
(* in the step that answers, after Ollama's answer.                        *)
IsWarned(t) == <<owner[t].model, listed[t]>> \in warned[owner[t].of]

Report(t) ==
  LET c == owner[t].of
      key == <<owner[t].model, listed[t]>>
  IN
  /\ asking[t] = "listed"
  /\ asking' = [asking EXCEPT ![t] = "over"]
  /\ IF listed[t] \in Spilled /\ ~IsWarned(t)
     THEN /\ warned' = [warned EXCEPT ![c] = @ \cup {key}]
          /\ IF t \in quietTasks THEN muted' = muted \cup {<<t, key>>} /\ UNCHANGED toldOf
             ELSE toldOf' = [toldOf EXCEPT ![c] = @ \cup {<<t, key>>}] /\ UNCHANGED muted
     ELSE UNCHANGED <<warned, toldOf, muted>>
  /\ UNCHANGED <<owner, placed, moves, listed, closedOwners, quietTasks>>

(* task.cancel; a report that waits for Ollama is not given up.            *)
AbortTask(t) ==
  /\ asking[t] # "over" /\ t \notin quietTasks
  /\ quietTasks' = quietTasks \cup {t}
  /\ UNCHANGED <<owner, placed, moves, asking, listed, closedOwners, warned, toldOf, muted>>

(* The connection ends: its tasks are aborted and forgetScope is called.   *)
CloseOwner(c) ==
  /\ c \notin closedOwners
  /\ closedOwners' = closedOwners \cup {c}
  /\ quietTasks' = quietTasks \cup {t \in Reporters : owner[t].of = c}
  /\ warned' = [warned EXCEPT ![c] = {}]
  /\ UNCHANGED <<owner, placed, moves, asking, listed, toldOf, muted>>

PlaceNext ==
  \/ \E m \in LocalModels, place \in PlacementKinds : Place(m, place)
  \/ \E t \in Reporters :
       AskPlacement(t) \/ OllamaLists(t) \/ ListFails(t) \/ Report(t) \/ AbortTask(t)
  \/ \E c \in Owners : CloseOwner(c)

-----------------------------------------------------------------------------
(* A connection is told of one spill once, whichever of its tasks saw it,  *)
(* and of nothing that Ollama did not list as spilled.                     *)
ToldOnce ==
  \A c \in Owners, x, y \in UNION {toldOf[d] : d \in Owners} :
    x \in toldOf[c] =>
      /\ owner[x[1]].of = c /\ x[2][1] = owner[x[1]].model /\ x[2][2] \in Spilled
      /\ y \in toldOf[c] /\ x[2] = y[2] => x = y

(* No connection goes without a warning for another's sake: a task that    *)
(* saw a spill has its connection told of it, now or before; only a task   *)
(* of the same connection that was cancelled meanwhile can have spent the  *)
(* warning.                                                                *)
SpillIsTold ==
  \A t \in Reporters :
    LET c == owner[t].of
        unheard == {x \in muted : owner[x[1]].of = c}
    IN  asking[t] = "over" /\ listed[t] \in Spilled /\ t \notin quietTasks =>
          \E x \in toldOf[c] \cup unheard : x[2] = <<owner[t].model, listed[t]>>

(* What was forgotten with a connection comes back only by a report that   *)
(* waited for Ollama when it closed, and nobody is told of that.           *)
KeptOnlyByWaiting ==
  \A c \in closedOwners : \A key \in warned[c] : \E t \in Reporters :
    owner[t].of = c /\ <<t, key>> \in muted

PlacementInv == ToldOnce /\ SpillIsTold /\ KeptOnlyByWaiting
=============================================================================
