--------------------------- MODULE TerminalSession ----------------------------
(***************************************************************************)
(* What the user types (client/src/ui): a line starts a command or a task, *)
(* a line typed while one runs is queued and starts when it ends, Escape   *)
(* cancels the running task and empties the queue.  useSubmitLine holds a  *)
(* lock while a line is worked on; the lines that follow from the queue    *)
(* run in the closure of the one that was typed.                           *)
(***************************************************************************)
EXTENDS Naturals, Sequences, FiniteSets, SequencesExt

CONSTANTS
  Lines,      \* what may be typed, once each
  Tasks,      \* the lines that are no command
  QueueCap    \* QUEUE_CAP

ASSUME SessionAssumption == Tasks \subseteq Lines /\ QueueCap \in Nat \ {0}

VARIABLES
  typed,         \* ghost: the lines in the order they were accepted
  inputHistory,  \* the state, and the ref that is saved at exit
  captured,      \* inputHistory in the closure of submitHandler
  queued,        \* sessionQueue
  busy,          \* the state the keys are handled by
  lock,          \* submitLockRef
  jobs,          \* the lines being worked on: [line, stage]
  activeCancel,  \* activeTaskCancel is set
  ran,           \* ghost: the lines in the order they were started
  cleared,       \* ghost: lines that Escape took from the queue
  dropped        \* ghost: lines that a full queue dropped

uiVars == <<typed, inputHistory, captured, queued, busy, lock, jobs, activeCancel, ran,
            cleared, dropped>>
ghosts == <<typed, cleared, dropped>>
Stages == {"command", "connecting", "streaming", "cancelled"}

UiInit ==
  /\ typed = <<>> /\ inputHistory = <<>> /\ captured = <<>> /\ queued = <<>>
  /\ busy = FALSE /\ lock = FALSE /\ jobs = {} /\ activeCancel = FALSE
  /\ ran = <<>> /\ cleared = {} /\ dropped = {}

NotTyped == Lines \ ToSet(typed)

(* submitHandler from its lock on: the line joins the history of the       *)
(* closure it runs in.                                                     *)
Start(line, history, others) ==
  /\ inputHistory' = Append(history, line)
  /\ busy' = TRUE /\ lock' = TRUE
  /\ jobs' = others \cup {[line |-> line,
                           stage |-> IF line \in Tasks THEN "connecting" ELSE "command"]}
  /\ ran' = Append(ran, line)

(* Enter while idle.  Mutant: whether or not a line is worked on.          *)
NoLock == TRUE

MaySubmit == ~lock

Submit(line) ==
  /\ line \in NotTyped /\ ~busy /\ MaySubmit
  /\ typed' = Append(typed, line)
  /\ captured' = inputHistory
  /\ Start(line, inputHistory, jobs)
  /\ UNCHANGED <<queued, activeCancel, cleared, dropped>>

(* Enter while busy: the oldest line gives way when the queue is full.     *)
(* Mutant: the newest one does.                                            *)
DropNewest(q) == SubSeq(q, 1, IF Len(q) < QueueCap THEN Len(q) ELSE QueueCap)

Capped(q) == IF Len(q) <= QueueCap THEN q ELSE Tail(q)

Enqueue(line) ==
  /\ line \in NotTyped /\ busy
  /\ typed' = Append(typed, line)
  /\ queued' = Capped(Append(queued, line))
  /\ dropped' = dropped \cup (ToSet(Append(queued, line)) \ ToSet(queued'))
  /\ UNCHANGED <<inputHistory, captured, busy, lock, jobs, activeCancel, ran, cleared>>

(* sendTask returned its handle: from now on there is something to cancel. *)
TaskSent(job) ==
  /\ job \in jobs /\ job.stage = "connecting"
  /\ jobs' = (jobs \ {job}) \cup {[job EXCEPT !.stage = "streaming"]}
  /\ activeCancel' = TRUE
  /\ UNCHANGED <<inputHistory, captured, queued, busy, lock, ran, ghosts>>

(* Escape or Ctrl+C while busy: cancelTaskAndQueue.  Mutant: the queue     *)
(* stays.                                                                  *)
KeepQueue == queued

AfterEscape == <<>>

Escape ==
  /\ busy
  /\ jobs' = IF activeCancel
             THEN {IF j.stage = "streaming" THEN [j EXCEPT !.stage = "cancelled"] ELSE j : j \in jobs}
             ELSE jobs
  /\ queued' = AfterEscape /\ cleared' = cleared \cup ToSet(queued)
  /\ UNCHANGED <<typed, inputHistory, captured, busy, lock, activeCancel, ran, dropped>>

(* The command, the connection attempt, the stream or its cancellation     *)
(* ends: the finally blocks of runTaskStream and submitHandler, which      *)
(* starts the next line of the queue in the same closure.  Mutant of       *)
(* RunNext: the next line is taken from the queue and not started.         *)
ForgetNext(job) ==
  /\ queued' = IF queued = <<>> THEN <<>> ELSE Tail(queued)
  /\ busy' = FALSE /\ lock' = FALSE /\ jobs' = jobs \ {job}
  /\ UNCHANGED <<inputHistory, ran>>

RunNext(job) ==
  IF queued = <<>>
  THEN /\ busy' = FALSE /\ lock' = FALSE /\ jobs' = jobs \ {job}
       /\ UNCHANGED <<queued, inputHistory, ran>>
  ELSE queued' = Tail(queued) /\ Start(Head(queued), captured, jobs \ {job})

Finish(job) ==
  /\ job \in jobs
  /\ activeCancel' = FALSE /\ RunNext(job)
  /\ UNCHANGED <<captured, ghosts>>

(* The connection is lost: the state of the task is reset, although its    *)
(* stream has not ended yet, and the queue is left to wait for its end.    *)
Disconnected ==
  /\ busy' = FALSE
  /\ UNCHANGED <<inputHistory, captured, queued, lock, jobs, activeCancel, ran, ghosts>>

UiNext ==
  \/ \E line \in Lines : Submit(line) \/ Enqueue(line)
  \/ \E job \in jobs : TaskSent(job) \/ Finish(job)
  \/ Escape \/ Disconnected

(* What runs ends.                                                         *)
UiFairness == WF_uiVars(\E job \in jobs : Finish(job))
UiSpec == UiInit /\ [][UiNext]_uiVars /\ UiFairness

-----------------------------------------------------------------------------
(* The types of the variables of the session.                              *)
UiTypeOK ==
  /\ {typed, inputHistory, captured, queued, ran} \subseteq Seq(Lines)
  /\ Len(queued) <= QueueCap /\ {busy, lock, activeCancel} \subseteq BOOLEAN
  /\ jobs \subseteq [line : Lines, stage : Stages]
  /\ cleared \cup dropped \subseteq Lines

(* One line is worked on at a time, even when the loss of the connection   *)
(* makes the terminal look idle (useSubmitLine.ts:82, the lock).           *)
OneJobAtATime == Cardinality(jobs) <= 1 /\ (lock = (jobs # {}))

(* The lines are run in the order they were typed, whether they were       *)
(* submitted or queued, and none twice: two runs are of two lines, of      *)
(* which the first was typed before the other.                             *)
RunInOrder ==
  \A i, j \in 1..Len(ran) : i < j =>
    \E a, b \in 1..Len(typed) : a < b /\ typed[a] = ran[i] /\ typed[b] = ran[j]

(* No line that was accepted vanishes: it was run, it waits while          *)
(* something runs, Escape took it, or it was the oldest of a full queue.   *)
(* A lost connection takes none, whatever DisconnectClearsQueue says.      *)
NoLineVanishes ==
  /\ ToSet(typed) = ToSet(ran) \cup ToSet(queued) \cup cleared \cup dropped
  /\ queued # <<>> => jobs # {}
  /\ \A i \in 1..Len(typed) : typed[i] \in dropped =>
       \A j \in 1..i : typed[j] \notin ToSet(queued)

(* What Escape took from the queue is not run.                             *)
ClearedStaysCleared == ToSet(ran) \cap cleared = {}

(* A lost connection drops the lines that wait, as messageQueue.ts:8 and   *)
(* its line 81 say.  Not so: only Escape calls clearSessionQueue           *)
(* (App.tsx:315), the cleanup of a lost connection does not, and the lines *)
(* that were typed for the interrupted task are run when its stream ends.  *)
DisconnectClearsQueue == [][Disconnected => queued' = <<>>]_uiVars

(* A line that was typed and run can be recalled (README.md:290, and       *)
(* useSubmitLine.ts:21: the hook manages the persistence of the history).  *)
HistoryKeepsLines == ToSet(ran) \subseteq ToSet(inputHistory)

(* What holds of the lines of the session at every moment.                 *)
SessionInv ==
  UiTypeOK /\ OneJobAtATime /\ RunInOrder /\ NoLineVanishes /\ ClearedStaysCleared

(* A queued line gets its turn, unless Escape or a full queue takes it.    *)
QueueEmpty == queued = <<>>
QueueDrains == <>[]QueueEmpty
=============================================================================
