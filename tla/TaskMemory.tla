------------------------------ MODULE TaskMemory ------------------------------
(***************************************************************************)
(* What the server remembers of its tasks (runOrchestratorPipeline,        *)
(* ExperienceRecorder, SessionManager, PatternExtractor): a record in      *)
(* memory while a task runs, an experience on disk when it ends, a block   *)
(* in the session file, and rules learned from it in the background.       *)
(* Tasks of several connections share the session file, which every        *)
(* writer reads, changes and replaces with awaits in between.              *)
(***************************************************************************)
EXTENDS Naturals, Sequences, FiniteSets

CONSTANTS
  MemTasks,     \* tasks, each of a connection of its own
  MayLog,       \* [MemTasks -> SUBSET Logs]: what the tools of a task do
  HeaderLike,   \* [Texts -> Nat]: lines of its text that read "Task <number> ..."
  MaxResets     \* bound: /new and /explore

(* The texts that get into the session file: of each task the prompt, the  *)
(* names of its files and its commands, and the listing of the workspace.  *)
Texts == MemTasks \cup {"snapshot"}

ASSUME MemoryAssumption ==
  /\ MaxResets \in Nat /\ HeaderLike \in [Texts -> Nat]
  /\ MemTasks \cap {"none", "snapshot"} = {}

Logs == {"write", "escalation"}   \* reads, writes and commands count alike
NoRecord == [outcome |-> "none", logged |-> {}]

VARIABLES
  memStage,       \* [MemTasks -> MemStages]: where the pipeline is
  activeRecords,  \* tasks with a record in memory
  logged,         \* [MemTasks -> SUBSET Logs]: the arrays of the record
  inTool,         \* [MemTasks -> SUBSET Logs]: what tools in flight will log
  ok,             \* [MemTasks -> BOOLEAN]: outcome.ok
  verdict,        \* [MemTasks -> TaskOutcome]: record.outcome
  experiences,    \* [MemTasks -> the file of the task, or NoRecord]
  sessionFile,    \* the lines of current.md that match TASK_HEADER_RE
  copy,           \* [MemTasks -> what its append() has read]
  learned,        \* rules of the PreferenceStore, as <<task, source>>
  extracting,     \* tasks whose PatternExtractor.run is under way
  resets,
  lateLogs,       \* ghost: tasks that ended with a tool in flight
  told,           \* ghost: tasks whose append() succeeded since the last reset
  mixed           \* ghost: the file was written while an append() had a copy

memVars == <<memStage, activeRecords, logged, inTool, ok, verdict, experiences, sessionFile,
             copy, learned, extracting, resets, lateLogs, told, mixed>>
sessionVars == <<sessionFile, told, mixed>>

MemStages == {"idle", "context", "snapshot", "turn", "finish", "write", "session", "append",
              "learn", "gone"}
Outcomes == {"success", "partial", "failure"}

MemInit ==
  /\ memStage = [t \in MemTasks |-> "idle"] /\ activeRecords = {}
  /\ logged = [t \in MemTasks |-> {}] /\ inTool = [t \in MemTasks |-> {}]
  /\ ok = [t \in MemTasks |-> FALSE] /\ verdict = [t \in MemTasks |-> "none"]
  /\ experiences = [t \in MemTasks |-> NoRecord]
  /\ sessionFile = <<>> /\ copy = [t \in MemTasks |-> <<>>]
  /\ learned = {} /\ extracting = {} /\ resets = 0
  /\ lateLogs = {} /\ told = <<>> /\ mixed = FALSE

-----------------------------------------------------------------------------
To(t, stage) == memStage' = [memStage EXCEPT ![t] = stage]

(* The file is replaced: an append() that has read it will undo that.      *)
Replace(content, t) ==
  /\ sessionFile' = content
  /\ mixed' = (mixed \/ \E u \in MemTasks \ {t} : memStage[u] = "append")

(* The lines of a text that look like the header of a block have number 0. *)
TextLines(x) == [i \in 1..HeaderLike[x] |-> [of |-> x, number |-> 0]]

SaveSnapshot(t) == Replace(TextLines("snapshot"), t) /\ told' = <<>>

(* Up to start() the task may fail: aborted, or no model is configured.    *)
StartRecord(t) ==
  /\ memStage[t] = "idle"
  /\ \/ activeRecords' = activeRecords \cup {t} /\ To(t, "context")
     \/ UNCHANGED activeRecords /\ To(t, "finish")
  /\ UNCHANGED <<logged, inTool, ok, verdict, experiences, sessionVars, copy, learned, extracting,
                 resets, lateLogs>>

(* preparePlanningContext: a model without tools gets the structure of the *)
(* workspace, which replaces the session; any of its calls may fail.       *)
PrepareContext(t) ==
  /\ memStage[t] = "context"
  /\ \E next \in {"snapshot", "turn", "finish"} : To(t, next)
  /\ UNCHANGED <<activeRecords, logged, inTool, ok, verdict, experiences, sessionVars, copy,
                 learned, extracting, resets, lateLogs>>

AppendWorkspaceSnapshot(t) ==
  /\ memStage[t] = "snapshot"
  /\ SaveSnapshot(t) /\ To(t, "turn")
  /\ UNCHANGED <<activeRecords, logged, inTool, ok, verdict, experiences, copy, learned,
                 extracting, resets, lateLogs>>

(* The turn's tools log when they are done; one that is aborted, or whose  *)
(* sibling failed, may still be in flight when the turn has ended.         *)
ToolBegins(t, what) ==
  /\ memStage[t] = "turn" /\ what \in MayLog[t] /\ what \notin logged[t] \cup inTool[t]
  /\ inTool' = [inTool EXCEPT ![t] = @ \cup {what}]
  /\ UNCHANGED <<memStage, activeRecords, logged, ok, verdict, experiences, sessionVars, copy,
                 learned, extracting, resets, lateLogs>>

Log(t, what) ==
  /\ what \in inTool[t]
  /\ inTool' = [inTool EXCEPT ![t] = @ \ {what}]
  /\ logged' = [logged EXCEPT ![t] = IF t \in activeRecords THEN @ \cup {what} ELSE @]
  /\ UNCHANGED <<memStage, activeRecords, ok, verdict, experiences, sessionVars, copy, learned,
                 extracting, resets, lateLogs>>

RunAgentTurn(t) ==
  /\ memStage[t] = "turn" /\ To(t, "finish")
  /\ \/ inTool[t] = {} /\ ok' = [ok EXCEPT ![t] = TRUE]
     \/ UNCHANGED ok
  /\ lateLogs' = IF inTool[t] = {} THEN lateLogs ELSE lateLogs \cup {t}
  /\ UNCHANGED <<activeRecords, logged, inTool, verdict, experiences, sessionVars, copy, learned,
                 extracting, resets>>

-----------------------------------------------------------------------------
(* finish(), in the pipeline's finally.                                    *)
DeriveOutcome(t) ==
  IF ok[t] THEN "success" ELSE IF logged[t] # {} THEN "partial" ELSE "failure"

FinishRecord(t) ==
  /\ memStage[t] = "finish"
  /\ IF t \in activeRecords
     THEN verdict' = [verdict EXCEPT ![t] = DeriveOutcome(t)] /\ To(t, "write")
     ELSE UNCHANGED verdict /\ To(t, "gone")
  /\ UNCHANGED <<activeRecords, logged, inTool, ok, experiences, sessionVars, copy, learned,
                 extracting, resets, lateLogs>>

(* Mutant of PersistRecordFails: the rest of finish() goes on.                   *)
GoesOn(t) == UNCHANGED activeRecords /\ To(t, "session")

PersistRecordFails(t) == activeRecords' = activeRecords \ {t} /\ To(t, "gone")

PersistRecord(t) ==
  /\ memStage[t] = "write"
  /\ \/ /\ experiences' = [experiences EXCEPT ![t] = [outcome |-> verdict[t], logged |-> logged[t]]]
        /\ To(t, IF verdict[t] = "failure" THEN "learn" ELSE "session")
        /\ UNCHANGED activeRecords
     \/ PersistRecordFails(t) /\ UNCHANGED experiences
  /\ UNCHANGED <<logged, inTool, ok, verdict, sessionVars, copy, learned, extracting, resets,
                 lateLogs>>

(* SessionManager.append: read, then number and write; either may fail.    *)
AppendReads(t) ==
  /\ memStage[t] = "session"
  /\ \/ copy' = [copy EXCEPT ![t] = sessionFile] /\ To(t, "append")
     \/ UNCHANGED copy /\ To(t, "learn")
  /\ UNCHANGED <<activeRecords, logged, inTool, ok, verdict, experiences, sessionVars, learned,
                 extracting, resets, lateLogs>>

TaskBlocks(content) == {i \in 1..Len(content) : content[i].number > 0}

(* Mutant of CountTasks: only the headers that append() wrote are counted. *)
CountsBlocks(content) == Cardinality(TaskBlocks(content))
CountTasks(content) == Len(content)

NextNumber(content) == CountTasks(content) + 1

(* The text of a task is written as it is, below the header of its block.  *)
FormatBlock(n, t) == <<[of |-> t, number |-> n]>> \o TextLines(t)

AppendWrites(t) ==
  /\ memStage[t] = "append" /\ To(t, "learn")
  /\ \/ /\ Replace(copy[t] \o FormatBlock(NextNumber(copy[t]), t), t)
        /\ told' = Append(told, t)
     \/ UNCHANGED sessionVars
  /\ copy' = [copy EXCEPT ![t] = <<>>]
  /\ UNCHANGED <<activeRecords, logged, inTool, ok, verdict, experiences, learned, extracting,
                 resets, lateLogs>>

(* A failure without an escalation teaches nothing.                        *)
WorthLearning(t) == verdict[t] # "failure" \/ "escalation" \in logged[t]

(* The record leaves memory, and extract() goes on without the task.       *)
Learn(t) ==
  /\ memStage[t] = "learn" /\ To(t, "gone")
  /\ activeRecords' = activeRecords \ {t}
  /\ extracting' = extracting \cup (IF WorthLearning(t) THEN {t} ELSE {})
  /\ UNCHANGED <<logged, inTool, ok, verdict, experiences, sessionVars, copy, learned, resets,
                 lateLogs>>

(* Rules of the model's answer if there is one that parses, and one of     *)
(* each escalation, in one addMany(), which may fail. (Rules of a user's   *)
(* edits to generated files are left out: nothing reports such edits.)     *)
Extracted(t) ==
  {{<<t, "outcome">> : x \in answered} \cup
   {<<t, "fix">> : x \in logged[t] \cap {"escalation"}} : answered \in {{}, {"rule"}}}

ExtractEnds(t) ==
  /\ t \in extracting /\ extracting' = extracting \ {t}
  /\ \E new \in Extracted(t) \cup {{}} : learned' = learned \cup new
  /\ UNCHANGED <<memStage, activeRecords, logged, inTool, ok, verdict, experiences, sessionVars,
                 copy, resets, lateLogs>>

-----------------------------------------------------------------------------
(* /new of any connection removes the file all share, /explore replaces it.*)
ClearSession ==
  /\ resets < MaxResets /\ resets' = resets + 1
  /\ Replace(<<>>, "none") /\ told' = <<>>
  /\ UNCHANGED <<memStage, activeRecords, logged, inTool, ok, verdict, experiences, copy, learned,
                 extracting, lateLogs>>

Explore ==
  /\ resets < MaxResets /\ resets' = resets + 1
  /\ SaveSnapshot("none")
  /\ UNCHANGED <<memStage, activeRecords, logged, inTool, ok, verdict, experiences, copy, learned,
                 extracting, lateLogs>>

PipelineStep(t) ==
  \/ PrepareContext(t) \/ AppendWorkspaceSnapshot(t) \/ RunAgentTurn(t)
  \/ FinishRecord(t) \/ PersistRecord(t) \/ AppendReads(t) \/ AppendWrites(t) \/ Learn(t)

MemNext ==
  \/ \E t \in MemTasks :
       \/ StartRecord(t) \/ PipelineStep(t) \/ ExtractEnds(t)
       \/ \E what \in Logs : ToolBegins(t, what) \/ Log(t, what)
  \/ ClearSession \/ Explore

MemFairness == \A t \in MemTasks : WF_memVars(PipelineStep(t)) /\ WF_memVars(ExtractEnds(t))

-----------------------------------------------------------------------------
MemTypeOK ==
  /\ memStage \in [MemTasks -> MemStages] /\ activeRecords \subseteq MemTasks
  /\ logged \in [MemTasks -> SUBSET Logs] /\ inTool \in [MemTasks -> SUBSET Logs]
  /\ learned \subseteq MemTasks \X {"outcome", "fix"}
  /\ extracting \subseteq MemTasks

(* The finally of the pipeline: however a task ends, its record leaves the *)
(* memory, and no tool that ends later brings it back.                     *)
NoRecordLeaks ==
  \A t \in MemTasks : memStage[t] \in {"idle", "gone"} => t \notin activeRecords

(* The stored outcome is that of the stored activity (deriveOutcome): a    *)
(* failure shows none, unless a tool logged after the outcome was derived. *)
OutcomeIsOfActivity ==
  \A t \in MemTasks :
    LET stored == experiences[t]
    IN  stored # NoRecord =>
          /\ (stored.outcome = "success") = ok[t]
          /\ stored.outcome = "partial" => stored.logged # {}
          /\ stored.outcome = "failure" /\ stored.logged # {} => t \in lateLogs

(* No task has two blocks in the session file, and the number of a block   *)
(* is its place among the lines that look like a header: numbers rise from *)
(* block to block, none is given twice, and they skip what the texts above *)
(* hold of such lines, whoever else writes the file meanwhile.             *)
BlocksNumbered ==
  LET blocks == TaskBlocks(sessionFile)
  IN  \A i \in blocks :
        /\ sessionFile[i].number = i
        /\ \A j \in blocks : sessionFile[i].of = sessionFile[j].of => i = j

(* The session file has a block of every task that ended usefully, and of  *)
(* no other, in the order in which they ended, unless two writers of the   *)
(* file overlapped: append() writes what it read over a block or a reset.  *)
BlockOf(t) == {i \in TaskBlocks(sessionFile) : sessionFile[i].of = t}
SessionKeepsTasks ==
  ~mixed =>
    /\ \A i \in TaskBlocks(sessionFile) : \E n \in 1..Len(told) : sessionFile[i].of = told[n]
    /\ \A n \in 1..Len(told) : BlockOf(told[n]) # {}
    /\ \A m, n \in 1..Len(told) :
         m < n => \A i \in BlockOf(told[m]), j \in BlockOf(told[n]) : i < j

(* Rules are learned only from a task whose experience is on disk, rules   *)
(* that fix something only from an escalation.                             *)
LearnedFromStored ==
  \A r \in learned :
    /\ experiences[r[1]] # NoRecord
    /\ (r[2] = "fix" \/ verdict[r[1]] = "failure") => "escalation" \in logged[r[1]]

MemoryInv ==
  /\ MemTypeOK /\ NoRecordLeaks /\ OutcomeIsOfActivity
  /\ BlocksNumbered /\ SessionKeepsTasks /\ LearnedFromStored

(* Every task that began is recorded, and learned from, in the end.        *)
MemoryOver == extracting = {} /\ \A t \in MemTasks : memStage[t] \in {"idle", "gone"}
TasksRemembered == <>[]MemoryOver
=============================================================================
