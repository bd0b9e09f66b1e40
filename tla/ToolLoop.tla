------------------------------- MODULE ToolLoop -------------------------------
(***************************************************************************)
(* runToolCallLoop (agent/agentTurn.ts): the loop of model calls and tool  *)
(* calls that is a turn of the agent, or, with fewer tools and without the *)
(* completion gate, a step of a parallel batch.  A response may ask for    *)
(* several calls: reads that follow one another run concurrently, the rest *)
(* one at a time.  In plan mode the tools that change something are        *)
(* withheld until the user approves a plan, and a turn that wrote files    *)
(* does not end well before one of them was verified.                      *)
(*                                                                         *)
(* What the model says, whether a tool succeeds and what the user decides  *)
(* are nondeterministic.  Compaction, the REASON phase and the wording of  *)
(* nudges change nothing that is modelled here.                            *)
(***************************************************************************)
EXTENDS Naturals, Sequences, FiniteSets

CONSTANTS
  Files,            \* paths the tools are called with
  Responses,        \* the sequences of calls a model may ask for at once
  MaxIterations,    \* MAX_AGENT_TURN_ITERATIONS
  MaxCalls,         \* MAX_TOOL_CALLS_PER_ITERATION
  MaxUnproductive   \* MAX_UNPRODUCTIVE_ITERATIONS

(* The tools on files, the other ones, and a name that is none.            *)
FileTools == {"read_file", "write_file", "edit_file"}
OtherTools == {"verify_command", "mcp_read", "update_plan", "run_steps_parallel",
               "finish", "finish_not_ok", "unknown"}
Call == [tool : FileTools, file : Files] \cup [tool : OtherTools]

ASSUME LoopAssumption ==
  /\ Responses \subseteq Seq(Call) \ {<<>>}
  /\ MaxIterations \in Nat \ {0} /\ MaxCalls \in Nat \ {0} /\ MaxUnproductive \in Nat \ {0}

VARIABLES
  role,           \* "turn", or "worker" for a step of a batch
  planApproved,   \* of the turn: no plan mode, or the user approved
  unlocked,       \* planApproved when the model was last called
  checklist,      \* planThisTurn: "none", "open" or "closed"
  read, written, verified,  \* trackers: files read, written, read back
  verifyCommandPassed,      \* tracker
  aborted,        \* the abort signal
  outcome,        \* how the loop ended, "running" before
  awaiting,       \* what the loop awaits: "head" of an iteration, "model", "tools"
  iteration,
  unproductiveStreak,
  toolsExecuted,  \* toolCallsExecuted > 0
  response,       \* calls of the last response that are to be run
  next,           \* index: the first one that was not begun
  running,        \* indexes of the calls that were begun and have not settled
  executed,       \* any call of the response was executed
  answered,       \* indexes of the calls whose results are in the history
  confirmed       \* history: written files that were verified after a write

trackers == <<read, written, verified, verifyCommandPassed, confirmed>>
plan == <<planApproved, checklist>>
batch == <<response, next, running, executed, answered>>
counters == <<iteration, unproductiveStreak, toolsExecuted>>
vars == <<role, plan, unlocked, trackers, aborted, outcome, awaiting, counters, batch>>

Outcome == {"running", "answered", "finished", "not_ok", "skipped", "unproductive",
            "ceiling", "thrown"}

(* A turn may continue a checklist; a worker has none and needs no plan.   *)
Init ==
  /\ role \in {"turn", "worker"}
  /\ planApproved \in IF role = "turn" THEN BOOLEAN ELSE {TRUE}
  /\ checklist \in IF role = "turn" THEN {"none", "open", "closed"} ELSE {"none"}
  /\ unlocked = planApproved
  /\ read = {} /\ written = {} /\ verified = {} /\ confirmed = {}
  /\ verifyCommandPassed = FALSE
  /\ aborted = FALSE /\ outcome = "running" /\ awaiting = "head"
  /\ iteration = 0 /\ unproductiveStreak = 0 /\ toolsExecuted = FALSE
  /\ response = <<>> /\ next = 1 /\ running = {} /\ executed = FALSE /\ answered = <<>>

-----------------------------------------------------------------------------
(* The registries of a turn, of a turn in plan mode, and of a worker.      *)
PlanModeTools == {"read_file", "update_plan", "finish", "finish_not_ok", "mcp_read"}
WorkerTools == {"read_file", "write_file", "edit_file", "verify_command", "mcp_read",
                "finish", "finish_not_ok"}
TurnTools == WorkerTools \cup {"update_plan", "run_steps_parallel"}

(* Mutant of ActiveRegistry: the tools are looked up as they are called.   *)
CurrentRegistry ==
  IF role = "worker" THEN WorkerTools ELSE IF planApproved THEN TurnTools ELSE PlanModeTools

ActiveRegistry ==
  IF role = "worker" THEN WorkerTools ELSE IF unlocked THEN TurnTools ELSE PlanModeTools

IsToolReadOnly(tool) == tool \in {"read_file", "mcp_read"}

(* unverifiedWriteGap and unfinishedChecklistGap.                          *)
UnverifiedWriteGap == written # {} /\ verified = {} /\ ~verifyCommandPassed
CompletionGap == checklist = "open" \/ UnverifiedWriteGap

End(how) ==
  /\ outcome' = how
  /\ UNCHANGED <<role, unlocked, aborted, awaiting>>

(* The user cancels the task.                                              *)
Abort ==
  /\ outcome = "running" /\ ~aborted
  /\ aborted' = TRUE
  /\ UNCHANGED <<role, plan, unlocked, trackers, outcome, awaiting, counters, batch>>

-----------------------------------------------------------------------------
(* The head of an iteration.                                               *)
CallModel ==
  /\ outcome = "running" /\ awaiting = "head"
  /\ ~aborted /\ iteration < MaxIterations
  /\ awaiting' = "model" /\ unlocked' = planApproved
  /\ UNCHANGED <<role, plan, trackers, aborted, outcome, counters, batch>>

Ceiling ==
  /\ outcome = "running" /\ awaiting = "head"
  /\ ~aborted /\ iteration = MaxIterations
  /\ End("ceiling")
  /\ UNCHANGED <<plan, trackers, counters, batch>>

(* The signal is seen at the head of an iteration, between two calls, or   *)
(* by a tool or the model's provider, which may also fail by itself.       *)
Throw ==
  /\ outcome = "running"
  /\ aborted \/ awaiting = "model"
  /\ awaiting = "tools" => running # {} \/ next <= Len(response)
  /\ End("thrown")
  /\ UNCHANGED <<plan, trackers, counters, batch>>

(* Mutant of Continue: a nudge does not count as an iteration.             *)
ContinueUncounted(streak) ==
  /\ iteration' = IF streak = unproductiveStreak THEN iteration ELSE iteration + 1
  /\ unproductiveStreak' = streak
  /\ IF streak >= MaxUnproductive THEN End("unproductive")
     ELSE awaiting' = "head" /\ UNCHANGED <<role, unlocked, aborted, outcome>>

(* An iteration is over: its streak is the new one.                        *)
Continue(streak) ==
  /\ iteration' = iteration + 1
  /\ unproductiveStreak' = streak
  /\ IF streak >= MaxUnproductive THEN End("unproductive")
     ELSE awaiting' = "head" /\ UNCHANGED <<role, unlocked, aborted, outcome>>

(* The model replies without a call: the turn ends, unless it has executed *)
(* a tool and something is outstanding.                                    *)
ReplyIsFinal == ~(role = "turn" /\ toolsExecuted /\ CompletionGap)

ModelReplies ==
  /\ outcome = "running" /\ awaiting = "model"
  /\ IF ReplyIsFinal THEN End("answered") /\ UNCHANGED <<iteration, unproductiveStreak>>
     ELSE Continue(unproductiveStreak)
  /\ UNCHANGED <<plan, trackers, toolsExecuted, batch>>

(* A tool call that does not parse.                                        *)
ModelIsMalformed ==
  /\ outcome = "running" /\ awaiting = "model"
  /\ Continue(unproductiveStreak + 1)
  /\ UNCHANGED <<plan, trackers, toolsExecuted, batch>>

(* Mutant of ModelCalls: no call is deferred.                              *)
ModelCallsUncapped(calls) ==
  /\ outcome = "running" /\ awaiting = "model"
  /\ awaiting' = "tools"
  /\ response' = calls
  /\ next' = 1 /\ running' = {} /\ executed' = FALSE /\ answered' = <<>>
  /\ UNCHANGED <<role, plan, unlocked, trackers, aborted, outcome, counters>>

ModelCalls(calls) ==
  /\ outcome = "running" /\ awaiting = "model"
  /\ awaiting' = "tools"
  /\ response' = IF Len(calls) > MaxCalls THEN SubSeq(calls, 1, MaxCalls) ELSE calls
  /\ next' = 1 /\ running' = {} /\ executed' = FALSE /\ answered' = <<>>
  /\ UNCHANGED <<role, plan, unlocked, trackers, aborted, outcome, counters>>

-----------------------------------------------------------------------------
(* runToolCalls.                                                           *)
IsKnown(i) == response[i].tool \in ActiveRegistry
IsRead(i) == IsKnown(i) /\ IsToolReadOnly(response[i].tool)

(* The calls that begin together: a maximal run of reads, or one call.     *)
IsRun(last) ==
  /\ last \in next..Len(response)
  /\ IF IsRead(next)
     THEN /\ \A i \in next..last : IsRead(i)
          /\ last < Len(response) => ~IsRead(last + 1)
     ELSE last = next

Settled == outcome = "running" /\ awaiting = "tools" /\ running = {}

(* Mutant of CanBegin: the calls that run are not awaited.                 *)
CanBeginUnawaited ==
  outcome = "running" /\ awaiting = "tools" /\ ~aborted /\ next <= Len(response)


CanBegin == Settled /\ ~aborted /\ next <= Len(response)

SkipUnknown ==
  /\ CanBegin /\ ~IsKnown(next)
  /\ next' = next + 1
  /\ answered' = Append(answered, next)
  /\ UNCHANGED <<role, plan, unlocked, trackers, aborted, outcome, awaiting, counters,
                 response, running, executed>>

BeginRun ==
  /\ CanBegin /\ IsKnown(next)
  /\ \E last \in next..Len(response) :
       /\ IsRun(last)
       /\ running' = next..last
       /\ next' = last + 1
  /\ UNCHANGED <<role, plan, unlocked, trackers, aborted, outcome, awaiting, counters,
                 response, executed, answered>>

(* What a call does to the trackers ...                                    *)
ReadFile(f) ==
  /\ read' = read \cup {f}
  /\ verified' = IF f \in written THEN verified \cup {f} ELSE verified
  /\ confirmed' = IF f \in written THEN confirmed \cup {f} ELSE confirmed
  /\ UNCHANGED <<written, verifyCommandPassed>>

WriteFile(f) == written' = written \cup {f}
                /\ UNCHANGED <<read, verified, verifyCommandPassed, confirmed>>

VerifyCommand == verifyCommandPassed' = TRUE /\ confirmed' = confirmed \cup written
                 /\ UNCHANGED <<read, written, verified>>

Tracks(call) ==
  \/ call.tool = "read_file" /\ ReadFile(call.file)
  \/ call.tool = "write_file" /\ WriteFile(call.file)
  \/ call.tool = "edit_file" /\ call.file \in read /\ WriteFile(call.file)
  \/ call.tool = "verify_command" /\ VerifyCommand

(* ... and to the turn's plan: an update is put before the user until one  *)
(* was approved, and a batch records its results.                          *)
Plans(call) ==
  /\ call.tool \in {"update_plan", "run_steps_parallel"}
  /\ checklist' \in {"open", "closed"}
  /\ planApproved' \in IF call.tool = "update_plan" THEN {TRUE, planApproved}
                        ELSE {planApproved}

(* Mutant of Record: a result is recorded when its call settles.           *)
RecordOnSettle(i) ==
  /\ executed' = TRUE
  /\ running' = running \ {i}
  /\ answered' = Append(answered, i)
  /\ UNCHANGED <<response, next>>

(* The last call of a run settles: the results are recorded in order.      *)
Record(i) ==
  /\ executed' = TRUE
  /\ running' = running \ {i}
  /\ answered' = IF running = {i}
                 THEN answered \o [k \in 1..(next - 1 - Len(answered)) |-> Len(answered) + k]
                 ELSE answered
  /\ UNCHANGED <<response, next>>

(* A call settles, having done its work or with an error or a refusal.     *)
CallSettles(i) ==
  /\ outcome = "running" /\ i \in running
  /\ \/ Tracks(response[i]) /\ UNCHANGED plan
     \/ Plans(response[i]) /\ UNCHANGED trackers
     \/ UNCHANGED <<trackers, plan>>
  /\ response[i].tool = "finish" => UnverifiedWriteGap
  /\ response[i].tool # "finish_not_ok"
  /\ Record(i)
  /\ UNCHANGED <<role, unlocked, aborted, outcome, awaiting, counters>>

(* A call that ends the turn: finish, or a plan that the user skips.       *)
CallEndsTurn(i) ==
  /\ outcome = "running" /\ i \in running
  /\ \/ response[i].tool = "finish" /\ ~UnverifiedWriteGap
        /\ End("finished") /\ UNCHANGED checklist
     \/ response[i].tool = "finish_not_ok" /\ End("not_ok") /\ UNCHANGED checklist
     \/ response[i].tool = "update_plan" /\ ~planApproved
        /\ End("skipped") /\ checklist' \in {"open", "closed"}
  /\ executed' = TRUE /\ running' = {} /\ toolsExecuted' = TRUE
  /\ unproductiveStreak' = 0
  /\ UNCHANGED <<planApproved, trackers, iteration, response, next, answered>>

(* Mutant of EndIteration: only the last response counts.                  *)
EndIterationForgets ==
  /\ Settled /\ next > Len(response)
  /\ toolsExecuted' = executed
  /\ Continue(IF executed THEN 0 ELSE unproductiveStreak + 1)
  /\ UNCHANGED <<plan, trackers, batch>>

(* The response was worked off.                                            *)
EndIteration ==
  /\ Settled /\ next > Len(response)
  /\ toolsExecuted' = (toolsExecuted \/ executed)
  /\ Continue(IF executed THEN 0 ELSE unproductiveStreak + 1)
  /\ UNCHANGED <<plan, trackers, batch>>

-----------------------------------------------------------------------------
Step ==
  \/ CallModel \/ Ceiling \/ Throw
  \/ ModelReplies \/ ModelIsMalformed \/ (\E calls \in Responses : ModelCalls(calls))
  \/ SkipUnknown \/ BeginRun
  \/ \E i \in running : CallSettles(i) \/ CallEndsTurn(i)
  \/ EndIteration

Next == Abort \/ Step

(* The provider answers or fails; a tool's request to the client and a     *)
(* plan's review time out.  Cancelling is up to the user.                  *)
Spec == Init /\ [][Next]_vars
FairSpec == Spec /\ WF_vars(Step)

-----------------------------------------------------------------------------
TypeOK ==
  /\ role \in {"turn", "worker"}
  /\ planApproved \in BOOLEAN /\ unlocked \in BOOLEAN /\ aborted \in BOOLEAN
  /\ verifyCommandPassed \in BOOLEAN /\ toolsExecuted \in BOOLEAN /\ executed \in BOOLEAN
  /\ checklist \in {"none", "open", "closed"}
  /\ read \subseteq Files /\ written \subseteq Files /\ verified \subseteq written
  /\ confirmed \subseteq written
  /\ outcome \in Outcome /\ awaiting \in {"head", "model", "tools"}
  /\ iteration \in 0..MaxIterations /\ unproductiveStreak \in 0..MaxUnproductive
  /\ response \in Seq(Call) /\ Len(response) <= MaxCalls
  /\ next \in 1..(Len(response) + 1) /\ running \subseteq 1..(next - 1)
  /\ answered \in Seq(1..Len(response))

Mutates(tool) == tool \in {"write_file", "edit_file", "verify_command", "run_steps_parallel"}

(* The comments on plan mode in runAgentTurn and on getActiveRegistry: a   *)
(* tool that changes something runs only if the model asked for it after   *)
(* the user approved a plan, not in the response that proposed it.         *)
PlanModeGate ==
  written # {} \/ verifyCommandPassed \/ (\E i \in running : Mutates(response[i].tool))
    => unlocked /\ planApproved

(* A turn that wrote files ends well only if a file was read back or a     *)
(* verify command passed, and with a checklist it worked on only if no     *)
(* step is left: whatever the responses between the write and the end.     *)
CompletionIsGated ==
  role = "turn" /\ outcome \in {"answered", "finished"} =>
    /\ written # {} => verified # {} \/ verifyCommandPassed
    /\ outcome = "answered" /\ checklist = "open" => read = {} /\ written = {}

(* The module comment of finishHandler: at least one written file is read  *)
(* back after writing, or confirmed by a passing verify command.           *)
WritesAreConfirmed ==
  role = "turn" /\ outcome \in {"answered", "finished"} => written = {} \/ confirmed # {}

(* The comment on runToolCalls: the history has the results of a response  *)
(* in the model's order, each of them once, whatever the order in which    *)
(* concurrent reads settle, and when nothing runs none is missing.         *)
HistoryInCallOrder ==
  /\ \A k \in 1..Len(answered) : answered[k] = k
  /\ outcome = "running" /\ running = {} => Len(answered) = next - 1

(* A call that changes something runs alone, after every call before it in *)
(* the response was answered.                                              *)
MutationsWait ==
  \A i \in running : ~IsToolReadOnly(response[i].tool) =>
    running = {i} /\ Len(answered) = i - 1

(* Every turn ends: whatever the model does, the ceiling stops it.         *)
TurnEnds == <>(outcome # "running")
=============================================================================
