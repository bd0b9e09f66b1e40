----------------------------- MODULE SubagentRun ------------------------------
(***************************************************************************)
(* A subtask worked on by a small model (subagent/subagent.ts): one tool a *)
(* turn, thinking before it, a command plan in the first thought, retries  *)
(* of answers without a tool, help from the agent when they fail, and a    *)
(* breaker for turns that do nothing.  Only the tests construct this class *)
(* at this commit; the pipeline runs its steps in the loop of ToolLoop.    *)
(***************************************************************************)
EXTENDS Naturals, FiniteSets

CONSTANTS
  Replies,          \* what the model may answer
  MaxTurns,         \* MAX_TOOL_ITERATIONS
  MaxIdleTurns,     \* MAX_UNPRODUCTIVE_TURNS
  MaxEscalations,
  NeedsSetup        \* the command plan has setup commands

Thoughts == {"none", "plain", "planned"}   \* with or without the command plan section
Tools == {"write", "read_back", "verify", "setup", "finish", "finish_not_ok", "escalate", "unknown"}
(* The tools that are called, whether text looks like a call but does not  *)
(* parse, and the call that can be recovered from the thought.             *)
Reply == [think : Thoughts, tools : SUBSET Tools, malformed : BOOLEAN,
          recovered : Tools \cup {"none"}]
ASSUME SubagentAssumption ==
  /\ MaxTurns \in Nat \ {0} /\ MaxIdleTurns \in Nat \ {0} /\ MaxEscalations \in Nat
  /\ Replies \subseteq Reply /\ NeedsSetup \in BOOLEAN

VARIABLES
  turn,          \* iteration
  idleTurns,     \* trackers.unproductiveTurns
  escalations,   \* escalationCount
  retries,       \* thinkRetryCount
  thought,       \* trackers.firstThinkSeen
  planAsked,     \* trackers.commandPlanRetryUsed
  step,          \* what is awaited: "head", "model", or the tool
  wrote,         \* trackers.filesWrittenThisTask is not empty
  checked,       \* a written file was read back, or a verify command ever passed
  setUp,         \* the setup commands ran
  cancelled,     \* the abort signal
  result,        \* how it ended, "running" before
  advised,       \* ghost: how often the agent gave advice
  sinceTool      \* ghost: model calls since the last tool that did something

subVars == <<turn, idleTurns, escalations, retries, thought, planAsked, step, wrote, checked, setUp,
             cancelled, result, advised, sinceTool>>
work == <<wrote, checked, setUp>>

SubInit ==
  /\ turn = 0 /\ idleTurns = 0 /\ escalations = 0 /\ retries = 0
  /\ thought = FALSE /\ planAsked = FALSE /\ step = "head"
  /\ wrote = FALSE /\ checked = FALSE /\ setUp = FALSE /\ cancelled = FALSE /\ result = "running"
  /\ advised = 0 /\ sinceTool = 0

-----------------------------------------------------------------------------
EndsAs(how) == result' = how /\ UNCHANGED step

(* The head of a turn: the limit, the signal, the breaker, then the model. *)
TurnHead ==
  /\ result = "running" /\ step = "head"
  /\ IF turn = MaxTurns THEN EndsAs("too many turns") /\ UNCHANGED <<turn, idleTurns, sinceTool>>
     ELSE IF cancelled THEN EndsAs("aborted") /\ UNCHANGED <<turn, idleTurns, sinceTool>>
     ELSE IF idleTurns >= MaxIdleTurns
     THEN EndsAs("no progress") /\ UNCHANGED <<turn, idleTurns, sinceTool>>
     ELSE /\ step' = "model" /\ turn' = turn + 1 /\ idleTurns' = idleTurns + 1
          /\ sinceTool' = sinceTool + 1 /\ UNCHANGED result
  /\ UNCHANGED <<escalations, retries, thought, planAsked, work, cancelled, advised>>

Called(r) ==
  IF r.tools = {} /\ r.think # "none" /\ r.recovered # "none"
     /\ (r.malformed => r.recovered = "finish")
  THEN {r.recovered} ELSE r.tools
StillMalformed(r) == r.malformed /\ Called(r) = {}

(* The first thought lacks the command plan: asked for once.               *)
AsksForPlan(r) == r.think = "plain" /\ ~thought /\ ~planAsked
(* handleAgentRetry: no tool, or a tool without a thought.                 *)
Retried(r) == Called(r) = {} \/ r.think = "none"
CountsRetry(r) == StillMalformed(r) \/ (Called(r) = {} /\ r.think # "none")
ForcesEscalation(r) == CountsRetry(r) /\ retries >= MaxEscalations

(* An answer of the model, up to the tool it calls.                        *)
Answered ==
  /\ result = "running" /\ step = "model"
  /\ \E r \in Replies :
       /\ thought' = (thought \/ r.think # "none")
       /\ planAsked' = (planAsked \/ AsksForPlan(r))
       /\ \/ /\ AsksForPlan(r) \/ (~Retried(r) /\ Cardinality(Called(r)) > 1)
             /\ step' = "head" /\ UNCHANGED retries
          \/ /\ ~AsksForPlan(r) /\ Retried(r) /\ ~ForcesEscalation(r)
             /\ step' = "head" /\ retries' = IF CountsRetry(r) THEN retries + 1 ELSE retries
          \/ /\ ~AsksForPlan(r) /\ Retried(r) /\ ForcesEscalation(r)
             /\ step' = "escalate" /\ UNCHANGED retries
          \/ /\ ~AsksForPlan(r) /\ ~Retried(r) /\ Cardinality(Called(r)) = 1
             /\ step' \in Called(r) /\ UNCHANGED retries
  /\ UNCHANGED <<turn, idleTurns, escalations, work, cancelled, result, advised, sinceTool>>

(* escalate: refused once the agent has been asked as often as it may.     *)
(* Mutant: asked once more.                                                *)
OneMore == escalations > MaxEscalations

Exhausted == escalations + 1 > MaxEscalations

Escalate ==
  /\ result = "running" /\ step = "escalate"
  /\ escalations' = escalations + 1 /\ retries' = 0
  /\ IF Exhausted THEN EndsAs("failed") /\ UNCHANGED advised
                  ELSE step' = "head" /\ advised' = advised + 1 /\ UNCHANGED result
  /\ UNCHANGED <<turn, idleTurns, thought, planAsked, work, cancelled, sinceTool>>

(* finish: ok needs the setup, or files written of which one was verified. *)
(* Mutant of Finishes: the setup alone.                                    *)
OnlySetUp == ~NeedsSetup \/ setUp \/ wrote

Finishes == (~wrote => ~NeedsSetup \/ setUp) /\ (wrote => checked)

Finish ==
  /\ result = "running" /\ step \in {"finish", "finish_not_ok"}
  /\ IF step = "finish_not_ok" THEN EndsAs("not ok") /\ UNCHANGED retries
     ELSE IF Finishes THEN EndsAs("ok") /\ UNCHANGED retries
     ELSE step' = "head" /\ retries' = 0 /\ UNCHANGED result
  /\ UNCHANGED <<turn, idleTurns, escalations, thought, planAsked, work, cancelled, advised,
                 sinceTool>>

(* A tool does something or fails; either counts as progress, an unknown   *)
(* one does not.                                                           *)
Executed(tool) == tool \in Tools \ {"finish", "finish_not_ok", "escalate", "unknown"}
UseTool ==
  /\ result = "running" /\ step \in Tools \ {"finish", "finish_not_ok", "escalate"}
  /\ \E ok \in BOOLEAN :
       /\ wrote' = (wrote \/ (ok /\ step = "write"))
       /\ checked' = (checked \/ (ok /\ (step = "verify" \/ (step = "read_back" /\ wrote))))
       /\ setUp' = (setUp \/ (ok /\ step = "setup"))
  /\ idleTurns' = IF Executed(step) THEN 0 ELSE idleTurns
  /\ sinceTool' = IF Executed(step) THEN 0 ELSE sinceTool
  /\ retries' = 0 /\ step' = "head"
  /\ UNCHANGED <<turn, escalations, thought, planAsked, cancelled, result, advised>>

(* The model, the agent or a tool throws, by itself or as it is aborted.   *)
Throws ==
  /\ result = "running" /\ step # "head"
  /\ EndsAs(IF cancelled THEN "aborted" ELSE "thrown")
  /\ UNCHANGED <<turn, idleTurns, escalations, retries, thought, planAsked, work, cancelled,
                 advised, sinceTool>>
CancelRun ==
  /\ result = "running" /\ ~cancelled /\ cancelled' = TRUE
  /\ UNCHANGED <<turn, idleTurns, escalations, retries, thought, planAsked, step, work, result,
                 advised, sinceTool>>

RunStep == TurnHead \/ Answered \/ Escalate \/ Finish \/ UseTool \/ Throws
SubNext == RunStep \/ CancelRun
(* The model and the tools answer or throw.                                *)
SubFairness == WF_subVars(RunStep)
SubSpec == SubInit /\ [][SubNext]_subVars /\ SubFairness

-----------------------------------------------------------------------------
(* The types of the variables of a run.                                    *)
SubTypeOK ==
  /\ turn \in 0..MaxTurns /\ idleTurns \in 0..MaxIdleTurns /\ step \in Tools \cup {"head", "model"}
  /\ {thought, planAsked, wrote, checked, setUp, cancelled} \subseteq BOOLEAN

(* The agent is asked for advice at most MaxEscalations times, whether the *)
(* model asks for it or its answers force it (escalateHandler.ts:72,       *)
(* subagent.ts:712).                                                       *)
AdviceIsBounded == advised <= MaxEscalations

(* However retries, questions for the plan, refused calls, unknown tools   *)
(* and escalations follow one another, a run does not go on longer than    *)
(* the breaker allows without a tool (subagent.ts:479).                    *)
BreakerHolds == sinceTool <= MaxIdleTurns

(* A run that ended well has checked something if it wrote, and has done   *)
(* its setup if it did not, whichever way its finish was recovered         *)
(* (finishHandler.ts:100).                                                 *)
EndsVerified == result = "ok" => IF wrote THEN checked ELSE setUp \/ ~NeedsSetup

(* What holds of a subagent at every moment.                               *)
SubagentInv == SubTypeOK /\ AdviceIsBounded /\ BreakerHolds /\ EndsVerified

(* Every run ends.                                                         *)
RunOver == result # "running"
RunEnds == <>[]RunOver
=============================================================================
