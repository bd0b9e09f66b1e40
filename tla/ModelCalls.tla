------------------------------ MODULE ModelCalls ------------------------------
(***************************************************************************)
(* The calls one task makes to its agent model.  The pipeline and the turn *)
(* read the model from the configuration, each once, and the pipeline the  *)
(* provider, which decides the context window (orchestratorPipeline.ts,    *)
(* agentTurn.ts); every call then looks the provider up again              *)
(* (providers/providerRegistry.ts), while other clients change the         *)
(* configuration.  An iteration of the turn first compacts the history if  *)
(* it would not fit (contextCompaction.ts), reasons about the next step    *)
(* (reasoner.ts), and then makes the call that acts.                       *)
(*                                                                         *)
(* The history keeps the kinds of its messages after the seed, which is    *)
(* never touched; what they say is left out but for its size.              *)
(***************************************************************************)
EXTENDS Naturals, Sequences, FiniteSets

CONSTANTS
  NamedProviders, \* providers besides Ollama that are configured at first
  AgentModels,
  WindowOf,       \* the context window Ollama gives a model
  UnknownBudget,  \* DEFAULT_COMPACTION_BUDGET, for a provider without a window
  Seed,           \* size of the seed: system text, earlier turns, task
  KeepRecent,     \* KEEP_RECENT_MESSAGES
  Efforts,        \* records of the rounds and passes of an effort above "low"
  Overrides,      \* what a task may set for itself
  MaxBatch,       \* tool calls of one answer
  MaxIterations,  \* MAX_AGENT_TURN_ITERATIONS
  MaxSwitches     \* changes other clients make to the configuration

(* The rounds and passes of an effort are numbers, and so is what a batch  *)
(* may hold and a compaction keeps.                                        *)
ASSUME CallsAssumption ==
  /\ KeepRecent \in Nat /\ MaxBatch \in Nat
  /\ \A e \in Efforts : e.rounds \in Nat /\ e.passes \in Nat

VARIABLES
  assigned,   \* the agent's provider and model as configured
  offered,    \* configured providers besides Ollama
  over,       \* the overrides of the task
  effort,
  agentStep,  \* where the task is
  planned,    \* model and provider the pipeline has read
  agentModel, \* model the turn has read
  history,    \* kinds of the messages after the seed
  iteration,
  lookup,     \* the provider a call has read, before it is found
  reason,     \* where the REASON phase is
  reasoned,   \* its calls in this iteration
  aborting,   \* the task's signal
  inCall,     \* what the call under way was sent with
  switches,
  switched, switchedHere   \* the configuration changed since the task, the lookup began

callVars == <<assigned, offered, over, effort, agentStep, planned, agentModel, history, iteration,
              lookup, reason, reasoned, aborting, inCall, switches, switched, switchedHere>>
configurationVars == <<assigned, offered, switches, switched, switchedHere>>

Native == "ollama"
NotSet == "none"
Ended == {"answered", "failed", "unconfigured", "aborted", "ceiling"}
NotSent == [provider |-> NotSet, model |-> NotSet, window |-> 0]
NoReason == [mode |-> "first", round |-> 0, pass |-> 0]

(* The role's provider and model, read anew whenever they are needed, and  *)
(* what the request sets for its task: its own, and its effort.            *)
Assignments == [provider : NamedProviders \cup {Native}, model : AgentModels]
OwnChoice == over \in Overrides
OwnEffort == effort \in Efforts

CallsInit ==
  /\ assigned \in Assignments
  /\ offered = NamedProviders
  /\ OwnChoice /\ OwnEffort
  /\ agentStep = "model"
  /\ planned = [provider |-> NotSet, model |-> NotSet]
  /\ agentModel = NotSet
  /\ history = <<>> /\ iteration = 0
  /\ lookup = NotSet
  /\ reason = NoReason /\ reasoned = 0
  /\ aborting = FALSE
  /\ inCall = NotSent
  /\ switches = 0 /\ switched = FALSE /\ switchedHere = FALSE

-----------------------------------------------------------------------------
(* The model and the provider a task is for: its own before the role's.    *)
ChosenModel == IF over.model # NotSet THEN over.model ELSE assigned.model
ChosenProvider == IF over.provider # NotSet THEN over.provider ELSE assigned.provider

(* runOrchestratorPipeline reads the model, then the provider; the window  *)
(* is that model's if the provider is Ollama, and 0 if not.                *)
ReadModel ==
  /\ agentStep = "model"
  /\ planned' = [planned EXCEPT !.model = ChosenModel]
  /\ agentStep' = "provider"
  /\ UNCHANGED <<over, effort, agentModel, history, iteration, lookup, reason, reasoned,
                 aborting, inCall, configurationVars>>

ReadProvider ==
  /\ agentStep = "provider"
  /\ planned' = [planned EXCEPT !.provider = ChosenProvider]
  /\ agentStep' = "context"
  /\ UNCHANGED <<over, effort, agentModel, history, iteration, lookup, reason, reasoned,
                 aborting, inCall, configurationVars>>

Window == IF planned.provider = Native THEN WindowOf[planned.model] ELSE 0

(* resolveTurnConfig, after the context is built: the model is read again. *)
StartTurn ==
  /\ agentStep = "context"
  /\ agentModel' = ChosenModel
  /\ agentStep' = "loop"
  /\ UNCHANGED <<over, effort, planned, history, iteration, lookup, reason, reasoned, aborting,
                 inCall, configurationVars>>

-----------------------------------------------------------------------------
SizeOf(kind) == IF kind = "result" THEN 2 ELSE 1

(* estimateMessagesTokens, of the seed and what follows it.                *)
Estimate == Seed + Len(history) + Cardinality({i \in DOMAIN history : SizeOf(history[i]) = 2})

CallBudget == IF Window > 0 THEN Window ELSE UnknownBudget

(* shouldCompact: above three quarters of the budget.                      *)
ShouldCompact == 4 * Estimate > 3 * CallBudget

(* Mutant: the summary goes behind what it stands for.                     *)
InsertAfter(kind) == Append(history, kind)

(* applyCompaction, applyElisionFallback: one message for all of them but  *)
(* the most recent ones (selectCompactionRange).                           *)
Compacted(kind) == <<kind>> \o SubSeq(history, Len(history) - KeepRecent + 1, Len(history))

Compactable == Len(history) > KeepRecent

(* An iteration: the signal, the compaction if there is anything to        *)
(* compact, the REASON phase unless the effort is "low" (no rounds at all).*)
AfterCompaction == IF effort.on THEN "reason" ELSE "act"

Iterate ==
  /\ agentStep = "loop"
  /\ agentStep' = CASE aborting -> "aborted"
                    [] ~aborting /\ ShouldCompact /\ Compactable -> "compact"
                    [] OTHER -> AfterCompaction
  /\ UNCHANGED <<over, effort, planned, agentModel, history, iteration, lookup, reason, reasoned,
                 aborting, inCall, configurationVars>>

-----------------------------------------------------------------------------
Calling == {"compact", "reason", "act"}

(* RoleRoutedClient.resolveClient: the provider is read for every call.    *)
NameProvider ==
  /\ agentStep \in Calling /\ lookup = NotSet /\ inCall = NotSent
  /\ lookup' = ChosenProvider
  /\ switchedHere' = FALSE
  /\ UNCHANGED <<over, effort, agentStep, planned, agentModel, history, iteration, reason,
                 reasoned, aborting, inCall, assigned, offered, switches, switched>>

(* Mutant: the window of the provider that was planned is sent to any.     *)
WindowOfModel == WindowOf[agentModel]

(* What a call is sent with; num_ctx is left out when the window is 0.     *)
SentWindow == Window

(* ProviderRegistry.getClient: Ollama is always there.                     *)
FindProvider ==
  /\ lookup # NotSet /\ lookup \in offered \cup {Native}
  /\ inCall' = [provider |-> lookup, model |-> agentModel, window |-> SentWindow]
  /\ lookup' = NotSet
  /\ reasoned' = IF agentStep = "reason" THEN reasoned + 1 ELSE reasoned
  /\ UNCHANGED <<over, effort, agentStep, planned, agentModel, history, iteration, reason,
                 aborting, configurationVars>>

(* A call that fails, of a provider that is gone or in itself, ends a      *)
(* compaction with an elision, the REASON phase with nothing, and the task *)
(* if it is the one that acts.  Only an abort ends the task from anywhere. *)
Fallback(how) ==
  /\ CASE agentStep = "compact" ->
            /\ history' = Compacted("elided")
            /\ agentStep' = AfterCompaction
       [] agentStep = "reason" -> agentStep' = "act" /\ UNCHANGED history
       [] agentStep = "act" -> agentStep' = how /\ UNCHANGED history
  /\ lookup' = NotSet /\ inCall' = NotSent /\ reason' = NoReason /\ reasoned' = 0
  /\ UNCHANGED <<over, effort, planned, agentModel, iteration, aborting, configurationVars>>

Unconfigured == lookup # NotSet /\ lookup \notin offered \cup {Native} /\ Fallback("unconfigured")

CallFails == inCall # NotSent /\ ~aborting /\ Fallback("failed")

(* Every call has the signal.                                              *)
CallAborted ==
  /\ inCall # NotSent /\ aborting
  /\ agentStep' = "aborted"
  /\ inCall' = NotSent /\ reason' = NoReason /\ reasoned' = 0
  /\ UNCHANGED <<over, effort, planned, agentModel, history, iteration, lookup, aborting,
                 configurationVars>>

(* An empty summary is an elision.                                         *)
Summarised ==
  /\ agentStep = "compact" /\ inCall # NotSent
  /\ \E kind \in {"summary", "elided"} : history' = Compacted(kind)
  /\ agentStep' = AfterCompaction
  /\ inCall' = NotSent
  /\ UNCHANGED <<over, effort, planned, agentModel, iteration, lookup, reason, reasoned,
                 aborting, configurationVars>>

-----------------------------------------------------------------------------
(* Mutant: a round too many.                                               *)
RoundsPassed == reason.round > effort.rounds

(* reasonUntilExit: refinement ends when the record says so or the rounds  *)
(* of the effort are over.                                                 *)
RoundsOver == reason.round >= effort.rounds

(* parseReasonRecord: a record leaves the phase unless it says not to, one *)
(* without the field or that cannot be read at all included.               *)
Said == {"yes", "no", "unreadable"}
Exits(said) == said # "no"

Verify(pass) ==
  IF pass < effort.passes
  THEN agentStep' = "reason" /\ reason' = [mode |-> "verify", round |-> 0, pass |-> pass]
  ELSE agentStep' = "act" /\ reason' = NoReason

(* runReasoningPhase, with a record that asks for another round or not,    *)
(* and is about finishing or not: only then it is verified.  A verdict     *)
(* that is not sure is refined with rounds of its own.                     *)
Reasoned(said, finishing) ==
  LET exit == Exits(said) IN
  /\ agentStep = "reason" /\ inCall # NotSent /\ ~aborting
  /\ CASE reason.mode # "verify" /\ ~exit /\ ~RoundsOver ->
            /\ reason' = [reason EXCEPT !.round = @ + 1]
            /\ UNCHANGED agentStep
       [] reason.mode = "first" /\ (exit \/ RoundsOver) ->
            IF finishing THEN Verify(0) ELSE agentStep' = "act" /\ reason' = NoReason
       [] reason.mode = "refine" /\ (exit \/ RoundsOver) -> Verify(reason.pass + 1)
       [] reason.mode = "verify" /\ exit -> Verify(reason.pass + 1)
       [] reason.mode = "verify" /\ ~exit ->
            /\ reason' = [reason EXCEPT !.mode = "refine"]
            /\ UNCHANGED agentStep
  /\ inCall' = NotSent
  /\ reasoned' = IF agentStep' = "reason" THEN reasoned ELSE 0
  /\ UNCHANGED <<over, effort, planned, agentModel, history, iteration, lookup, aborting,
                 configurationVars>>

-----------------------------------------------------------------------------
NextIteration == IF iteration + 1 < MaxIterations THEN "loop" ELSE "ceiling"

(* The answer of the call that acts: tool calls, whose results go into the *)
(* history (and a note, if there were too many), an answer that is not     *)
(* accepted or cannot be read, or the last one.                            *)
ToolTurn(n) ==
  [i \in 1..(2 * n) |-> IF i % 2 = 1 THEN "call" ELSE "result"]

Acts(added) ==
  /\ agentStep = "act" /\ inCall # NotSent /\ ~aborting
  /\ history' = history \o added
  /\ iteration' = iteration + 1
  /\ agentStep' = NextIteration
  /\ inCall' = NotSent
  /\ UNCHANGED <<over, effort, planned, agentModel, lookup, reason, reasoned, aborting,
                 configurationVars>>

LastAnswer ==
  /\ agentStep = "act" /\ inCall # NotSent /\ ~aborting
  /\ agentStep' = "answered"
  /\ inCall' = NotSent
  /\ UNCHANGED <<over, effort, planned, agentModel, history, iteration, lookup, reason, reasoned,
                 aborting, configurationVars>>

Act ==
  \/ \E n \in 1..MaxBatch : Acts(ToolTurn(n))
  \/ Acts(Append(ToolTurn(MaxBatch), "note"))
  \/ Acts(<<"answer", "note">>)
  \/ LastAnswer

Cancel ==
  /\ ~aborting /\ agentStep \notin Ended
  /\ aborting' = TRUE
  /\ UNCHANGED <<over, effort, agentStep, planned, agentModel, history, iteration, lookup, reason,
                 reasoned, inCall, configurationVars>>

-----------------------------------------------------------------------------
(* Other clients: /set agent keeps the provider, a choice of model and     *)
(* provider sets both, and only a provider no role uses can be removed.    *)
Switch(p, m) ==
  /\ p \in offered \cup {Native} /\ assigned # [provider |-> p, model |-> m]
  /\ assigned' = [provider |-> p, model |-> m]
  /\ UNCHANGED offered

RemoveUnused(p) ==
  /\ p \in offered /\ assigned.provider # p
  /\ offered' = offered \ {p}
  /\ UNCHANGED assigned

OthersSwitch ==
  /\ switches < MaxSwitches /\ agentStep \notin Ended
  /\ \/ \E p \in NamedProviders \cup {Native}, m \in AgentModels : Switch(p, m)
     \/ \E p \in NamedProviders : RemoveUnused(p)
  /\ switches' = switches + 1
  /\ switched' = TRUE /\ switchedHere' = TRUE
  /\ UNCHANGED <<over, effort, agentStep, planned, agentModel, history, iteration, lookup, reason,
                 reasoned, aborting, inCall>>

CallStep ==
  \/ ReadModel \/ ReadProvider \/ StartTurn \/ Iterate
  \/ NameProvider \/ FindProvider \/ Unconfigured \/ CallFails \/ CallAborted
  \/ Summarised \/ Act
  \/ \E said \in Said, finishing \in BOOLEAN : Reasoned(said, finishing)

CallsNext == CallStep \/ Cancel \/ OthersSwitch

-----------------------------------------------------------------------------
(* The call that acts is within three quarters of the budget unless only   *)
(* the most recent messages are left to shorten: a compaction that fails   *)
(* shortens the history all the same ("an uncompacted turn can silently    *)
(* overflow", agentTurn.ts).                                               *)
FitsOrShort ==
  agentStep \in {"reason", "act"} => ~ShouldCompact \/ Len(history) <= KeepRecent + 1

(* What stands for the messages that were dropped comes first and only     *)
(* once, over any number of compactions.                                   *)
OneSummary ==
  \A i \in DOMAIN history : history[i] \in {"summary", "elided"} => i = 1

(* The REASON phase ends within the rounds and passes of its effort, each  *)
(* pass with rounds of its own.                                            *)
ReasonBounded ==
  reasoned <= (effort.rounds + 1) + effort.passes * (effort.rounds + 2)

(* While nobody changes the configuration every call goes to the model and *)
(* provider it names, with the window of that model if it is Ollama, and   *)
(* no other; a task's own choice of both holds over any change.            *)
CallsAreConfigured ==
  inCall # NotSent /\ (~switched \/ NotSet \notin {over.provider, over.model}) =>
    /\ inCall.provider = ChosenProvider /\ inCall.model = ChosenModel
    /\ inCall.window = IF inCall.provider = Native THEN WindowOf[inCall.model] ELSE 0

(* The provider of the role cannot be removed: a task without one of its   *)
(* own fails for want of it only if the role got another and this one was  *)
(* removed between the two reads of one lookup.                            *)
FoundUnlessSwitched ==
  agentStep = "unconfigured" => over.provider # NotSet \/ switchedHere

CallsInv ==
  FitsOrShort /\ OneSummary /\ ReasonBounded /\ CallsAreConfigured /\ FoundUnlessSwitched

(* Whatever fails, a task ends.                                            *)
CallsOver == agentStep \in Ended
CallsEnd == <>[]CallsOver
=============================================================================
