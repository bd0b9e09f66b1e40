-------------------------- MODULE ClientOperations ----------------------------
(***************************************************************************)
(* The operations a task performs on the user's machine.  The server asks  *)
(* for them through the client bridge (WorkspaceManager, TerminalExecutor, *)
(* ClientBridge); the client's file proxy runs each request on its own,    *)
(* shows what it will do, and asks the user, one approval at a time; the   *)
(* answer goes back unless the server stopped waiting for it.              *)
(*                                                                         *)
(* A file's content is the set of operations whose change it contains; the *)
(* decisions of the user, the outcome of a command and the moments of a    *)
(* timeout or of the loss of the connection are nondeterministic.          *)
(***************************************************************************)
EXTENDS Naturals, Sequences, FiniteSets, SequencesExt

CONSTANTS
  Ops,         \* the requests of the workers of a task
  File,        \* [Ops -> Files]
  Files,
  Workloads,   \* what the operations may be: functions from operations to Kinds
  MaxSessions, \* bound: connections
  MaxTimeouts  \* bound: requests that time out

(* write, edit and delete change a file and ask "keep or undo"; run and    *)
(* mcp ask "run or skip"; read asks nothing.                               *)
Changing == {"write", "edit", "delete"}
Kinds == Changing \cup {"run", "mcp", "read", "none"}
ASSUME OperationsAssumption ==
  Workloads \subseteq [Ops -> Kinds] /\ File \in [Ops -> Files] /\ {MaxSessions, MaxTimeouts} \subseteq Nat \ {0}
Nobody == "nobody"
ASSUME NobodyIsNoOp == Nobody \notin Ops

VARIABLES
  kind,        \* [Ops -> Kinds], fixed from the start
  phase,       \* where the request is, on its way or in its handler
  outcome,     \* what the worker was told, "none" before
  base,        \* content an edit was computed from
  era,         \* the connection, counted; the ones before are gone
  online,      \* it is up
  cameIn,      \* [Ops -> the era the request came in]
  disk,        \* [Files -> SUBSET Ops]
  active,      \* pendingApproval, or Nobody
  queue,       \* approvalQueue
  prompted,    \* pendingPrompt: the operation whose feedback is awaited, or Nobody
  rules,       \* sessionAllowlist: <<what is asked, the subject>>
  mode,        \* session approval mode
  uiActive,    \* inkUIActive
  retried,     \* runs that the sandbox denied and that were offered again
  applied,     \* ghost: operations whose change reached the machine
  known        \* ghost: [Ops -> the operations applied when an edit read its base]

opVars == <<kind, phase, outcome, base, era, online, cameIn, disk, active, queue, prompted,
            rules, mode, uiActive, retried, applied, known>>
approvals == <<active, queue, prompted, rules, mode>>
Phases == {"idle", "read", "sent", "showing", "asking", "feedback", "approved", "running", "over"}
Outcomes == {"none", "accepted", "declined", "error", "timeout", "lost"}

OpInit ==
  /\ kind \in Workloads
  /\ phase = [r \in Ops |-> "idle"] /\ outcome = [r \in Ops |-> "none"]
  /\ base = [r \in Ops |-> {}] /\ known = [r \in Ops |-> {}]
  /\ era = 1 /\ online = TRUE /\ cameIn = [r \in Ops |-> 0]
  /\ disk = [f \in Files |-> {}]
  /\ active = Nobody /\ queue = <<>> /\ prompted = Nobody /\ rules = {}
  /\ mode \in {"default", "accept_edits", "auto"} /\ uiActive \in BOOLEAN
  /\ retried = {} /\ applied = {}

Asks(r) == IF kind[r] \in Changing THEN "keepUndo" ELSE "runSkip"
Subject(r) == <<Asks(r), File[r]>>
Working(r) == phase[r] \notin {"idle", "read", "over"}
Moved(r, p) == phase' = [phase EXCEPT ![r] = p]

(* The handler is done: its answer reaches a worker that still waits on    *)
(* the connection the request came in.                                     *)
Answered(r, o) ==
  /\ Moved(r, "over")
  /\ outcome' = IF outcome[r] = "none" /\ online /\ cameIn[r] = era
                THEN [outcome EXCEPT ![r] = o] ELSE outcome

-----------------------------------------------------------------------------
(* editFile reads the file and computes the new content from what it read; *)
(* without a unique anchor it throws.                                      *)
StaleBase(r) == {}   \* mutant of BaseOf: computed from an older content

BaseOf(r) == disk[File[r]]

EditReads(r) ==
  /\ kind[r] = "edit" /\ phase[r] = "idle" /\ online
  /\ \/ /\ Moved(r, "read") /\ base' = [base EXCEPT ![r] = BaseOf(r)]
        /\ known' = [known EXCEPT ![r] = applied] /\ UNCHANGED outcome
     \/ /\ Moved(r, "over") /\ outcome' = [outcome EXCEPT ![r] = "error"]
        /\ UNCHANGED <<base, known>>
  /\ UNCHANGED <<kind, era, online, cameIn, disk, approvals, uiActive, retried, applied>>

(* ClientBridge.request: without a peer it throws at once.                 *)
Request(r) ==
  /\ kind[r] # "none"
  /\ phase[r] = IF kind[r] = "edit" THEN "read" ELSE "idle"
  /\ IF online
     THEN Moved(r, "sent") /\ cameIn' = [cameIn EXCEPT ![r] = era] /\ UNCHANGED outcome
     ELSE Moved(r, "over") /\ outcome' = [outcome EXCEPT ![r] = "error"] /\ UNCHANGED cameIn
  /\ UNCHANGED <<kind, base, era, online, disk, approvals, uiActive, retried, applied, known>>

(* The timer of the request: the worker goes on, the client does not know. *)
TimesOut(r) ==
  /\ outcome[r] = "none" /\ Working(r)
  /\ Cardinality({o \in Ops : outcome[o] = "timeout"}) < MaxTimeouts
  /\ outcome' = [outcome EXCEPT ![r] = "timeout"]
  /\ UNCHANGED <<kind, phase, base, era, online, cameIn, disk, approvals, uiActive, retried,
                 applied, known>>

(* LocalFileProxy.handle and dispatch: a read is answered, or fails; the   *)
(* other handlers read and print first, which they await.                  *)
HandlerBegins(r) ==
  /\ phase[r] = "sent"
  /\ \/ /\ kind[r] = "read"
        /\ \E o \in {"accepted", "error"} : Answered(r, o)
     \/ kind[r] # "read" /\ Moved(r, "showing") /\ UNCHANGED outcome
  /\ UNCHANGED <<kind, base, era, online, cameIn, disk, approvals, uiActive, retried,
                 applied, known>>

-----------------------------------------------------------------------------
(* What requestApproval answers without asking.                            *)
Allowed(r) == \/ Subject(r) \in rules \/ mode = "auto"
              \/ mode = "accept_edits" /\ Asks(r) = "keepUndo"
Go(r) == Moved(r, IF Asks(r) = "runSkip" THEN "running" ELSE "approved")

RequestApproval(r) ==
  \/ /\ Allowed(r)
     /\ Go(r) /\ UNCHANGED <<outcome, active, queue>>
  \/ /\ ~Allowed(r) /\ ~uiActive
     /\ Answered(r, "declined") /\ UNCHANGED <<active, queue>>
  \/ /\ ~Allowed(r) /\ uiActive
     /\ Moved(r, "asking") /\ UNCHANGED outcome
     /\ IF active # Nobody THEN queue' = Append(queue, r) /\ UNCHANGED active
                           ELSE active' = r /\ UNCHANGED queue

(* handleFileWrite and its like, handleCommandRun, handleGenericMcpCall:   *)
(* nothing to change, an error, no need to ask (a safe command, a tool     *)
(* that only reads), or the approval.                                      *)
HandlerAsks(r) ==
  /\ phase[r] = "showing"
  /\ \/ /\ kind[r] = "write" /\ Answered(r, "accepted")
        /\ UNCHANGED <<active, queue>>
     \/ Answered(r, "error") /\ UNCHANGED <<active, queue>>
     \/ /\ kind[r] \in {"run", "mcp"} /\ Moved(r, "running")
        /\ UNCHANGED <<outcome, active, queue>>
     \/ RequestApproval(r)
  /\ UNCHANGED <<kind, base, era, online, cameIn, disk, prompted, rules, mode, uiActive, retried,
                 applied, known>>

(* resolveApproval: the next one in the queue is shown.                    *)
ForgetQueue == active' = Nobody /\ queue' = queue   \* mutant of NextApproval

NextApproval ==
  /\ active' = IF queue = <<>> THEN Nobody ELSE Head(queue)
  /\ queue' = IF queue = <<>> THEN <<>> ELSE Tail(queue)

(* Keep or Run, and Always allow.                                          *)
UserAccepts(r) ==
  /\ active = r
  /\ Go(r)
  /\ \E always \in BOOLEAN : rules' = IF always THEN rules \cup {Subject(r)} ELSE rules
  /\ NextApproval
  /\ UNCHANGED <<kind, outcome, base, era, online, cameIn, disk, prompted, mode, uiActive, retried,
                 applied, known>>

(* Undo or Skip; or Revise, which asks what should change: a second prompt *)
(* is refused, and the handler throws.                                     *)
UserDeclines(r) ==
  /\ active = r
  /\ \/ Answered(r, "declined") /\ UNCHANGED prompted
     \/ prompted = Nobody /\ prompted' = r /\ Moved(r, "feedback") /\ UNCHANGED outcome
     \/ prompted # Nobody /\ Answered(r, "error") /\ UNCHANGED prompted
  /\ NextApproval
  /\ UNCHANGED <<kind, base, era, online, cameIn, disk, rules, mode, uiActive, retried,
                 applied, known>>

UserRevises(r) ==
  /\ prompted = r
  /\ prompted' = Nobody /\ Answered(r, "declined")
  /\ UNCHANGED <<kind, base, era, online, cameIn, disk, active, queue, rules, mode, uiActive,
                 retried, applied, known>>

(* Shift+Tab, while nothing is asked.                                      *)
CycleApprovalMode ==
  /\ uiActive /\ active = Nobody /\ prompted = Nobody
  /\ mode' = CASE mode = "default" -> "accept_edits" [] OTHER -> "default"
  /\ UNCHANGED <<kind, phase, outcome, base, era, online, cameIn, disk, active, queue, prompted,
                 rules, uiActive, retried, applied, known>>

-----------------------------------------------------------------------------
(* The change itself, awaited: the whole file is written.  Mutant of Apply:*)
(* a change that was made is reported as failed.                           *)
Content(r) == CASE kind[r] = "edit" -> base[r] \cup {r}
                [] kind[r] = "write" -> {r}
                [] OTHER -> {}
ApplyFails(r) ==
  /\ phase[r] = "approved"
  /\ disk' = [disk EXCEPT ![File[r]] = Content(r)]
  /\ applied' = applied \cup {r}
  /\ \E o \in {"accepted", "error"} : Answered(r, o)
  /\ UNCHANGED <<kind, base, era, online, cameIn, approvals, uiActive, retried, known>>

Apply(r) ==
  /\ phase[r] = "approved"
  /\ \/ /\ disk' = [disk EXCEPT ![File[r]] = Content(r)]
        /\ applied' = applied \cup {r} /\ Answered(r, "accepted")
     \/ Answered(r, "error") /\ UNCHANGED <<disk, applied>>
  /\ UNCHANGED <<kind, base, era, online, cameIn, approvals, uiActive, retried, known>>

(* The command or the tool ends; a command that its sandbox denied may run *)
(* again without it, if the user agrees once more.                         *)
Denied(r) == kind[r] = "run" /\ r \notin retried
RunEnds(r) ==
  /\ phase[r] = "running"
  /\ applied' = applied \cup {r}
  /\ \/ /\ Answered(r, "accepted") /\ UNCHANGED <<retried, active, queue>>
     \/ /\ Denied(r) /\ retried' = retried \cup {r} /\ RequestApproval(r)
  /\ UNCHANGED <<kind, base, era, online, cameIn, disk, prompted, rules, mode, uiActive, known>>

-----------------------------------------------------------------------------
(* The connection is lost: the bridge's requests fail, what the user is    *)
(* asked is dismissed, and commands are killed (the signal of the session).*)
OnlyActive == {r \in Ops : r = active \/ r = prompted}   \* mutant of Dismissed

Dismissed == {r \in Ops : phase[r] \in {"asking", "feedback"}}

Killed == {r \in Ops : phase[r] = "running" /\ kind[r] = "run" /\ cameIn[r] = era}
ConnectionLost ==
  /\ online /\ online' = FALSE
  /\ outcome' = [r \in Ops |-> IF outcome[r] = "none" /\ Working(r) THEN "lost" ELSE outcome[r]]
  /\ phase' = [r \in Ops |-> IF r \in Dismissed \cup Killed THEN "over" ELSE phase[r]]
  /\ active' = Nobody /\ queue' = <<>> /\ prompted' = Nobody
  /\ UNCHANGED <<kind, base, era, cameIn, disk, rules, mode, uiActive, retried, applied, known>>
Reconnected ==
  /\ ~online /\ era < MaxSessions
  /\ online' = TRUE /\ era' = era + 1
  /\ UNCHANGED <<kind, phase, outcome, base, cameIn, disk, approvals, uiActive, retried,
                 applied, known>>

Handler(r) == HandlerBegins(r) \/ HandlerAsks(r) \/ Apply(r) \/ RunEnds(r)
User(r) == UserAccepts(r) \/ UserDeclines(r) \/ UserRevises(r)
OpNext ==
  \/ \E r \in Ops : EditReads(r) \/ Request(r) \/ TimesOut(r) \/ Handler(r) \/ User(r)
  \/ CycleApprovalMode \/ ConnectionLost \/ Reconnected

(* Handlers go on, and the user answers what is asked.                     *)
OpFairness == \A r \in Ops : WF_opVars(Handler(r)) /\ WF_opVars(User(r))
OpSpec == OpInit /\ [][OpNext]_opVars /\ OpFairness

-----------------------------------------------------------------------------
(* The types of the variables of operations.                               *)
OpTypeOK ==
  /\ phase \in [Ops -> Phases] /\ outcome \in [Ops -> Outcomes]
  /\ base \in [Ops -> SUBSET Ops] /\ known \in [Ops -> SUBSET Ops]
  /\ era \in 1..MaxSessions /\ cameIn \in [Ops -> 0..era]
  /\ disk \in [Files -> SUBSET Ops]
  /\ active \in Ops \cup {Nobody} /\ prompted \in Ops \cup {Nobody} /\ queue \in Seq(Ops)
  /\ rules \subseteq {Subject(r) : r \in Ops}
  /\ mode \in {"default", "accept_edits", "auto"} /\ {online, uiActive} \subseteq BOOLEAN
  /\ retried \cup applied \subseteq Ops

(* Every request that waits for the user is shown or queued, once, and the *)
(* queue is empty when nothing is shown: none is lost and none is asked    *)
(* twice when answers, new requests and disconnections alternate           *)
(* (ui/bridge/approval.ts).                                                *)
NoApprovalLost ==
  /\ {r \in Ops : phase[r] = "asking"} = ToSet(queue) \cup ({active} \ {Nobody})
  /\ IsInjective(queue) /\ active \notin ToSet(queue)
  /\ active = Nobody => queue = <<>>
  /\ {r \in Ops : phase[r] = "feedback"} = {prompted} \ {Nobody}

(* A worker is wrong about a change only when it stopped waiting for it:   *)
(* a change that was made is never reported as declined or failed, and the *)
(* report of one is lost only with its connection (clientBridge.ts:125).   *)
WorkersAreTold ==
  \A r \in applied : kind[r] \in Changing =>
    outcome[r] \in {"accepted", "timeout", "lost"}

(* An edit that reached the file is still there unless the file was        *)
(* written whole or deleted, or another edit was computed before it was    *)
(* applied: edits that do not overlap in time never lose one another       *)
(* (workspaceManager.ts:477).                                              *)
EditsSurvive ==
  \A e \in applied : kind[e] = "edit" =>
    \/ e \in disk[File[e]]
    \/ \E r \in applied \ {e} : /\ kind[r] \in Changing /\ File[r] = File[e]
                                /\ kind[r] = "edit" => e \notin known[r]

(* What holds of the operations at every moment.                           *)
OperationsInv == OpTypeOK /\ NoApprovalLost /\ WorkersAreTold /\ EditsSurvive

(* The loss of a connection dismisses everything that is asked, and what a *)
(* dead session still asks was not shown yet when it died: no question     *)
(* survives the connection it was shown on.                                *)
DismissedWithSession ==
  [][online /\ ~online' => \A r \in Ops : phase'[r] \notin {"asking", "feedback"}]_opVars

(* Every request ends: no handler is left waiting for an answer, whatever  *)
(* was asked before it and whether or not its connection is still there.   *)
OperationsOver == \A r \in Ops : ~Working(r)
OperationsEnd == <>[]OperationsOver
=============================================================================
