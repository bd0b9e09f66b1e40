------------------------------ MODULE CommandRun ------------------------------
(***************************************************************************)
(* The commands a task runs on the user's machine: who agrees to one, in   *)
(* which sandbox and in which directory it runs (handleCommandRun,         *)
(* fileProxy/sandbox, LocalFileProxy).  A question may be open for long;   *)
(* meanwhile other commands run (the server gives a request up without     *)
(* telling the client, so that two overlap), and the user changes the      *)
(* approval mode, the sandbox or the workspace.                            *)
(***************************************************************************)
EXTENDS Naturals, Sequences, FiniteSets

CONSTANTS
  Jobs,        \* requests of the server
  CommandKinds,    \* what they ask for: [class, dollar]
  Workspaces,
  MaxUserSteps \* how often the user changes something

VARIABLES
  auto,     \* the approval mode is "auto"
  setting,  \* sandbox.mode
  machine,  \* backends that are installed
  cached,   \* resolveSandbox's, of the machine's best
  resolvedFor, \* resolveConfiguredSandbox's: of one setting
  sinceReset, \* what was installed at some time since /sandbox
  workspaceRoot, currentDir,
  userSteps,
  job,      \* request, its step and what it read of the above
  runsOf       \* each request's runs

commandVars == <<auto, setting, machine, cached, resolvedFor, sinceReset, workspaceRoot,
                 currentDir, userSteps, job, runsOf>>

SandboxModes == {"auto", "container", "off"}
Backends == {"native", "runtime"}
NoSandbox == "none"
Nothing == [of |-> "nothing", box |-> NoSandbox]

DirsOf(w) == {<<w, "top">>, <<w, "sub">>}
Dirs == UNION {DirsOf(w) : w \in Workspaces}

(* LocalFileProxy starts at the top of its workspace.                     *)
NewProxy == workspaceRoot \in Workspaces /\ currentDir = <<workspaceRoot, "top">>

CommandInit ==
  /\ auto = FALSE /\ setting = "auto"
  /\ machine \in SUBSET Backends
  /\ cached = "unknown" /\ resolvedFor = Nothing /\ sinceReset = {machine}
  /\ NewProxy
  /\ userSteps = 0
  /\ \E what \in [Jobs -> CommandKinds] :
       job = [j \in Jobs |->
                [what |-> what[j], step |-> "sent", was |-> currentDir, offline |-> FALSE,
                 box |-> NoSandbox, off |-> FALSE, agreed |-> "nobody"]]
  /\ runsOf = [j \in Jobs |-> <<>>]

-----------------------------------------------------------------------------
(* resolveSandbox on a machine.                                            *)
Found(s, installed) ==
  CASE s = "off" -> NoSandbox
    [] s = "auto" /\ "native" \in installed -> "native"
    [] OTHER -> IF "runtime" \in installed THEN "runtime" ELSE NoSandbox

(* resolveConfiguredSandbox: probing is slow, so both results are kept.    *)
Resolved ==
  IF resolvedFor.of = setting THEN resolvedFor.box
  ELSE IF setting = "auto" /\ cached # "unknown" THEN cached
  ELSE Found(setting, machine)

KeepResolved ==
  /\ resolvedFor' = [of |-> setting, box |-> Resolved]
  /\ cached' = IF setting = "auto" THEN Resolved ELSE cached

(* Mutant: the machine's best is kept.                                     *)
ForgetsOne == resolvedFor' = Nothing /\ UNCHANGED cached

(* resetSandboxCache.                                                      *)
ForgetResolved == resolvedFor' = Nothing /\ cached' = "unknown"

(* networkPolicyForMode: nobody looks at a command in auto mode.           *)
Offline == auto

(* resolveSandboxForCommand; the policy holds for the request's directory. *)
Sandboxed(j) == [j EXCEPT !.box = Resolved, !.offline = Offline, !.off = (setting = "off")]

(* A safe command with a "$" nobody resolved is not safe if nothing else   *)
(* confines it.                                                            *)
NeedsPrompt(j) ==
  ~auto /\ ~(j.what.class = "safe" /\ (j.what.dollar => j.box # NoSandbox \/ j.off))

-----------------------------------------------------------------------------
(* One run: in the sandbox or outside.                                     *)
Run(state) ==
  [box |-> state.box, offline |-> state.offline, off |-> state.off, agreed |-> state.agreed,
   denied |-> FALSE]
Starts(j, state) ==
  /\ job' = [job EXCEPT ![j] = [state EXCEPT !.step = "running"]]
  /\ runsOf' = [runsOf EXCEPT ![j] = Append(@, Run(state))]

(* handleCommandRun up to its first question: nothing comes between.       *)
AsksUser(j, state) ==
  job' = [job EXCEPT ![j] = [state EXCEPT !.step = "asking"]] /\ UNCHANGED runsOf

Agreed(state, by) == [state EXCEPT !.agreed = by]

(* buildContext: a request is handled in the directory of that moment.     *)
InContext(j) == [job[j] EXCEPT !.was = currentDir]

Handle(j) ==
  LET here == InContext(j)
      boxed == Sandboxed(here)
  IN
  /\ job[j].step = "sent"
  /\ \/ /\ here.what.class = "background" /\ ~auto
        /\ AsksUser(j, here) /\ UNCHANGED <<cached, resolvedFor>>
     \/ /\ here.what.class = "background" /\ auto /\ KeepResolved
        /\ Starts(j, Agreed(boxed, "auto"))
     \/ /\ here.what.class # "background" /\ KeepResolved
        /\ IF NeedsPrompt(boxed) THEN AsksUser(j, boxed)
           ELSE Starts(j, Agreed(boxed, IF auto THEN "auto" ELSE "nobody"))
  /\ UNCHANGED <<auto, setting, machine, sinceReset, workspaceRoot, currentDir, userSteps>>

(* Run: a background command is given its sandbox only now.                *)
UserAgrees(j) ==
  LET state == Agreed(job[j], "person") IN
  /\ job[j].step = "asking"
  /\ IF state.what.class = "background"
     THEN KeepResolved /\ Starts(j, Sandboxed(state))
     ELSE Starts(j, state) /\ UNCHANGED <<cached, resolvedFor>>
  /\ UNCHANGED <<auto, setting, machine, sinceReset, workspaceRoot, currentDir, userSteps>>

(* Skip, Revise, or no terminal.                                           *)
UserRefuses(j) ==
  /\ job[j].step \in {"asking", "denied"}
  /\ job' = [job EXCEPT ![j].step = "over"]
  /\ UNCHANGED <<auto, setting, machine, cached, resolvedFor, sinceReset, workspaceRoot,
                 currentDir, userSteps, runsOf>>

-----------------------------------------------------------------------------
(* Mutant: the workspace the request came in.                              *)
OfRequest(j, dir) == dir \in DirsOf(job[j].was[1])

(* assertInsideRoot.                                                       *)
Inside(j, dir) == dir \in DirsOf(workspaceRoot)

(* executeForegroundCommand: the directory a command ends in becomes the   *)
(* current one, if it is another than that of the request.                 *)
EndsIn(j, dir) ==
  currentDir' = IF dir # job[j].was /\ Inside(j, dir) THEN dir ELSE currentDir

(* It ends, is killed, or is started if nobody waits for it.               *)
Ends(j) ==
  /\ job[j].step = "running"
  /\ \/ job[j].what.class # "background" /\ \E dir \in Dirs : EndsIn(j, dir)
     \/ UNCHANGED currentDir
  /\ job' = [job EXCEPT ![j].step = "over"]
  /\ UNCHANGED <<auto, setting, machine, cached, resolvedFor, sinceReset, workspaceRoot,
                 userSteps, runsOf>>

(* detectSandboxDenial: a failure the sandbox seems to be the reason of;   *)
(* without it, after a question, or, in auto mode, at once.                *)
SandboxDenies(j) ==
  LET open == [job[j] EXCEPT !.box = NoSandbox, !.offline = FALSE] IN
  /\ job[j].step = "running" /\ job[j].box # NoSandbox /\ job[j].what.class # "background"
  /\ \E dir \in Dirs : EndsIn(j, dir)
  /\ LET denied == [runsOf[j] EXCEPT ![Len(runsOf[j])].denied = TRUE] IN
     IF auto
     THEN /\ job' = [job EXCEPT ![j] = Agreed(open, "auto")]
          /\ runsOf' = [runsOf EXCEPT ![j] = Append(denied, Run(Agreed(open, "auto")))]
     ELSE /\ job' = [job EXCEPT ![j].step = "denied"]
          /\ runsOf' = [runsOf EXCEPT ![j] = denied]
  /\ UNCHANGED <<auto, setting, machine, cached, resolvedFor, sinceReset, workspaceRoot,
                 userSteps>>

UserRetries(j) ==
  /\ job[j].step = "denied"
  /\ Starts(j, Agreed([job[j] EXCEPT !.box = NoSandbox, !.offline = FALSE], "person"))
  /\ UNCHANGED <<auto, setting, machine, cached, resolvedFor, sinceReset, workspaceRoot,
                 currentDir, userSteps>>

-----------------------------------------------------------------------------
UserStep == userSteps < MaxUserSteps /\ userSteps' = userSteps + 1

(* Shift+Tab, to auto and away from it.                                    *)
CycleMode ==
  /\ UserStep /\ auto' = ~auto
  /\ UNCHANGED <<setting, machine, cached, resolvedFor, sinceReset, workspaceRoot, currentDir, job,
                 runsOf>>

(* /sandbox.                                                               *)
SetSandbox(s) ==
  /\ UserStep /\ setting' = s
  /\ ForgetResolved
  /\ sinceReset' = {machine}
  /\ UNCHANGED <<auto, machine, workspaceRoot, currentDir, job, runsOf>>

(* A backend is installed or removed, which nobody tells the client.       *)
Install(installed) ==
  /\ UserStep /\ installed # machine
  /\ machine' = installed
  /\ sinceReset' = sinceReset \cup {installed}
  /\ UNCHANGED <<auto, setting, cached, resolvedFor, workspaceRoot, currentDir, job, runsOf>>

(* /workspace set.                                                         *)
SetWorkspaceRoot(w) ==
  /\ UserStep
  /\ workspaceRoot' = w /\ currentDir' = <<w, "top">>
  /\ UNCHANGED <<auto, setting, machine, cached, resolvedFor, sinceReset, job, runsOf>>

JobStep(j) ==
  Handle(j) \/ UserAgrees(j) \/ UserRefuses(j) \/ Ends(j) \/ SandboxDenies(j) \/ UserRetries(j)

CommandNext ==
  \/ \E j \in Jobs : JobStep(j)
  \/ CycleMode
  \/ \E s \in SandboxModes : SetSandbox(s)
  \/ \E installed \in SUBSET Backends : Install(installed)
  \/ \E w \in Workspaces : SetWorkspaceRoot(w)

-----------------------------------------------------------------------------
Runs(j) == {runsOf[j][i] : i \in DOMAIN runsOf[j]}

(* "auto is the one mode with no human reviewing each command": whatever   *)
(* the mode became while a question was open, a command in a sandbox has a *)
(* network only if somebody agreed to it or it is safe; and what nobody    *)
(* agreed to is safe, and has no "$" unless a sandbox or "off" covers it.  *)
RunsAsAgreed ==
  \A j \in Jobs : \A r \in Runs(j) :
    /\ r.agreed = "auto" /\ r.box # NoSandbox => r.offline
    /\ r.agreed = "nobody" =>
         job[j].what.class = "safe" /\ (job[j].what.dollar => r.box # NoSandbox \/ r.off)

(* "offered one retry without the sandbox": a command runs twice only if   *)
(* the sandbox denied it the first time, then outside of it, and never     *)
(* a third time.                                                           *)
OnlyDeniedRunsTwice ==
  \A j \in Jobs :
    /\ Len(runsOf[j]) <= 2
    /\ Len(runsOf[j]) = 2 =>
         /\ runsOf[j][1].denied /\ runsOf[j][1].box # NoSandbox
         /\ runsOf[j][2].box = NoSandbox

(* Wherever the commands end, and whichever workspace they were started    *)
(* in, paths are resolved in a directory of the present workspace.         *)
CursorInside == currentDir \in DirsOf(workspaceRoot)

(* "takes effect on the very next command": the sandbox of the next one is *)
(* what the setting meant on this machine at some time since /sandbox.     *)
SettingTakesEffect == Resolved \in {Found(setting, installed) : installed \in sinceReset}

CommandInv == RunsAsAgreed /\ OnlyDeniedRunsTwice /\ CursorInside /\ SettingTakesEffect
=============================================================================
