---------------------------- MODULE ClientProofs -----------------------------
(***************************************************************************)
(* What is proved of the client: what tasks do on the user's machine, the  *)
(* lines the user types, the connection to the server and those to MCP     *)
(* servers, the settings several processes share, the pins of the servers' *)
(* certificates, and the reasoning of a model that is shown.  Each         *)
(* component is proved by an inductive invariant of its own; side by side  *)
(* they change no variable of one another.                                 *)
(***************************************************************************)
EXTENDS MCClient, FiniteSetTheorems, SequenceTheorems, WellFoundedInduction, TLAPS

-----------------------------------------------------------------------------
(* Commands.  What a run records, what a request reads before it asks, and *)
(* how far a request can be with the runs it has had.                      *)
Boxes == {"native", "runtime", NoSandbox}
Agreements == {"nobody", "auto", "person"}
RunRecord ==
  [box : Boxes, offline : BOOLEAN, off : BOOLEAN, agreed : Agreements, denied : BOOLEAN]
JobState ==
  [what : CommandKinds, step : {"sent", "asking", "running", "denied", "over"}, was : Dirs,
   offline : BOOLEAN, box : Boxes, off : BOOLEAN, agreed : Agreements]

RunOK(what, r) ==
  /\ r.agreed = "auto" /\ r.box # NoSandbox => r.offline
  /\ r.agreed = "nobody" => what.class = "safe" /\ (what.dollar => r.box # NoSandbox \/ r.off)

(* The runs of a request that was denied the sandbox and went without.     *)
RanOutside(runs) ==
  Len(runs) = 2 /\ runs[1].denied /\ runs[1].box # NoSandbox /\ runs[2].box = NoSandbox

JobOK(state, runs) ==
  /\ state \in JobState /\ runs \in Seq(RunRecord)
  /\ \A i \in 1..Len(runs) : RunOK(state.what, runs[i])
  /\ state.step \in {"sent", "asking"} => Len(runs) = 0
  /\ state.step = "running" => \/ Len(runs) = 1 /\ runs[1].box = state.box
                               \/ RanOutside(runs) /\ state.box = NoSandbox
  /\ state.step = "denied" => Len(runs) = 1 /\ runs[1].denied /\ runs[1].box # NoSandbox
  /\ Len(runs) \in {0, 1} \/ RanOutside(runs)

JobsInv ==
  /\ job \in [Jobs -> JobState] /\ runsOf \in [Jobs -> Seq(RunRecord)]
  /\ \A j \in Jobs : JobOK(job[j], runsOf[j])

(* The sandbox that is remembered was found on the machine as it was some  *)
(* time since the setting was chosen, and for that setting.                *)
SandboxInv ==
  /\ auto \in BOOLEAN /\ setting \in SandboxModes /\ machine \in sinceReset
  /\ resolvedFor = Nothing \/ resolvedFor.of = setting
  /\ resolvedFor.of = setting =>
       resolvedFor.box \in {Found(setting, installed) : installed \in sinceReset}
  /\ cached # "unknown" => cached \in {Found("auto", installed) : installed \in sinceReset}

PlaceInv == workspaceRoot \in Workspaces /\ currentDir \in DirsOf(workspaceRoot)

CommandsInv == JobsInv /\ SandboxInv /\ PlaceInv

(* What is found is a sandbox, or none.                                    *)
LEMMA FoundIsBox ==
  ASSUME NEW s, NEW installed
  PROVE  Found(s, installed) \in Boxes
BY DEF Found, Boxes, NoSandbox

(* The sandbox of the next command is what the setting meant on the        *)
(* machine some time since it was chosen.                                  *)
LEMMA ResolvedIsFound ==
  ASSUME SandboxInv
  PROVE  /\ Resolved \in {Found(setting, installed) : installed \in sinceReset}
         /\ Resolved \in Boxes
<1>1. CASE resolvedFor.of = setting
  BY <1>1, FoundIsBox DEF Resolved, SandboxInv
<1>2. CASE resolvedFor.of # setting /\ setting = "auto" /\ cached # "unknown"
  BY <1>2, FoundIsBox DEF Resolved, SandboxInv
<1>3. CASE resolvedFor.of # setting /\ ~(setting = "auto" /\ cached # "unknown")
  BY <1>3, FoundIsBox DEF Resolved, SandboxInv
<1>. QED
  BY <1>1, <1>2, <1>3

(* Keeping what was resolved keeps that.                                   *)
LEMMA KeepResolvedInv ==
  ASSUME SandboxInv, KeepResolved \/ UNCHANGED <<cached, resolvedFor>>,
         UNCHANGED <<auto, setting, machine, sinceReset>>
  PROVE  SandboxInv'
<1>1. CASE KeepResolved
  <2>1. /\ resolvedFor' = [of |-> setting, box |-> Resolved]
        /\ cached' = IF setting = "auto" THEN Resolved ELSE cached
    BY <1>1 DEF KeepResolved
  <2>2. resolvedFor'.of = setting /\ resolvedFor'.box = Resolved
    BY <2>1
  <2>3. Resolved \in {Found(setting, installed) : installed \in sinceReset}
    BY ResolvedIsFound
  <2>. QED
    BY <2>1, <2>2, <2>3 DEF SandboxInv
<1>2. CASE UNCHANGED <<cached, resolvedFor>>
  BY <1>2 DEF SandboxInv
<1>. QED
  BY <1>1, <1>2

(* A step of one request leaves the others as they were.                   *)
LEMMA JobReplaced ==
  ASSUME JobsInv, NEW j \in Jobs, NEW state, NEW runs, JobOK(state, runs),
         job' = [job EXCEPT ![j] = state], runsOf' = [runsOf EXCEPT ![j] = runs]
  PROVE  JobsInv'
<1>1. state \in JobState /\ runs \in Seq(RunRecord)
  BY DEF JobOK
<1>2. job' \in [Jobs -> JobState] /\ runsOf' \in [Jobs -> Seq(RunRecord)]
  BY <1>1 DEF JobsInv
<1>3. \A k \in Jobs : /\ job'[k] = IF k = j THEN state ELSE job[k]
                      /\ runsOf'[k] = IF k = j THEN runs ELSE runsOf[k]
  BY DEF JobsInv
<1>. QED
  BY <1>2, <1>3 DEF JobsInv

(* The first run of a request: in the sandbox it was given, if any.        *)
LEMMA FirstRun ==
  ASSUME NEW state \in JobState, NEW runs \in Seq(RunRecord), Len(runs) = 0,
         RunOK(state.what, Run(state))
  PROVE  JobOK([state EXCEPT !.step = "running"], Append(runs, Run(state)))
<1>. DEFINE next == [state EXCEPT !.step = "running"]
            all == Append(runs, Run(state))
<1>1. Run(state) \in RunRecord /\ Run(state).box = state.box
  BY DEF Run, RunRecord, JobState
<1>2. next \in JobState /\ next.step = "running" /\ next.what = state.what /\ next.box = state.box
  BY DEF JobState
<1>3. all \in Seq(RunRecord) /\ Len(all) = 1 /\ all[1] = Run(state)
  BY <1>1
<1>. HIDE DEF next, all
<1>4. JobOK(next, all)
  BY <1>1, <1>2, <1>3 DEF JobOK
<1>. QED
  BY <1>4 DEF next, all

(* A sequence with one more element.                                       *)
LEMMA LongerByOne ==
  ASSUME NEW S, NEW s \in Seq(S), NEW e \in S
  PROVE  /\ Append(s, e) \in Seq(S) /\ Len(Append(s, e)) = Len(s) + 1
         /\ \A i \in 1..Len(s) : Append(s, e)[i] = s[i]
         /\ Append(s, e)[Len(s) + 1] = e
OBVIOUS

(* The second run of a request, which the sandbox denied the first one.    *)
LEMMA SecondRun ==
  ASSUME NEW state \in JobState, NEW runs \in Seq(RunRecord), Len(runs) = 1,
         runs[1].denied, runs[1].box # NoSandbox, RunOK(state.what, runs[1]),
         state.step = "running", state.box = NoSandbox, state.agreed # "nobody"
  PROVE  JobOK(state, Append(runs, Run(state)))
<1>. DEFINE all == Append(runs, Run(state))
<1>1. /\ Run(state) \in RunRecord /\ Run(state).box = NoSandbox
      /\ RunOK(state.what, Run(state))
  BY DEF Run, RunRecord, JobState, RunOK
<1>2. all \in Seq(RunRecord) /\ Len(all) = 2 /\ all[1] = runs[1] /\ all[2] = Run(state)
  <2>1. /\ all \in Seq(RunRecord) /\ Len(all) = Len(runs) + 1
        /\ \A i \in 1..Len(runs) : all[i] = runs[i]
        /\ all[Len(runs) + 1] = Run(state)
    <3>1. Run(state) \in RunRecord
      BY <1>1
    <3>. QED
      BY ONLY <3>1, runs \in Seq(RunRecord), LongerByOne
  <2>2. 1 \in 1..Len(runs) /\ Len(runs) + 1 = 2
    OBVIOUS
  <2>. QED
    BY <2>1, <2>2, Zenon
<1>. HIDE DEF all
<1>3. RanOutside(all)
  BY <1>1, <1>2 DEF RanOutside
<1>4. \A i \in 1..Len(all) : RunOK(state.what, all[i])
  BY <1>1, <1>2
<1>5. JobOK(state, all)
  BY <1>2, <1>3, <1>4 DEF JobOK
<1>. QED
  BY <1>5 DEF all

(* Nobody looks at a command in auto mode, where it has no network; what   *)
(* runs unasked in another mode is safe.                                   *)
LEMMA HandleInv ==
  ASSUME CommandsInv, NEW j \in Jobs, Handle(j)
  PROVE  CommandsInv'
<1>. DEFINE here == InContext(j)
            boxed == Sandboxed(here)
<1>1. /\ JobsInv /\ SandboxInv /\ PlaceInv /\ JobOK(job[j], runsOf[j])
      /\ job[j] \in JobState /\ runsOf[j] \in Seq(RunRecord)
      /\ job[j].step = "sent" /\ Len(runsOf[j]) = 0
  BY DEF CommandsInv, JobsInv, JobOK, Handle
<1>2. /\ here \in JobState /\ here.step = "sent" /\ here.what = job[j].what
      /\ boxed \in JobState /\ boxed.what = job[j].what
      /\ boxed.offline = auto /\ boxed.box = Resolved /\ boxed.off = (setting = "off")
  <2>1. currentDir \in Dirs
    BY <1>1 DEF PlaceInv, Dirs
  <2>2. here \in JobState /\ here.step = "sent" /\ here.what = job[j].what
    BY <1>1, <2>1 DEF InContext, JobState
  <2>3. auto \in BOOLEAN /\ Resolved \in Boxes /\ (setting = "off") \in BOOLEAN
    BY <1>1, ResolvedIsFound DEF SandboxInv
  <2>. QED
    BY <2>2, <2>3 DEF Sandboxed, Offline, JobState
<1>. HIDE DEF here, boxed
<1>3. ASSUME NEW state \in JobState, AsksUser(j, state)
      PROVE  JobsInv'
  <2>1. JobOK([state EXCEPT !.step = "asking"], runsOf[j])
    BY <1>1, <1>3 DEF JobOK, JobState
  <2>2. runsOf' = [runsOf EXCEPT ![j] = runsOf[j]]
    BY <1>1, <1>3 DEF AsksUser, JobsInv
  <2>. QED
    BY <1>1, <1>3, <2>1, <2>2, JobReplaced DEF AsksUser
<1>4. ASSUME NEW state \in JobState, Starts(j, state), RunOK(state.what, Run(state))
      PROVE  JobsInv'
  <2>1. JobOK([state EXCEPT !.step = "running"], Append(runsOf[j], Run(state)))
    BY <1>1, <1>4, FirstRun
  <2>2. /\ job' = [job EXCEPT ![j] = [state EXCEPT !.step = "running"]]
        /\ runsOf' = [runsOf EXCEPT ![j] = Append(runsOf[j], Run(state))]
    BY <1>1, <1>4 DEF Starts, JobsInv
  <2>. QED
    BY <1>1, <2>1, <2>2, JobReplaced
<1>5. JobsInv'
  <2>1. CASE AsksUser(j, here)
    BY <1>2, <1>3, <2>1
  <2>2. CASE auto /\ Starts(j, Agreed(boxed, "auto"))
    <3>1. /\ Agreed(boxed, "auto") \in JobState
          /\ RunOK(Agreed(boxed, "auto").what, Run(Agreed(boxed, "auto")))
      BY <1>2, <2>2 DEF Agreed, JobState, Agreements, Run, RunOK
    <3>. QED
      BY <1>4, <2>2, <3>1
  <2>3. CASE AsksUser(j, boxed)
    BY <1>2, <1>3, <2>3
  <2>4. CASE ~auto /\ ~NeedsPrompt(boxed) /\ Starts(j, Agreed(boxed, "nobody"))
    <3>1. /\ Agreed(boxed, "nobody") \in JobState
          /\ RunOK(Agreed(boxed, "nobody").what, Run(Agreed(boxed, "nobody")))
      BY <1>2, <2>4 DEF Agreed, JobState, Agreements, Run, RunOK, NeedsPrompt
    <3>. QED
      BY <1>4, <2>4, <3>1
  <2>. QED
    BY <2>1, <2>2, <2>3, <2>4 DEF Handle, here, boxed
<1>6. SandboxInv'
  BY <1>1, KeepResolvedInv DEF Handle, AsksUser, Starts
<1>7. PlaceInv'
  BY <1>1 DEF Handle, PlaceInv
<1>. QED
  BY <1>5, <1>6, <1>7 DEF CommandsInv

(* The user's agreement, which starts the command, keeps the invariant,    *)
LEMMA UserAgreesInv ==
  ASSUME CommandsInv, NEW j \in Jobs, UserAgrees(j)
  PROVE  CommandsInv'
<1>. DEFINE state == Agreed(job[j], "person")
<1>1. /\ JobsInv /\ SandboxInv /\ PlaceInv /\ JobOK(job[j], runsOf[j])
      /\ job[j] \in JobState /\ runsOf[j] \in Seq(RunRecord)
      /\ job[j].step = "asking" /\ Len(runsOf[j]) = 0
  BY DEF CommandsInv, JobsInv, JobOK, UserAgrees
<1>2. state \in JobState /\ state.agreed = "person"
  BY <1>1 DEF Agreed, JobState, Agreements
<1>3. Sandboxed(state) \in JobState /\ Sandboxed(state).agreed = "person"
  <2>1. auto \in BOOLEAN /\ Resolved \in Boxes /\ (setting = "off") \in BOOLEAN
    BY <1>1, ResolvedIsFound DEF SandboxInv
  <2>. HIDE DEF state
  <2>. QED
    BY <1>2, <2>1 DEF Sandboxed, Offline, JobState
<1>. HIDE DEF state
<1>4. ASSUME NEW s \in JobState, s.agreed = "person", Starts(j, s)
      PROVE  JobsInv'
  <2>1. RunOK(s.what, Run(s))
    BY <1>4 DEF Run, RunOK
  <2>2. JobOK([s EXCEPT !.step = "running"], Append(runsOf[j], Run(s)))
    BY <1>1, <2>1, FirstRun
  <2>3. /\ job' = [job EXCEPT ![j] = [s EXCEPT !.step = "running"]]
        /\ runsOf' = [runsOf EXCEPT ![j] = Append(runsOf[j], Run(s))]
    BY <1>1, <1>4 DEF Starts, JobsInv
  <2>. QED
    BY <1>1, <2>2, <2>3, JobReplaced
<1>5. JobsInv'
  BY <1>2, <1>3, <1>4 DEF UserAgrees, state
<1>6. SandboxInv'
  BY <1>1, KeepResolvedInv DEF UserAgrees
<1>7. PlaceInv'
  BY <1>1 DEF UserAgrees, PlaceInv
<1>. QED
  BY <1>5, <1>6, <1>7 DEF CommandsInv

(* What a request changes of itself only: its step.                        *)
LEMMA StepOverInv ==
  ASSUME JobsInv, NEW j \in Jobs, job' = [job EXCEPT ![j].step = "over"], runsOf' = runsOf
  PROVE  JobsInv'
<1>1. /\ JobOK(job[j], runsOf[j]) /\ job[j] \in JobState
      /\ runsOf' = [runsOf EXCEPT ![j] = runsOf[j]]
  BY DEF JobsInv
<1>2. JobOK([job[j] EXCEPT !.step = "over"], runsOf[j])
  BY <1>1 DEF JobOK, JobState
<1>3. job' = [job EXCEPT ![j] = [job[j] EXCEPT !.step = "over"]]
  BY DEF JobsInv, JobState
<1>. QED
  BY <1>1, <1>2, <1>3, JobReplaced

(* A command ends in a directory of the present workspace, or the current  *)
(* one stays.                                                              *)
LEMMA EndsInPlace ==
  ASSUME PlaceInv, NEW j, NEW dir, EndsIn(j, dir) \/ UNCHANGED currentDir,
         UNCHANGED workspaceRoot
  PROVE  PlaceInv'
BY DEF PlaceInv, EndsIn, Inside

(* What a denied run does besides.                                         *)
LEMMA SandboxDeniesRest ==
  ASSUME CommandsInv, NEW j \in Jobs, SandboxDenies(j)
  PROVE  SandboxInv' /\ PlaceInv'
<1>1. SandboxInv /\ PlaceInv
  BY DEF CommandsInv
<1>2. SandboxInv'
  BY <1>1, KeepResolvedInv DEF SandboxDenies
<1>3. PICK dir \in Dirs : EndsIn(j, dir)
  BY DEF SandboxDenies
<1>4. PlaceInv'
  BY <1>1, <1>3, EndsInPlace DEF SandboxDenies
<1>. QED
  BY <1>2, <1>4

(* In auto mode the second run follows at once; otherwise the user is      *)
(* asked.                                                                  *)
LEMMA SandboxDeniesInv ==
  ASSUME CommandsInv, NEW j \in Jobs, SandboxDenies(j)
  PROVE  CommandsInv'
<1>. DEFINE open == [job[j] EXCEPT !.box = NoSandbox, !.offline = FALSE]
            denied == [runsOf[j] EXCEPT ![Len(runsOf[j])].denied = TRUE]
<1>1. /\ JobsInv /\ SandboxInv /\ PlaceInv /\ JobOK(job[j], runsOf[j])
      /\ job[j] \in JobState /\ runsOf[j] \in Seq(RunRecord)
      /\ job[j].step = "running" /\ job[j].box # NoSandbox
  BY DEF CommandsInv, JobsInv, SandboxDenies
<1>2. Len(runsOf[j]) = 1 /\ runsOf[j][1].box # NoSandbox /\ runsOf[j][1] \in RunRecord
      /\ RunOK(job[j].what, runsOf[j][1])
  <2>1. Len(runsOf[j]) = 1 /\ runsOf[j][1].box = job[j].box
    BY <1>1 DEF JobOK
  <2>. QED
    BY <1>1, <2>1 DEF JobOK
<1>3. /\ denied \in Seq(RunRecord) /\ Len(denied) = 1
      /\ denied[1] = [runsOf[j][1] EXCEPT !.denied = TRUE]
  <2>1. [runsOf[j][1] EXCEPT !.denied = TRUE] \in RunRecord
    BY <1>2 DEF RunRecord
  <2>2. denied = [runsOf[j] EXCEPT ![1] = [runsOf[j][1] EXCEPT !.denied = TRUE]]
    BY <1>1, <1>2
  <2>. QED
    BY <1>1, <1>2, <2>1, <2>2, ExceptSeq
<1>4. /\ denied[1].denied /\ denied[1].box # NoSandbox /\ RunOK(job[j].what, denied[1])
  BY <1>2, <1>3 DEF RunOK, RunRecord
<1>5. /\ open \in JobState /\ open.box = NoSandbox /\ open.step = "running"
      /\ open.what = job[j].what
  BY <1>1 DEF JobState, Boxes, NoSandbox
<1>. HIDE DEF open, denied
<1>6. CASE auto
  <2>. DEFINE again == Agreed(open, "auto")
  <2>1. /\ again \in JobState /\ again.box = NoSandbox /\ again.step = "running"
        /\ again.what = job[j].what /\ again.agreed # "nobody"
    BY <1>5 DEF Agreed, JobState, Agreements
  <2>. HIDE DEF again
  <2>2. JobOK(again, Append(denied, Run(again)))
    BY <1>3, <1>4, <2>1, SecondRun
  <2>3. /\ job' = [job EXCEPT ![j] = again]
        /\ runsOf' = [runsOf EXCEPT ![j] = Append(denied, Run(again))]
    BY <1>6 DEF SandboxDenies, open, denied, again
  <2>. QED
    BY <1>1, <2>2, <2>3, JobReplaced, SandboxDeniesRest DEF CommandsInv
<1>7. CASE ~auto
  <2>. DEFINE asks == [job[j] EXCEPT !.step = "denied"]
  <2>1. asks \in JobState /\ asks.step = "denied" /\ asks.what = job[j].what
    BY <1>1 DEF JobState
  <2>2. job' = [job EXCEPT ![j] = asks] /\ runsOf' = [runsOf EXCEPT ![j] = denied]
    BY <1>1, <1>7 DEF SandboxDenies, denied, JobsInv, JobState
  <2>. HIDE DEF asks
  <2>3. \A i \in 1..Len(denied) : RunOK(asks.what, denied[i])
    <3>1. RunOK(asks.what, denied[1])
      BY <1>4, <2>1, Zenon
    <3>2. \A i \in 1..Len(denied) : i = 1
      BY <1>3
    <3>. QED
      BY <3>1, <3>2, Zenon
  <2>4. JobOK(asks, denied)
    BY <1>3, <1>4, <2>1, <2>3 DEF JobOK
  <2>. QED
    BY <1>1, <2>2, <2>4, JobReplaced, SandboxDeniesRest DEF CommandsInv
<1>. QED
  BY <1>6, <1>7

(* and so does a second try outside the sandbox.                           *)
LEMMA UserRetriesInv ==
  ASSUME CommandsInv, NEW j \in Jobs, UserRetries(j)
  PROVE  CommandsInv'
<1>. DEFINE state == Agreed([job[j] EXCEPT !.box = NoSandbox, !.offline = FALSE], "person")
            next == [state EXCEPT !.step = "running"]
<1>1. /\ JobsInv /\ SandboxInv /\ PlaceInv /\ JobOK(job[j], runsOf[j])
      /\ job[j] \in JobState /\ runsOf[j] \in Seq(RunRecord)
      /\ job[j].step = "denied"
  BY DEF CommandsInv, JobsInv, UserRetries
<1>2. /\ Len(runsOf[j]) = 1 /\ runsOf[j][1].denied /\ runsOf[j][1].box # NoSandbox
      /\ RunOK(job[j].what, runsOf[j][1])
  BY <1>1 DEF JobOK
<1>3. /\ next \in JobState /\ next.step = "running" /\ next.box = NoSandbox
      /\ next.what = job[j].what /\ next.agreed # "nobody" /\ Run(next) = Run(state)
  BY <1>1 DEF Agreed, JobState, Agreements, Boxes, NoSandbox, Run
<1>4. /\ job' = [job EXCEPT ![j] = next]
      /\ runsOf' = [runsOf EXCEPT ![j] = Append(runsOf[j], Run(state))]
  BY <1>1 DEF UserRetries, Starts, JobsInv
<1>. HIDE DEF state, next
<1>5. JobOK(next, Append(runsOf[j], Run(next)))
  BY <1>1, <1>2, <1>3, SecondRun
<1>6. JobsInv'
  BY <1>1, <1>3, <1>4, <1>5, JobReplaced
<1>7. SandboxInv' /\ PlaceInv'
  BY <1>1, KeepResolvedInv DEF UserRetries, PlaceInv
<1>. QED
  BY <1>6, <1>7 DEF CommandsInv

(* The user's changes: of the mode, of the sandbox, of the machine, of the *)
(* workspace.                                                              *)
LEMMA UserChangesInv ==
  ASSUME CommandsInv,
         \/ CycleMode
         \/ \E s \in SandboxModes : SetSandbox(s)
         \/ \E installed \in SUBSET Backends : Install(installed)
         \/ \E w \in Workspaces : SetWorkspaceRoot(w)
  PROVE  CommandsInv'
<1>1. JobsInv /\ SandboxInv /\ PlaceInv
  BY DEF CommandsInv
<1>2. CASE CycleMode
  BY <1>1, <1>2 DEF CycleMode, CommandsInv, JobsInv, SandboxInv, PlaceInv
<1>3. ASSUME NEW s \in SandboxModes, SetSandbox(s) PROVE CommandsInv'
  <2>1. resolvedFor'.of # setting'
    BY <1>3 DEF SetSandbox, ForgetResolved, Nothing, SandboxModes
  <2>. QED
    BY <1>1, <1>3, <2>1
    DEF SetSandbox, ForgetResolved, CommandsInv, JobsInv, SandboxInv, PlaceInv
<1>4. ASSUME NEW installed, Install(installed) PROVE CommandsInv'
  BY <1>1, <1>4 DEF Install, CommandsInv, JobsInv, SandboxInv, PlaceInv
<1>5. ASSUME NEW w \in Workspaces, SetWorkspaceRoot(w) PROVE CommandsInv'
  <2>1. PlaceInv'
    BY <1>5 DEF SetWorkspaceRoot, PlaceInv, DirsOf
  <2>. QED
    BY <1>1, <1>5, <2>1 DEF SetWorkspaceRoot, CommandsInv, JobsInv, SandboxInv
<1>. QED
  BY <1>2, <1>3, <1>4, <1>5

(* The commands' invariant holds at the start,                             *)
LEMMA CommandsInit == CommandInit => CommandsInv
<1>. SUFFICES ASSUME CommandInit PROVE CommandsInv
  OBVIOUS
<1>1. PlaceInv
  BY DEF CommandInit, NewProxy, PlaceInv, DirsOf
<1>2. SandboxInv
  BY DEF CommandInit, SandboxInv, SandboxModes, Nothing
<1>3. JobsInv
  <2>1. PICK what \in [Jobs -> CommandKinds] :
          job = [j \in Jobs |->
                  [what |-> what[j], step |-> "sent", was |-> currentDir, offline |-> FALSE,
                   box |-> NoSandbox, off |-> FALSE, agreed |-> "nobody"]]
    BY DEF CommandInit
  <2>2. currentDir \in Dirs
    BY <1>1 DEF PlaceInv, Dirs
  <2>3. \A j \in Jobs : job[j] \in JobState /\ job[j].step = "sent"
    BY <2>1, <2>2 DEF JobState, Boxes, Agreements
  <2>4. runsOf = [j \in Jobs |-> <<>>] /\ <<>> \in Seq(RunRecord) /\ Len(<<>>) = 0
    BY EmptySeq DEF CommandInit
  <2>5. job \in [Jobs -> JobState] /\ runsOf \in [Jobs -> Seq(RunRecord)]
    <3>1. job = [j \in Jobs |-> job[j]]
      BY <2>1
    <3>. QED
      BY <2>3, <2>4, <3>1
  <2>6. \A j \in Jobs : JobOK(job[j], runsOf[j])
    BY <2>3, <2>4 DEF JobOK
  <2>. QED
    BY <2>5, <2>6 DEF JobsInv
<1>. QED
  BY <1>1, <1>2, <1>3 DEF CommandsInv

(* and every step of a command keeps it.                                   *)
LEMMA CommandsNext == CommandsInv /\ [CommandNext]_commandVars => CommandsInv'
<1>. SUFFICES ASSUME CommandsInv, [CommandNext]_commandVars PROVE CommandsInv'
  OBVIOUS
<1>1. JobsInv /\ SandboxInv /\ PlaceInv
  BY DEF CommandsInv
<1>2. ASSUME NEW j \in Jobs, UserRefuses(j) PROVE CommandsInv'
  BY <1>1, <1>2, StepOverInv, KeepResolvedInv DEF UserRefuses, CommandsInv, PlaceInv
<1>3. ASSUME NEW j \in Jobs, Ends(j) PROVE CommandsInv'
  <2>1. PlaceInv'
    BY <1>1, <1>3, EndsInPlace DEF Ends
  <2>. QED
    BY <1>1, <1>3, <2>1, StepOverInv, KeepResolvedInv DEF Ends, CommandsInv
<1>4. CASE UNCHANGED commandVars
  BY <1>1, <1>4 DEF commandVars, CommandsInv, JobsInv, SandboxInv, PlaceInv
<1>. QED
  BY <1>2, <1>3, <1>4, HandleInv, UserAgreesInv, SandboxDeniesInv, UserRetriesInv,
     UserChangesInv DEF CommandNext, JobStep

(* A command runs as it was agreed to, twice only if the sandbox denied it,*)
(* in a directory of the present workspace, in the sandbox the setting     *)
(* means.                                                                  *)
LEMMA CommandsHold == CommandsInv => CommandInv
<1>. SUFFICES ASSUME CommandsInv PROVE CommandInv
  OBVIOUS
<1>1. JobsInv /\ SandboxInv /\ PlaceInv
  BY DEF CommandsInv
<1>2. RunsAsAgreed
  <2>. SUFFICES ASSUME NEW j \in Jobs, NEW r \in Runs(j) PROVE RunOK(job[j].what, r)
    BY DEF RunsAsAgreed, RunOK
  <2>1. PICK i \in DOMAIN runsOf[j] : r = runsOf[j][i]
    BY DEF Runs
  <2>2. JobOK(job[j], runsOf[j]) /\ runsOf[j] \in Seq(RunRecord)
    BY <1>1 DEF JobsInv
  <2>3. i \in 1..Len(runsOf[j])
    BY <2>1, <2>2
  <2>. QED
    BY <2>1, <2>2, <2>3 DEF JobOK
<1>3. OnlyDeniedRunsTwice
  <2>. SUFFICES ASSUME NEW j \in Jobs
                PROVE  /\ Len(runsOf[j]) <= 2
                       /\ Len(runsOf[j]) = 2 => RanOutside(runsOf[j])
    BY DEF OnlyDeniedRunsTwice, RanOutside
  <2>1. Len(runsOf[j]) \in {0, 1} \/ RanOutside(runsOf[j])
    BY <1>1 DEF JobsInv, JobOK
  <2>2. CASE Len(runsOf[j]) \in {0, 1}
    BY <2>2
  <2>3. CASE RanOutside(runsOf[j])
    <3>1. Len(runsOf[j]) = 2
      BY <2>3 DEF RanOutside
    <3>. QED
      BY <2>3, <3>1
  <2>. QED
    BY <2>1, <2>2, <2>3
<1>4. SettingTakesEffect
  BY <1>1, ResolvedIsFound DEF SettingTakesEffect
<1>5. CursorInside
  BY <1>1 DEF PlaceInv, CursorInside
<1>. QED
  BY <1>2, <1>3, <1>4, <1>5 DEF CommandInv

-----------------------------------------------------------------------------
(* Operations.  How far a request can be, what its worker was told by      *)
(* then, and that a worker that still waits does so on the connection its  *)
(* request came in.                                                        *)
StageOK(r) ==
  /\ phase[r] \in {"idle", "read"} => outcome[r] = "none"
  /\ phase[r] = "approved" => kind[r] \in Changing
  /\ phase[r] = "running" => kind[r] \notin Changing
  /\ Working(r) => /\ outcome[r] \in {"none", "timeout", "lost"}
                   /\ outcome[r] = "none" => online /\ cameIn[r] = era
  /\ r \in applied /\ kind[r] \in Changing =>
       phase[r] = "over" /\ outcome[r] \in {"accepted", "timeout", "lost"}

StageInv == \A r \in Ops : StageOK(r)

(* Another change went over the edit e, by an operation that wrote the     *)
(* whole file or had read it before e was in it.                           *)
Overwritten(e) ==
  \E r \in applied \ {e} : /\ kind[r] \in Changing /\ File[r] = File[e]
                           /\ kind[r] = "edit" => e \notin known[r]

(* What an edit read contains every edit applied before that was not gone  *)
(* over by then.                                                           *)
BasesInv ==
  \A r \in Ops : \A e \in known[r] :
    kind[e] = "edit" /\ File[e] = File[r] => e \in base[r] \/ Overwritten(e)

OpsInv ==
  /\ kind \in [Ops -> Kinds] /\ OpTypeOK /\ NoApprovalLost /\ StageInv /\ BasesInv /\ EditsSurvive

(* The head of a queue leaves it.                                          *)
LEMMA HeadLeaves ==
  ASSUME NEW S, NEW q \in Seq(S), q # <<>>, IsInjective(q)
  PROVE  /\ Tail(q) \in Seq(S) /\ Head(q) \in S /\ Head(q) \notin ToSet(Tail(q))
         /\ ToSet(q) = ToSet(Tail(q)) \cup {Head(q)} /\ IsInjective(Tail(q))
<1>1. /\ Tail(q) \in Seq(S) /\ Len(Tail(q)) = Len(q) - 1 /\ Head(q) = q[1] /\ Head(q) \in S
      /\ \A i \in 1..Len(Tail(q)) : Tail(q)[i] = q[i + 1]
      /\ Len(q) \in Nat /\ Len(q) # 0
  BY HeadTailProperties, EmptySeq
<1>2. DOMAIN q = 1..Len(q) /\ DOMAIN Tail(q) = 1..(Len(q) - 1)
  BY <1>1
<1>3. \A i \in 1..(Len(q) - 1) : i + 1 \in 1..Len(q) /\ i + 1 # 1
  BY <1>1
<1>4. 1 \in 1..Len(q)
  BY <1>1
<1>5. Head(q) \notin ToSet(Tail(q))
  BY <1>1, <1>2, <1>3, <1>4 DEF ToSet, IsInjective
<1>6. IsInjective(Tail(q))
  <2>. SUFFICES ASSUME NEW a \in 1..(Len(q) - 1), NEW b \in 1..(Len(q) - 1),
                       Tail(q)[a] = Tail(q)[b]
                PROVE  a = b
    BY <1>2 DEF IsInjective
  <2>1. q[a + 1] = q[b + 1]
    BY <1>1
  <2>2. a + 1 = b + 1
    BY <1>2, <1>3, <2>1 DEF IsInjective
  <2>. QED
    BY <1>1, <2>2
<1>7. ToSet(q) = ToSet(Tail(q)) \cup {Head(q)}
  <2>1. \A i \in 1..Len(q) : i = 1 \/ i - 1 \in 1..(Len(q) - 1)
    BY <1>1
  <2>2. ASSUME NEW i \in 1..Len(q), i # 1 PROVE q[i] = Tail(q)[i - 1]
    <3>1. i - 1 \in 1..Len(Tail(q)) /\ (i - 1) + 1 = i
      BY <1>1, <2>1, <2>2
    <3>. QED
      BY <1>1, <3>1
  <2>3. \A i \in 1..Len(q) : q[i] \in ToSet(Tail(q)) \cup {Head(q)}
    BY <1>1, <1>2, <2>1, <2>2 DEF ToSet
  <2>4. \A i \in 1..(Len(q) - 1) : Tail(q)[i] \in ToSet(q)
    BY <1>1, <1>2, <1>3 DEF ToSet
  <2>5. Head(q) \in ToSet(q)
    BY <1>1, <1>2, <1>4 DEF ToSet
  <2>6. ToSet(q) \subseteq ToSet(Tail(q)) \cup {Head(q)}
    BY <1>2, <2>3 DEF ToSet
  <2>7. ToSet(Tail(q)) \subseteq ToSet(q)
    BY <1>2, <2>4 DEF ToSet
  <2>. QED
    BY <2>5, <2>6, <2>7
<1>. QED
  BY <1>1, <1>5, <1>6, <1>7

(* A newcomer queues up once.                                              *)
LEMMA QueuesUp ==
  ASSUME NEW S, NEW q \in Seq(S), NEW r \in S, r \notin ToSet(q), IsInjective(q)
  PROVE  /\ Append(q, r) \in Seq(S) /\ ToSet(Append(q, r)) = ToSet(q) \cup {r}
         /\ IsInjective(Append(q, r))
<1>1. /\ Append(q, r) \in Seq(S) /\ Len(Append(q, r)) = Len(q) + 1 /\ Len(q) \in Nat
      /\ \A i \in 1..Len(q) : Append(q, r)[i] = q[i]
      /\ Append(q, r)[Len(q) + 1] = r
  BY LongerByOne
<1>2. DOMAIN q = 1..Len(q) /\ DOMAIN Append(q, r) = 1..(Len(q) + 1)
  BY <1>1
<1>3. \A i \in 1..(Len(q) + 1) : i \in 1..Len(q) \/ i = Len(q) + 1
  BY <1>1
<1>4. \A i \in 1..Len(q) : i \in 1..(Len(q) + 1) /\ q[i] # r
  BY <1>1, <1>2 DEF ToSet
<1>5. Len(q) + 1 \in 1..(Len(q) + 1)
  BY <1>1
<1>6. ToSet(Append(q, r)) = ToSet(q) \cup {r}
  BY <1>1, <1>2, <1>3, <1>4, <1>5 DEF ToSet
<1>7. IsInjective(Append(q, r))
  BY <1>1, <1>2, <1>3, <1>4 DEF IsInjective
<1>. QED
  BY <1>1, <1>6, <1>7

AskingIn(ph) == {r \in Ops : ph[r] = "asking"}
FeedbackIn(ph) == {r \in Ops : ph[r] = "feedback"}

(* What no lost approval means for who asks, waits and is shown.           *)
LEMMA ApprovalParts ==
  NoApprovalLost <=>
    /\ AskingIn(phase) = ToSet(queue) \cup ({active} \ {Nobody})
    /\ IsInjective(queue) /\ active \notin ToSet(queue)
    /\ active = Nobody => queue = <<>>
    /\ FeedbackIn(phase) = {prompted} \ {Nobody}
BY DEF NoApprovalLost, AskingIn, FeedbackIn

(* One operation's move, in terms of who waits for the user.               *)
LEMMA MovedSets ==
  ASSUME OpTypeOK, NEW r \in Ops, NEW p, Moved(r, p)
  PROVE  /\ phase'[r] = p /\ \A s \in Ops \ {r} : phase'[s] = phase[s]
         /\ p = "asking" => /\ AskingIn(phase') = AskingIn(phase) \cup {r}
                            /\ FeedbackIn(phase') = FeedbackIn(phase) \ {r}
         /\ p = "feedback" => /\ AskingIn(phase') = AskingIn(phase) \ {r}
                              /\ FeedbackIn(phase') = FeedbackIn(phase) \cup {r}
         /\ p \notin {"asking", "feedback"} =>
              /\ AskingIn(phase') = AskingIn(phase) \ {r}
              /\ FeedbackIn(phase') = FeedbackIn(phase) \ {r}
<1>1. phase'[r] = p /\ \A s \in Ops \ {r} : phase'[s] = phase[s]
  BY DEF OpTypeOK, Moved
<1>. QED
  BY <1>1 DEF AskingIn, FeedbackIn

(* A move that neither starts nor ends waiting for the user.               *)
LEMMA QuietMove ==
  ASSUME OpTypeOK, NoApprovalLost, NEW r \in Ops, NEW p, Moved(r, p),
         phase[r] \notin {"asking", "feedback"}, p \notin {"asking", "feedback"},
         UNCHANGED <<active, queue, prompted>>
  PROVE  NoApprovalLost'
<1>1. r \notin AskingIn(phase) /\ r \notin FeedbackIn(phase)
  BY DEF AskingIn, FeedbackIn
<1>2. AskingIn(phase') = AskingIn(phase) /\ FeedbackIn(phase') = FeedbackIn(phase)
  BY <1>1, MovedSets
<1>. QED
  BY <1>2, ApprovalParts DEF NoApprovalLost, AskingIn, FeedbackIn

(* A request that asks is shown or queued.                                 *)
LEMMA AsksForApproval ==
  ASSUME OpTypeOK, NoApprovalLost, NEW r \in Ops, RequestApproval(r),
         phase[r] \notin {"asking", "feedback"}, UNCHANGED prompted
  PROVE  NoApprovalLost'
<1>1. CASE Moved(r, "asking") /\ active # Nobody /\ queue' = Append(queue, r) /\ active' = active
  <2>1. r \notin AskingIn(phase) /\ r \notin FeedbackIn(phase)
    BY DEF AskingIn, FeedbackIn
  <2>5. /\ AskingIn(phase') = AskingIn(phase) \cup {r}
        /\ FeedbackIn(phase') = FeedbackIn(phase) \ {r}
    BY <1>1, MovedSets
  <2>2. /\ AskingIn(phase') = AskingIn(phase) \cup {r}
        /\ FeedbackIn(phase') = FeedbackIn(phase)
    BY <2>1, <2>5
  <2>3. r \notin ToSet(queue) /\ r # active /\ queue \in Seq(Ops) /\ IsInjective(queue)
    BY <2>1, NobodyIsNoOp, ApprovalParts DEF OpTypeOK
  <2>4. ToSet(queue') = ToSet(queue) \cup {r} /\ IsInjective(queue')
    BY <1>1, <2>3, QueuesUp
  <2>. QED
    BY <1>1, <2>2, <2>3, <2>4, ApprovalParts DEF NoApprovalLost, AskingIn, FeedbackIn
<1>2. CASE Moved(r, "asking") /\ active = Nobody /\ active' = r /\ queue' = queue
  <2>1. r \notin AskingIn(phase) /\ r \notin FeedbackIn(phase)
    BY DEF AskingIn, FeedbackIn
  <2>5. /\ AskingIn(phase') = AskingIn(phase) \cup {r}
        /\ FeedbackIn(phase') = FeedbackIn(phase) \ {r}
    BY <1>2, MovedSets
  <2>2. /\ AskingIn(phase') = AskingIn(phase) \cup {r}
        /\ FeedbackIn(phase') = FeedbackIn(phase)
    BY <2>1, <2>5
  <2>3. r \notin ToSet(queue) /\ r # Nobody /\ queue = <<>>
    BY <1>2, <2>1, NobodyIsNoOp, ApprovalParts
  <2>. QED
    BY <1>2, <2>2, <2>3, ApprovalParts DEF NoApprovalLost, AskingIn, FeedbackIn
<1>3. ASSUME NEW p \in {"running", "approved", "over"}, Moved(r, p), UNCHANGED <<active, queue>>
      PROVE  NoApprovalLost'
  BY <1>3, QuietMove
<1>. QED
  BY <1>1, <1>2, <1>3 DEF RequestApproval, Go, Answered

(* The answer to what is shown brings up the next one.                     *)
LEMMA ApprovalResolved ==
  ASSUME OpTypeOK, NoApprovalLost, NEW r \in Ops, NEW p, Moved(r, p),
         active = r, NextApproval, p # "asking",
         \/ p = "feedback" /\ prompted = Nobody /\ prompted' = r
         \/ p # "feedback" /\ UNCHANGED prompted
  PROVE  NoApprovalLost'
<1>1. /\ AskingIn(phase) = ToSet(queue) \cup {r} /\ r \notin ToSet(queue)
      /\ IsInjective(queue) /\ queue \in Seq(Ops) /\ r # Nobody
      /\ FeedbackIn(phase) = {prompted} \ {Nobody}
  BY NobodyIsNoOp, ApprovalParts DEF OpTypeOK
<1>2. r \notin FeedbackIn(phase)
  BY <1>1 DEF AskingIn, FeedbackIn
<1>3. AskingIn(phase') = ToSet(queue)
  <2>1. AskingIn(phase') = AskingIn(phase) \ {r}
    <3>1. CASE p = "feedback"
      BY <3>1, MovedSets
    <3>2. CASE p \notin {"asking", "feedback"}
      BY <3>2, MovedSets
    <3>. QED
      BY <3>1, <3>2
  <2>2. (ToSet(queue) \cup {r}) \ {r} = ToSet(queue)
    BY <1>1
  <2>. QED
    BY <1>1, <2>1, <2>2
<1>4. FeedbackIn(phase') = {prompted'} \ {Nobody}
  BY <1>1, <1>2, MovedSets
<1>5. CASE queue = <<>>
  <2>1. ToSet(queue) = {}
    BY <1>5, EmptySeq DEF ToSet
  <2>2. active' = Nobody /\ queue' = <<>>
    BY <1>5 DEF NextApproval
  <2>. QED
    BY <1>1, <1>3, <1>4, <1>5, <2>1, <2>2 DEF NoApprovalLost, AskingIn, FeedbackIn
<1>6. CASE queue # <<>>
  <2>1. active' = Head(queue) /\ queue' = Tail(queue)
    BY <1>6 DEF NextApproval
  <2>2. /\ Head(queue) \in Ops /\ Head(queue) \notin ToSet(Tail(queue))
        /\ ToSet(queue) = ToSet(Tail(queue)) \cup {Head(queue)} /\ IsInjective(Tail(queue))
    BY <1>1, <1>6, HeadLeaves
  <2>3. active' # Nobody
    BY <2>1, <2>2, NobodyIsNoOp
  <2>. QED
    BY <1>3, <1>4, <2>1, <2>2, <2>3 DEF NoApprovalLost, AskingIn, FeedbackIn
<1>. QED
  BY <1>5, <1>6

(* No step loses an approval that somebody waits for.                      *)
LEMMA ApprovalsStep == OpTypeOK /\ NoApprovalLost /\ OpNext => NoApprovalLost'
<1>. SUFFICES ASSUME OpTypeOK, NoApprovalLost, OpNext PROVE NoApprovalLost'
  OBVIOUS
<1>1. ASSUME NEW r \in Ops, EditReads(r) \/ Request(r) \/ HandlerBegins(r) \/ Apply(r)
      PROVE  NoApprovalLost'
  <2>1. PICK p \in {"read", "over", "sent", "showing"} : Moved(r, p)
    BY <1>1 DEF EditReads, Request, HandlerBegins, Apply, Answered
  <2>2. phase[r] \notin {"asking", "feedback"} /\ UNCHANGED <<active, queue, prompted>>
    BY <1>1 DEF EditReads, Request, HandlerBegins, Apply, approvals
  <2>. QED
    BY <2>1, <2>2, QuietMove
<1>2. ASSUME NEW r \in Ops, HandlerAsks(r) \/ RunEnds(r)
      PROVE  NoApprovalLost'
  <2>1. phase[r] \notin {"asking", "feedback"} /\ UNCHANGED prompted
    BY <1>2 DEF HandlerAsks, RunEnds
  <2>2. CASE RequestApproval(r)
    BY <2>1, <2>2, AsksForApproval
  <2>3. ASSUME NEW p \in {"over", "running"}, Moved(r, p), UNCHANGED <<active, queue>>
        PROVE  NoApprovalLost'
    BY <2>1, <2>3, QuietMove
  <2>. QED
    BY <1>2, <2>2, <2>3 DEF HandlerAsks, RunEnds, Answered
<1>3. ASSUME NEW r \in Ops, UserAccepts(r)
      PROVE  NoApprovalLost'
  <2>1. PICK p \in {"running", "approved"} : Moved(r, p)
    BY <1>3 DEF UserAccepts, Go
  <2>. QED
    BY <1>3, <2>1, ApprovalResolved DEF UserAccepts
<1>4. ASSUME NEW r \in Ops, UserDeclines(r)
      PROVE  NoApprovalLost'
  BY <1>4, ApprovalResolved DEF UserDeclines, Answered
<1>5. ASSUME NEW r \in Ops, UserRevises(r)
      PROVE  NoApprovalLost'
  <2>1. Moved(r, "over") /\ prompted = r /\ prompted' = Nobody /\ UNCHANGED <<active, queue>>
    BY <1>5 DEF UserRevises, Answered
  <2>2. FeedbackIn(phase) = {r} /\ r \notin AskingIn(phase)
    BY <2>1, NobodyIsNoOp, ApprovalParts DEF FeedbackIn, AskingIn
  <2>3. FeedbackIn(phase') = {} /\ AskingIn(phase') = AskingIn(phase)
    BY <2>1, <2>2, MovedSets
  <2>. QED
    BY <2>1, <2>3, ApprovalParts DEF NoApprovalLost, AskingIn, FeedbackIn
<1>6. CASE ConnectionLost
  <2>1. /\ \A r \in Ops : phase'[r] \notin {"asking", "feedback"}
        /\ active' = Nobody /\ queue' = <<>> /\ prompted' = Nobody
    BY <1>6 DEF ConnectionLost, Dismissed
  <2>2. ToSet(<<>>) = {} /\ IsInjective(<<>>)
    BY EmptySeq DEF ToSet, IsInjective
  <2>. QED
    BY <2>1, <2>2 DEF NoApprovalLost
<1>7. ASSUME UNCHANGED <<phase, active, queue, prompted>>
      PROVE  NoApprovalLost'
  BY <1>7 DEF NoApprovalLost
<1>8. ASSUME NEW r \in Ops, TimesOut(r) PROVE NoApprovalLost'
  BY <1>7, <1>8 DEF TimesOut, approvals
<1>. QED
  BY <1>1, <1>2, <1>3, <1>4, <1>5, <1>6, <1>7, <1>8
  DEF OpNext, Handler, User, CycleApprovalMode, Reconnected, approvals

(* What a step leaves of an operation it is not about.                     *)
Same(s) == /\ phase'[s] = phase[s] /\ outcome'[s] = outcome[s] /\ cameIn'[s] = cameIn[s]
           /\ s \in applied' <=> s \in applied

(* Such an operation is as far as it was.                                  *)
LEMMA SameStage ==
  ASSUME NEW s \in Ops, StageOK(s), Same(s), UNCHANGED <<kind, era, online>>
  PROVE  StageOK(s)'
BY DEF StageOK, Same, Working

(* A step about one operation has only that one to answer for.             *)
LEMMA StageOfOne ==
  ASSUME StageInv, NEW r \in Ops, UNCHANGED <<kind, era, online>>,
         \A s \in Ops \ {r} : Same(s), StageOK(r)'
  PROVE  StageInv'
<1>1. \A s \in Ops \ {r} : StageOK(s)'
  BY SameStage DEF StageInv
<1>. QED
  BY <1>1 DEF StageInv

(* The answer goes to a worker that waits on a connection that is there.   *)
LEMMA AnswerSets ==
  ASSUME OpTypeOK, NEW r \in Ops, NEW o, Answered(r, o)
  PROVE  /\ phase'[r] = "over"
         /\ outcome'[r] = IF outcome[r] = "none" /\ online /\ cameIn[r] = era THEN o ELSE outcome[r]
         /\ \A s \in Ops \ {r} : phase'[s] = phase[s] /\ outcome'[s] = outcome[s]
BY DEF OpTypeOK, Answered, Moved

(* An answer ends a request whose change was not made.                     *)
LEMMA AnswerStage ==
  ASSUME OpTypeOK, StageInv, NEW r \in Ops, NEW o, Answered(r, o),
         phase[r] # "over", UNCHANGED <<kind, era, online, cameIn>>,
         \A s \in Ops \ {r} : s \in applied' <=> s \in applied,
         r \in applied' /\ kind[r] \in Changing => o = "accepted" /\ Working(r)
  PROVE  StageInv'
<1>1. /\ phase'[r] = "over"
      /\ outcome'[r] = IF outcome[r] = "none" /\ online /\ cameIn[r] = era THEN o ELSE outcome[r]
  BY AnswerSets
<1>2. \A s \in Ops \ {r} : Same(s)
  BY AnswerSets DEF Same
<1>3. ~Working(r)'
  BY <1>1 DEF Working
<1>4. r \in applied' /\ kind[r] \in Changing => outcome'[r] \in {"accepted", "timeout", "lost"}
  <2>. SUFFICES ASSUME r \in applied', kind[r] \in Changing
                PROVE  outcome'[r] \in {"accepted", "timeout", "lost"}
    OBVIOUS
  <2>1. outcome[r] \in {"none", "timeout", "lost"} /\ (outcome[r] = "none" => online /\ cameIn[r] = era)
    BY DEF StageInv, StageOK
  <2>. QED
    BY <1>1, <2>1
<1>5. StageOK(r)'
  BY <1>1, <1>3, <1>4 DEF StageOK
<1>. QED
  BY <1>2, <1>5, StageOfOne

(* A move of a request that works, to where its kind may be.               *)
LEMMA MoveStage ==
  ASSUME OpTypeOK, StageInv, NEW r \in Ops, NEW p, Moved(r, p), Working(r),
         p \in {"showing", "asking", "feedback", "approved", "running"},
         p = "approved" => kind[r] \in Changing, p = "running" => kind[r] \notin Changing,
         UNCHANGED <<kind, era, online, cameIn, outcome>>,
         \A s \in Ops \ {r} : s \in applied' <=> s \in applied,
         kind[r] \in Changing => (r \in applied' <=> r \in applied)
  PROVE  StageInv'
<1>1. phase'[r] = p /\ \A s \in Ops \ {r} : Same(s)
  BY MovedSets DEF Same
<1>2. r \notin applied' \/ kind[r] \notin Changing
  BY DEF StageInv, StageOK, Working
<1>3. outcome'[r] \in {"none", "timeout", "lost"} /\ (outcome'[r] = "none" => online' /\ cameIn'[r] = era')
  BY DEF StageInv, StageOK
<1>4. StageOK(r)'
  BY <1>1, <1>2, <1>3 DEF StageOK
<1>. QED
  BY <1>1, <1>4, StageOfOne

(* What is asked for goes where its kind may be, or is answered.           *)
LEMMA RequestStage ==
  ASSUME OpTypeOK, StageInv, NEW r \in Ops, RequestApproval(r), Working(r),
         UNCHANGED <<kind, era, online, cameIn>>,
         \A s \in Ops \ {r} : s \in applied' <=> s \in applied,
         kind[r] \in Changing => (r \in applied' <=> r \in applied)
  PROVE  StageInv'
<1>1. r \notin applied' \/ kind[r] \notin Changing
  BY DEF StageInv, StageOK, Working
<1>2. CASE Go(r) /\ UNCHANGED outcome
  <2>1. Asks(r) = "runSkip" <=> kind[r] \notin Changing
    BY DEF Asks
  <2>. QED
    BY <1>2, <2>1, MoveStage DEF Go
<1>3. CASE Answered(r, "declined")
  BY <1>1, <1>3, AnswerStage DEF Working
<1>4. CASE Moved(r, "asking") /\ UNCHANGED outcome
  BY <1>4, MoveStage
<1>. QED
  BY <1>2, <1>3, <1>4 DEF RequestApproval

(* Every step leaves an operation where its answer allows.                 *)
LEMMA StageStep == OpTypeOK /\ NoApprovalLost /\ StageInv /\ OpNext => StageInv'
<1>. SUFFICES ASSUME OpTypeOK, NoApprovalLost, StageInv, OpNext PROVE StageInv'
  OBVIOUS
<1>1. ASSUME NEW r \in Ops, EditReads(r) PROVE StageInv'
  <2>1. /\ phase[r] = "idle" /\ phase'[r] \in {"read", "over"}
        /\ phase'[r] = "read" => outcome' = outcome
        /\ \A s \in Ops \ {r} : Same(s)
        /\ UNCHANGED <<kind, era, online, applied>>
    BY <1>1 DEF EditReads, Moved, Same, OpTypeOK
  <2>2. r \notin applied' \/ kind[r] \notin Changing
    BY <2>1 DEF StageInv, StageOK
  <2>3. outcome[r] = "none"
    BY <2>1 DEF StageInv, StageOK
  <2>4. StageOK(r)'
    BY <2>1, <2>2, <2>3 DEF StageOK, Working
  <2>. QED
    BY <2>1, <2>4, StageOfOne
<1>2. ASSUME NEW r \in Ops, Request(r) PROVE StageInv'
  <2>1. /\ phase[r] \in {"idle", "read"}
        /\ \/ /\ phase'[r] = "sent" /\ online /\ cameIn'[r] = era /\ outcome' = outcome
           \/ phase'[r] = "over"
        /\ \A s \in Ops \ {r} : Same(s)
        /\ UNCHANGED <<kind, era, online, applied>>
    BY <1>2 DEF Request, Moved, Same, OpTypeOK
  <2>2. r \notin applied' \/ kind[r] \notin Changing
    BY <2>1 DEF StageInv, StageOK
  <2>3. outcome[r] = "none"
    BY <2>1 DEF StageInv, StageOK
  <2>4. StageOK(r)'
    BY <2>1, <2>2, <2>3 DEF StageOK, Working
  <2>. QED
    BY <2>1, <2>4, StageOfOne
<1>3. ASSUME NEW r \in Ops, TimesOut(r) PROVE StageInv'
  <2>1. /\ phase'[r] = phase[r] /\ outcome'[r] = "timeout" /\ Working(r) /\ cameIn' = cameIn
        /\ \A s \in Ops \ {r} : Same(s)
        /\ UNCHANGED <<kind, era, online, applied>>
    BY <1>3 DEF TimesOut, Same, OpTypeOK
  <2>2. StageOK(r)'
    BY <2>1 DEF StageInv, StageOK, Working
  <2>. QED
    BY <2>1, <2>2, StageOfOne
<1>4. ASSUME NEW r \in Ops, HandlerBegins(r) PROVE StageInv'
  <2>1. /\ phase[r] = "sent" /\ Working(r)
        /\ UNCHANGED <<kind, era, online, cameIn, applied>>
    BY <1>4 DEF HandlerBegins, Working
  <2>2. r \notin applied' \/ kind[r] \notin Changing
    BY <2>1 DEF StageInv, StageOK
  <2>3. CASE \E o \in {"accepted", "error"} : Answered(r, o)
    BY <2>1, <2>2, <2>3, AnswerStage
  <2>4. CASE Moved(r, "showing") /\ UNCHANGED outcome
    BY <2>1, <2>4, MoveStage
  <2>. QED
    BY <1>4, <2>3, <2>4 DEF HandlerBegins
<1>5. ASSUME NEW r \in Ops, HandlerAsks(r) PROVE StageInv'
  <2>1. /\ phase[r] = "showing" /\ Working(r)
        /\ UNCHANGED <<kind, era, online, cameIn, applied>>
    BY <1>5 DEF HandlerAsks, Working
  <2>2. r \notin applied' \/ kind[r] \notin Changing
    BY <2>1 DEF StageInv, StageOK
  <2>3. CASE \E o \in {"accepted", "error"} : Answered(r, o)
    BY <2>1, <2>2, <2>3, AnswerStage
  <2>4. CASE kind[r] \in {"run", "mcp"} /\ Moved(r, "running") /\ UNCHANGED outcome
    <3>1. kind[r] \notin Changing
      BY <2>4 DEF Changing
    <3>. QED
      BY <2>1, <2>4, <3>1, MoveStage
  <2>5. CASE RequestApproval(r)
    BY <2>1, <2>5, RequestStage
  <2>. QED
    BY <1>5, <2>3, <2>4, <2>5 DEF HandlerAsks
<1>6. ASSUME NEW r \in Ops, Apply(r) PROVE StageInv'
  <2>1. phase[r] = "approved" /\ Working(r) /\ UNCHANGED <<kind, era, online, cameIn>>
    BY <1>6 DEF Apply, Working
  <2>2. r \notin applied \/ kind[r] \notin Changing
    BY <2>1 DEF StageInv, StageOK
  <2>3. CASE applied' = applied \cup {r} /\ Answered(r, "accepted")
    BY <2>1, <2>3, AnswerStage
  <2>4. CASE applied' = applied /\ Answered(r, "error")
    BY <2>1, <2>2, <2>4, AnswerStage
  <2>. QED
    BY <1>6, <2>3, <2>4 DEF Apply
<1>7. ASSUME NEW r \in Ops, RunEnds(r) PROVE StageInv'
  <2>1. /\ phase[r] = "running" /\ Working(r) /\ applied' = applied \cup {r}
        /\ UNCHANGED <<kind, era, online, cameIn>>
    BY <1>7 DEF RunEnds, Working
  <2>2. kind[r] \notin Changing
    BY <2>1 DEF StageInv, StageOK
  <2>3. CASE Answered(r, "accepted")
    BY <2>1, <2>2, <2>3, AnswerStage
  <2>4. CASE RequestApproval(r)
    BY <2>1, <2>2, <2>4, RequestStage
  <2>. QED
    BY <1>7, <2>3, <2>4 DEF RunEnds
<1>8. ASSUME NEW r \in Ops, UserAccepts(r) \/ UserDeclines(r) \/ UserRevises(r) PROVE StageInv'
  <2>1. phase[r] \in {"asking", "feedback"} /\ Working(r)
    <3>1. r # Nobody /\ (active = r \/ prompted = r)
      BY <1>8, NobodyIsNoOp DEF UserAccepts, UserDeclines, UserRevises
    <3>2. r \in AskingIn(phase) \/ r \in FeedbackIn(phase)
      BY <3>1, ApprovalParts
    <3>. QED
      BY <3>2 DEF AskingIn, FeedbackIn, Working
  <2>2. UNCHANGED <<kind, era, online, cameIn, applied>>
    BY <1>8 DEF UserAccepts, UserDeclines, UserRevises
  <2>3. r \notin applied' \/ kind[r] \notin Changing
    BY <2>1, <2>2 DEF StageInv, StageOK
  <2>4. CASE Go(r) /\ UNCHANGED outcome
    <3>1. Asks(r) = "runSkip" <=> kind[r] \notin Changing
      BY DEF Asks
    <3>. QED
      BY <2>1, <2>2, <2>4, <3>1, MoveStage DEF Go
  <2>5. CASE \E o \in {"declined", "error"} : Answered(r, o)
    BY <2>1, <2>2, <2>3, <2>5, AnswerStage
  <2>6. CASE Moved(r, "feedback") /\ UNCHANGED outcome
    BY <2>1, <2>2, <2>6, MoveStage
  <2>. QED
    BY <1>8, <2>4, <2>5, <2>6 DEF UserAccepts, UserDeclines, UserRevises
<1>9. CASE ConnectionLost
  <2>. SUFFICES ASSUME NEW r \in Ops PROVE StageOK(r)'
    BY DEF StageInv
  <2>1. /\ outcome'[r] = IF outcome[r] = "none" /\ Working(r) THEN "lost" ELSE outcome[r]
        /\ phase'[r] = "over" \/ phase'[r] = phase[r]
        /\ phase[r] \in {"idle", "read"} => phase'[r] = phase[r]
        /\ UNCHANGED <<kind, applied>>
    BY <1>9 DEF ConnectionLost, Dismissed, Killed
  <2>2. StageOK(r)
    BY DEF StageInv
  <2>3. Working(r)' => Working(r)
    BY <2>1 DEF Working
  <2>. QED
    BY <2>1, <2>2, <2>3 DEF StageOK, Working
<1>10. CASE Reconnected
  <2>. SUFFICES ASSUME NEW r \in Ops PROVE StageOK(r)'
    BY DEF StageInv
  <2>1. ~online /\ online' /\ UNCHANGED <<kind, phase, outcome, applied>>
    BY <1>10 DEF Reconnected
  <2>2. StageOK(r)
    BY DEF StageInv
  <2>. QED
    BY <2>1, <2>2 DEF StageOK, Working
<1>11. CASE CycleApprovalMode
  BY <1>11 DEF CycleApprovalMode, StageInv, StageOK, Working
<1>. QED
  BY <1>1, <1>2, <1>3, <1>4, <1>5, <1>6, <1>7, <1>8, <1>9, <1>10, <1>11
  DEF OpNext, Handler, User

(* What went over an edit stays so while nothing else is known of it.      *)
LEMMA OverwrittenStays ==
  ASSUME NEW e, Overwritten(e), applied \subseteq applied', UNCHANGED kind,
         \A r \in applied : kind[r] \in Changing => known'[r] = known[r]
  PROVE  Overwritten(e)'
BY DEF Overwritten

(* A step that leaves the files and what edits have read, and makes no     *)
(* edit, leaves the edits that are there.                                  *)
LEMMA FilesKept ==
  ASSUME BasesInv, EditsSurvive, UNCHANGED <<kind, base, disk, known>>,
         applied \subseteq applied', \A r \in applied' \ applied : kind[r] # "edit"
  PROVE  BasesInv' /\ EditsSurvive'
<1>1. \A e : Overwritten(e) => Overwritten(e)'
  BY OverwrittenStays
<1>2. BasesInv'
  BY <1>1 DEF BasesInv
<1>3. \A e \in applied : kind[e] = "edit" => e \in disk[File[e]] \/ Overwritten(e)
  BY DEF EditsSurvive, Overwritten
<1>4. \A e \in applied' : kind'[e] = "edit" => e \in disk'[File[e]] \/ Overwritten(e)'
  BY <1>1, <1>3
<1>5. EditsSurvive'
  BY <1>4 DEF EditsSurvive, Overwritten
<1>. QED
  BY <1>2, <1>5

(* An edit reads what is there: every edit before it, unless that was gone *)
(* over.                                                                   *)
LEMMA ReadsAreBases ==
  ASSUME OpTypeOK, StageInv, BasesInv, EditsSurvive, NEW r \in Ops, EditReads(r)
  PROVE  BasesInv' /\ EditsSurvive'
<1>1. CASE UNCHANGED <<base, known>>
  BY <1>1, FilesKept DEF EditReads
<1>2. CASE base' = [base EXCEPT ![r] = BaseOf(r)] /\ known' = [known EXCEPT ![r] = applied]
  <2>1. /\ kind[r] = "edit" /\ phase[r] = "idle" /\ UNCHANGED <<kind, disk, applied>>
        /\ base'[r] = disk[File[r]] /\ known'[r] = applied
        /\ \A s \in Ops \ {r} : base'[s] = base[s] /\ known'[s] = known[s]
    BY <1>2 DEF EditReads, OpTypeOK, BaseOf
  <2>2. r \notin applied
    BY <2>1 DEF StageInv, StageOK, Changing
  <2>3. \A s \in applied : known'[s] = known[s]
    BY <2>1, <2>2 DEF OpTypeOK
  <2>4. \A e : Overwritten(e) => Overwritten(e)'
    BY <2>1, <2>3, OverwrittenStays
  <2>5. \A e \in applied : kind[e] = "edit" => e \in disk[File[e]] \/ Overwritten(e)
    BY DEF EditsSurvive, Overwritten
  <2>6. \A e \in applied' : kind'[e] = "edit" => e \in disk'[File[e]] \/ Overwritten(e)'
    BY <2>1, <2>4, <2>5
  <2>7. \A e \in known'[r] : kind'[e] = "edit" /\ File[e] = File[r] => e \in base'[r] \/ Overwritten(e)'
    BY <2>1, <2>4, <2>5
  <2>8. \A s \in Ops \ {r} : \A e \in known'[s] :
          kind'[e] = "edit" /\ File[e] = File[s] => e \in base'[s] \/ Overwritten(e)'
    BY <2>1, <2>4 DEF BasesInv
  <2>9. BasesInv'
    BY <2>7, <2>8 DEF BasesInv
  <2>10. EditsSurvive'
    BY <2>6 DEF EditsSurvive, Overwritten
  <2>. QED
    BY <2>9, <2>10
<1>. QED
  BY <1>1, <1>2 DEF EditReads

(* A change keeps what it was computed from, and goes over the rest.       *)
LEMMA ChangesGoOver ==
  ASSUME OpTypeOK, StageInv, BasesInv, EditsSurvive, NEW r \in Ops, phase[r] = "approved",
         disk' = [disk EXCEPT ![File[r]] = Content(r)], applied' = applied \cup {r},
         UNCHANGED <<kind, base, known>>
  PROVE  BasesInv' /\ EditsSurvive'
<1>1. kind[r] \in Changing
  BY DEF StageInv, StageOK
<1>2. File[r] \in Files /\ disk'[File[r]] = Content(r)
      /\ \A f \in Files \ {File[r]} : disk'[f] = disk[f]
  BY OperationsAssumption DEF OpTypeOK
<1>3. \A e : Overwritten(e) => Overwritten(e)'
  BY OverwrittenStays
<1>4. BasesInv'
  BY <1>3 DEF BasesInv
<1>5. ASSUME NEW e \in applied', kind[e] = "edit"
      PROVE  e \in disk'[File[e]] \/ Overwritten(e)'
  <2>1. CASE e = r
    BY <1>2, <1>5, <2>1 DEF Content
  <2>2. CASE e # r /\ File[e] # File[r]
    <3>1. e \in applied /\ e \in Ops
      BY <1>5, <2>2 DEF OpTypeOK
    <3>2. File[e] \in Files \ {File[r]}
      BY <2>2, <3>1, OperationsAssumption
    <3>3. e \in disk[File[e]] \/ Overwritten(e)
      BY <1>5, <3>1 DEF EditsSurvive, Overwritten
    <3>. QED
      BY <1>2, <1>3, <3>2, <3>3
  <2>3. CASE e # r /\ File[e] = File[r] /\ (kind[r] = "edit" => e \notin known[r])
    BY <1>1, <2>3 DEF Overwritten
  <2>4. CASE e # r /\ File[e] = File[r] /\ kind[r] = "edit" /\ e \in known[r]
    <3>1. e \in base[r] \/ Overwritten(e)
      BY <1>5, <2>4 DEF BasesInv
    <3>. QED
      BY <1>2, <1>3, <2>4, <3>1 DEF Content
  <2>. QED
    BY <2>1, <2>2, <2>3, <2>4
<1>6. EditsSurvive'
  BY <1>5 DEF EditsSurvive, Overwritten
<1>. QED
  BY <1>4, <1>6

(* No step writes over an edit that was not read.                          *)
LEMMA EditsStep == OpTypeOK /\ StageInv /\ BasesInv /\ EditsSurvive /\ OpNext => BasesInv' /\ EditsSurvive'
<1>. SUFFICES ASSUME OpTypeOK, StageInv, BasesInv, EditsSurvive, OpNext
              PROVE  BasesInv' /\ EditsSurvive'
  OBVIOUS
<1>1. ASSUME NEW r \in Ops, EditReads(r) PROVE BasesInv' /\ EditsSurvive'
  BY <1>1, ReadsAreBases
<1>2. ASSUME NEW r \in Ops, Apply(r) PROVE BasesInv' /\ EditsSurvive'
  <2>1. CASE UNCHANGED <<disk, applied>>
    BY <1>2, <2>1, FilesKept DEF Apply
  <2>2. CASE disk' = [disk EXCEPT ![File[r]] = Content(r)] /\ applied' = applied \cup {r}
    BY <1>2, <2>2, ChangesGoOver DEF Apply
  <2>. QED
    BY <1>2, <2>1, <2>2 DEF Apply
<1>3. ASSUME NEW r \in Ops, RunEnds(r) PROVE BasesInv' /\ EditsSurvive'
  <2>1. /\ phase[r] = "running" /\ applied' = applied \cup {r}
        /\ UNCHANGED <<kind, base, disk, known>>
    BY <1>3 DEF RunEnds
  <2>2. kind[r] # "edit"
    BY <2>1 DEF StageInv, StageOK, Changing
  <2>. QED
    BY <2>1, <2>2, FilesKept
<1>4. ASSUME UNCHANGED <<kind, base, disk, known, applied>>
      PROVE  BasesInv' /\ EditsSurvive'
  BY <1>4, FilesKept
<1>5. ASSUME NEW r \in Ops, Request(r) \/ TimesOut(r) \/ HandlerBegins(r) \/ HandlerAsks(r) \/ User(r)
      PROVE  BasesInv' /\ EditsSurvive'
  BY <1>4, <1>5 DEF Request, TimesOut, HandlerBegins, HandlerAsks, User, UserAccepts, UserDeclines, UserRevises
<1>6. ASSUME CycleApprovalMode \/ ConnectionLost \/ Reconnected
      PROVE  BasesInv' /\ EditsSurvive'
  BY <1>4, <1>6 DEF CycleApprovalMode, ConnectionLost, Reconnected
<1>. QED
  BY <1>1, <1>2, <1>3, <1>5, <1>6 DEF OpNext, Handler

Subjects == {Subject(r) : r \in Ops}

(* What can be allowed for the session does not change.                    *)
LEMMA SubjectsStay == UNCHANGED kind => Subjects' = Subjects
<1>. SUFFICES ASSUME UNCHANGED kind PROVE Subjects' = Subjects
  OBVIOUS
<1>1. \A r \in Ops : Subject(r)' = Subject(r)
  BY DEF Subject, Asks
<1>. QED
  BY <1>1 DEF Subjects

(* Every step keeps the kinds and the types of the operations.             *)
LEMMA OperationTypes == kind \in [Ops -> Kinds] /\ OpTypeOK /\ OpNext => kind' \in [Ops -> Kinds] /\ OpTypeOK'
<1>. SUFFICES ASSUME kind \in [Ops -> Kinds], OpTypeOK, OpNext
              PROVE  kind' = kind /\ OpTypeOK'
  OBVIOUS
<1>1. kind' = kind
  BY DEF OpNext, Handler, User, EditReads, Request, TimesOut, HandlerBegins, HandlerAsks, Apply,
         RunEnds, UserAccepts, UserDeclines, UserRevises, CycleApprovalMode, ConnectionLost,
         Reconnected
<1>2. rules \subseteq Subjects /\ (rules' \subseteq Subjects => rules' \subseteq Subjects')
  BY <1>1, SubjectsStay DEF OpTypeOK, Subjects
<1>3. ASSUME NEW r \in Ops, NEW p \in Phases, Moved(r, p)
      PROVE  phase' \in [Ops -> Phases]
  BY <1>3 DEF Moved, OpTypeOK
<1>4. ASSUME NEW r \in Ops, NEW o \in Outcomes, Answered(r, o)
      PROVE  phase' \in [Ops -> Phases] /\ outcome' \in [Ops -> Outcomes]
  BY <1>3, <1>4 DEF Answered, OpTypeOK, Phases
<1>5. ASSUME NEW r \in Ops, RequestApproval(r)
      PROVE  /\ phase' \in [Ops -> Phases] /\ outcome' \in [Ops -> Outcomes]
             /\ active' \in Ops \cup {Nobody} /\ queue' \in Seq(Ops)
  <2>1. active \in Ops \cup {Nobody} /\ queue \in Seq(Ops) /\ Append(queue, r) \in Seq(Ops)
        /\ outcome \in [Ops -> Outcomes]
    BY DEF OpTypeOK
  <2>2. CASE Go(r) /\ UNCHANGED <<outcome, active, queue>>
    BY <1>3, <2>1, <2>2 DEF Go, Phases
  <2>3. CASE Answered(r, "declined") /\ UNCHANGED <<active, queue>>
    BY <1>4, <2>1, <2>3 DEF Outcomes
  <2>4. CASE /\ Moved(r, "asking") /\ UNCHANGED outcome
             /\ active' \in {active, r} /\ queue' \in {queue, Append(queue, r)}
    BY <1>3, <2>1, <2>4 DEF Phases
  <2>. QED
    BY <1>5, <2>2, <2>3, <2>4 DEF RequestApproval
<1>6. NextApproval => active' \in Ops \cup {Nobody} /\ queue' \in Seq(Ops)
  <2>1. queue # <<>> => Head(queue) \in Ops /\ Tail(queue) \in Seq(Ops)
    BY HeadTailProperties DEF OpTypeOK
  <2>. QED
    BY <2>1 DEF NextApproval
<1>7. ASSUME NEW r \in Ops, EditReads(r) PROVE OpTypeOK'
  <2>1. phase' \in [Ops -> Phases] /\ outcome' \in [Ops -> Outcomes]
    BY <1>3, <1>7 DEF EditReads, OpTypeOK, Phases, Outcomes
  <2>2. File[r] \in Files
    BY OperationsAssumption
  <2>3. base' \in [Ops -> SUBSET Ops] /\ known' \in [Ops -> SUBSET Ops]
    BY <1>7, <2>2 DEF EditReads, BaseOf, OpTypeOK
  <2>. QED
    BY <1>2, <1>7, <2>1, <2>3 DEF EditReads, OpTypeOK, approvals, Subjects
<1>8. ASSUME NEW r \in Ops, Request(r) PROVE OpTypeOK'
  <2>1. phase' \in [Ops -> Phases] /\ outcome' \in [Ops -> Outcomes]
    BY <1>3, <1>8 DEF Request, OpTypeOK, Phases, Outcomes
  <2>2. cameIn' \in [Ops -> 0..era]
    <3>1. era \in 0..era
      BY OperationsAssumption DEF OpTypeOK
    <3>2. cameIn' = cameIn \/ cameIn' = [cameIn EXCEPT ![r] = era]
      BY <1>8 DEF Request
    <3>. QED
      BY <3>1, <3>2 DEF OpTypeOK
  <2>. QED
    BY <1>2, <1>8, <2>1, <2>2 DEF Request, OpTypeOK, approvals, Subjects
<1>9. ASSUME NEW r \in Ops, TimesOut(r) PROVE OpTypeOK'
  <2>1. outcome' \in [Ops -> Outcomes]
    BY <1>9 DEF TimesOut, OpTypeOK, Outcomes
  <2>. QED
    BY <1>2, <1>9, <2>1 DEF TimesOut, OpTypeOK, approvals, Subjects
<1>10. ASSUME NEW r \in Ops, HandlerBegins(r) PROVE OpTypeOK'
  <2>1. phase' \in [Ops -> Phases] /\ outcome' \in [Ops -> Outcomes]
    <3>1. CASE \E o \in {"accepted", "error"} : Answered(r, o)
      BY <1>4, <3>1 DEF Outcomes
    <3>2. CASE Moved(r, "showing") /\ UNCHANGED outcome
      BY <1>3, <3>2 DEF Phases, OpTypeOK
    <3>. QED
      BY <1>10, <3>1, <3>2 DEF HandlerBegins
  <2>. QED
    BY <1>2, <1>10, <2>1 DEF HandlerBegins, OpTypeOK, approvals, Subjects
<1>11. ASSUME NEW r \in Ops, HandlerAsks(r) PROVE OpTypeOK'
  <2>1. /\ phase' \in [Ops -> Phases] /\ outcome' \in [Ops -> Outcomes]
        /\ active' \in Ops \cup {Nobody} /\ queue' \in Seq(Ops)
    <3>1. CASE (\E o \in {"accepted", "error"} : Answered(r, o)) /\ UNCHANGED <<active, queue>>
      BY <1>4, <3>1 DEF Outcomes, OpTypeOK
    <3>2. CASE Moved(r, "running") /\ UNCHANGED <<outcome, active, queue>>
      BY <1>3, <3>2 DEF Phases, OpTypeOK
    <3>3. CASE RequestApproval(r)
      BY <1>5, <3>3
    <3>. QED
      BY <1>11, <3>1, <3>2, <3>3 DEF HandlerAsks
  <2>. QED
    BY <1>2, <1>11, <2>1 DEF HandlerAsks, OpTypeOK, Subjects
<1>12. ASSUME NEW r \in Ops, UserAccepts(r) PROVE OpTypeOK'
  <2>1. phase' \in [Ops -> Phases]
    BY <1>3, <1>12 DEF UserAccepts, Go, Phases
  <2>2. rules' \subseteq Subjects'
    BY <1>2, <1>12 DEF UserAccepts, Subjects
  <2>. QED
    BY <1>6, <1>12, <2>1, <2>2 DEF UserAccepts, OpTypeOK, Subjects
<1>13. ASSUME NEW r \in Ops, UserDeclines(r) PROVE OpTypeOK'
  <2>1. /\ phase' \in [Ops -> Phases] /\ outcome' \in [Ops -> Outcomes]
        /\ prompted' \in Ops \cup {Nobody}
    <3>1. CASE (\E o \in {"declined", "error"} : Answered(r, o)) /\ UNCHANGED prompted
      BY <1>4, <3>1 DEF Outcomes, OpTypeOK
    <3>2. CASE prompted' = r /\ Moved(r, "feedback") /\ UNCHANGED outcome
      BY <1>3, <3>2 DEF Phases, OpTypeOK
    <3>. QED
      BY <1>13, <3>1, <3>2 DEF UserDeclines
  <2>. QED
    BY <1>2, <1>6, <1>13, <2>1 DEF UserDeclines, OpTypeOK, Subjects
<1>14. ASSUME NEW r \in Ops, UserRevises(r) PROVE OpTypeOK'
  <2>1. phase' \in [Ops -> Phases] /\ outcome' \in [Ops -> Outcomes]
    BY <1>4, <1>14 DEF UserRevises, Outcomes
  <2>. QED
    BY <1>2, <1>14, <2>1 DEF UserRevises, OpTypeOK, Subjects
<1>15. ASSUME NEW r \in Ops, Apply(r) PROVE OpTypeOK'
  <2>1. phase' \in [Ops -> Phases] /\ outcome' \in [Ops -> Outcomes]
    BY <1>4, <1>15 DEF Apply, Outcomes
  <2>2. Content(r) \subseteq Ops /\ File[r] \in Files
    BY OperationsAssumption DEF Content, OpTypeOK
  <2>3. disk' \in [Files -> SUBSET Ops] /\ applied' \subseteq Ops
    <3>1. disk \in [Files -> SUBSET Ops] /\ applied \subseteq Ops
      BY DEF OpTypeOK
    <3>2. \/ disk' = [disk EXCEPT ![File[r]] = Content(r)] /\ applied' = applied \cup {r}
          \/ disk' = disk /\ applied' = applied
      BY <1>15 DEF Apply
    <3>. QED
      BY <2>2, <3>1, <3>2
  <2>. QED
    BY <1>2, <1>15, <2>1, <2>3 DEF Apply, OpTypeOK, approvals, Subjects
<1>16. ASSUME NEW r \in Ops, RunEnds(r) PROVE OpTypeOK'
  <2>1. /\ phase' \in [Ops -> Phases] /\ outcome' \in [Ops -> Outcomes]
        /\ active' \in Ops \cup {Nobody} /\ queue' \in Seq(Ops)
    <3>1. CASE Answered(r, "accepted") /\ UNCHANGED <<active, queue>>
      BY <1>4, <3>1 DEF Outcomes, OpTypeOK
    <3>2. CASE RequestApproval(r)
      BY <1>5, <3>2
    <3>. QED
      BY <1>16, <3>1, <3>2 DEF RunEnds
  <2>2. retried' \cup applied' \subseteq Ops
    BY <1>16 DEF RunEnds, OpTypeOK
  <2>. QED
    BY <1>2, <1>16, <2>1, <2>2 DEF RunEnds, OpTypeOK, Subjects
<1>17. CASE ConnectionLost
  <2>1. phase' \in [Ops -> Phases] /\ outcome' \in [Ops -> Outcomes]
    BY <1>17 DEF ConnectionLost, OpTypeOK, Phases, Outcomes
  <2>2. active' \in Ops \cup {Nobody} /\ prompted' \in Ops \cup {Nobody} /\ queue' \in Seq(Ops)
    BY <1>17, EmptySeq DEF ConnectionLost
  <2>3. {online', uiActive'} \subseteq BOOLEAN
    BY <1>17 DEF ConnectionLost, OpTypeOK
  <2>4. rules' \subseteq Subjects'
    BY <1>2, <1>17 DEF ConnectionLost
  <2>. QED
    BY <1>17, <2>1, <2>2, <2>3, <2>4 DEF ConnectionLost, OpTypeOK, Subjects
<1>18. CASE Reconnected
  <2>1. era' \in 1..MaxSessions /\ cameIn' \in [Ops -> 0..era']
    <3>1. MaxSessions \in Nat /\ era \in 1..MaxSessions /\ era < MaxSessions /\ era' = era + 1
          /\ cameIn' = cameIn /\ cameIn \in [Ops -> 0..era]
      BY <1>18, OperationsAssumption DEF Reconnected, OpTypeOK
    <3>2. 0..era \subseteq 0..era' /\ era' \in 1..MaxSessions
      BY <3>1
    <3>. QED
      BY <3>1, <3>2
  <2>. QED
    BY <1>2, <1>18, <2>1 DEF Reconnected, OpTypeOK, approvals, Subjects
<1>19. CASE CycleApprovalMode
  BY <1>2, <1>19 DEF CycleApprovalMode, OpTypeOK, Subjects
<1>. QED
  BY <1>1, <1>7, <1>8, <1>9, <1>10, <1>11, <1>12, <1>13, <1>14, <1>15, <1>16, <1>17, <1>18, <1>19
  DEF OpNext, Handler, User

(* The operations' invariant holds at the start,                           *)
LEMMA OpsInit == OpInit => OpsInv
<1>. SUFFICES ASSUME OpInit PROVE OpsInv
  OBVIOUS
<1>1. kind \in [Ops -> Kinds]
  BY OperationsAssumption DEF OpInit
<1>2. OpTypeOK
  BY OperationsAssumption DEF OpInit, OpTypeOK, Phases, Outcomes
<1>3. NoApprovalLost
  <2>1. ToSet(<<>>) = {} /\ IsInjective(<<>>)
    BY DEF ToSet, IsInjective
  <2>2. /\ \A r \in Ops : phase[r] \notin {"asking", "feedback"}
        /\ active = Nobody /\ queue = <<>> /\ prompted = Nobody
    BY DEF OpInit
  <2>. QED
    BY <2>1, <2>2 DEF NoApprovalLost
<1>4. StageInv /\ BasesInv /\ EditsSurvive
  BY DEF OpInit, StageInv, StageOK, Working, BasesInv, EditsSurvive
<1>. QED
  BY <1>1, <1>2, <1>3, <1>4 DEF OpsInv

(* and every step keeps it.                                                *)
LEMMA OpsNext == OpsInv /\ [OpNext]_opVars => OpsInv'
<1>1. OpsInv /\ OpNext => OpsInv'
  BY OperationTypes, ApprovalsStep, StageStep, EditsStep DEF OpsInv
<1>2. OpsInv /\ UNCHANGED opVars => OpsInv'
  <2>. SUFFICES ASSUME OpsInv, UNCHANGED opVars PROVE OpsInv'
    OBVIOUS
  <2>1. kind' \in [Ops -> Kinds] /\ OpTypeOK'
    <3>1. rules' \subseteq Subjects'
      BY SubjectsStay DEF OpsInv, OpTypeOK, opVars, approvals, Subjects
    <3>. QED
      BY <3>1 DEF OpsInv, OpTypeOK, opVars, approvals, Subjects
  <2>2. NoApprovalLost'
    BY DEF OpsInv, opVars, approvals, NoApprovalLost
  <2>3. StageInv'
    BY DEF OpsInv, opVars, StageInv, StageOK, Working
  <2>4. BasesInv' /\ EditsSurvive'
    BY FilesKept DEF OpsInv, opVars
  <2>. QED
    BY <2>1, <2>2, <2>3, <2>4 DEF OpsInv
<1>. QED
  BY <1>1, <1>2

(* It implies what the run checks.                                         *)
LEMMA OpsHold == OpsInv => OperationsInv
<1>1. OpsInv => WorkersAreTold
  BY DEF OpsInv, OpTypeOK, StageInv, StageOK, WorkersAreTold
<1>. QED
  BY <1>1 DEF OpsInv, OperationsInv

-----------------------------------------------------------------------------
(* The operations of a task, in every state.                               *)
THEOREM OperationsAreSafe == OpSpec => []OperationsInv
<1>1. OpSpec => []OpsInv
  BY OpsInit, OpsNext, PTL DEF OpSpec
<1>. QED
  BY <1>1, OpsHold, PTL

(* The commands a task runs, in every state.                               *)
THEOREM CommandsAreSafe == CommandInit /\ [][CommandNext]_commandVars => []CommandInv
<1>1. CommandInit /\ [][CommandNext]_commandVars => []CommandsInv
  BY CommandsInit, CommandsNext, PTL
<1>. QED
  BY <1>1, CommandsHold, PTL

(* Only the loss of the connection takes the client offline, and it ends   *)
(* every question.                                                         *)
LEMMA QuestionsStep ==
  [OpNext]_opVars =>
    [online /\ ~online' => \A r \in Ops : phase'[r] \notin {"asking", "feedback"}]_opVars
<1>. SUFFICES ASSUME OpNext, online, ~online'
              PROVE  \A r \in Ops : phase'[r] \notin {"asking", "feedback"}
  OBVIOUS
<1>1. ConnectionLost
  BY DEF OpNext, Handler, User, EditReads, Request, TimesOut, HandlerBegins, HandlerAsks, Apply,
         RunEnds, UserAccepts, UserDeclines, UserRevises, CycleApprovalMode, Reconnected
<1>. QED
  BY <1>1 DEF ConnectionLost, Dismissed

(* Nothing the user is asked outlives the connection it was asked on.      *)
THEOREM QuestionsEndWithTheConnection == OpSpec => DismissedWithSession
BY QuestionsStep, PTL DEF OpSpec, DismissedWithSession

(* What tasks do on the user's machine: the operations and the commands,   *)
(* one of which acts while the other keeps its state.                      *)
THEOREM MachineIsSafe == MCSpec => []MachineInv
<1>1. MCInit => OpInit /\ CommandInit
  BY DEF MCInit
<1>2. MCNext => [OpNext]_opVars /\ [CommandNext]_commandVars
  BY DEF MCNext, OthersKeep
<1>3. MCSpec => [](OpsInv /\ CommandsInv)
  <2>1. MCInit => OpsInv /\ CommandsInv
    BY <1>1, OpsInit, CommandsInit
  <2>2. /\ OpsInv /\ CommandsInv
        /\ [MCNext]_<<part, connVars, opVars, uiVars, thinkVars, mcpVars, mcpConnVars, settingsVars,
                      identityVars, commandVars>>
        => OpsInv' /\ CommandsInv'
    BY <1>2, OpsNext, CommandsNext
  <2>. QED
    BY <2>1, <2>2, PTL DEF MCSpec
<1>. QED
  BY <1>3, OpsHold, CommandsHold, PTL DEF MachineInv

-----------------------------------------------------------------------------
(* The session.  One line was typed before another.                        *)
Before(t, x, y) == \E a, b \in 1..Len(t) : a < b /\ t[a] = x /\ t[b] = y
InOrder(t, s) == \A i, j \in 1..Len(s) : i < j => Before(t, s[i], s[j])

(* What runs holds the lock, and the queue waits for it.                   *)
TurnInv ==
  /\ jobs = {} \/ \E j \in jobs : jobs = {j}
  /\ lock <=> jobs # {}
  /\ busy => jobs # {}
  /\ queued # <<>> => jobs # {}

(* What was run was typed before what waits, and so was what the queue     *)
(* dropped; nothing that Escape took runs or waits.                        *)
LinesInv ==
  /\ IsInjective(typed) /\ InOrder(typed, ran) /\ InOrder(typed, queued)
  /\ \A x \in ToSet(ran) \cup dropped : \A y \in ToSet(queued) : Before(typed, x, y)
  /\ ToSet(typed) = ToSet(ran) \cup ToSet(queued) \cup cleared \cup dropped
  /\ cleared \cap (ToSet(ran) \cup ToSet(queued)) = {}

UiInv == UiTypeOK /\ TurnInv /\ LinesInv

(* No line was typed before itself.                                        *)
LEMMA NotBeforeItself ==
  ASSUME NEW S, NEW t \in Seq(S), IsInjective(t), NEW x, NEW y, Before(t, x, y)
  PROVE  /\ x # y
         /\ \A i, j \in 1..Len(t) : t[i] = x /\ t[j] = y => i < j
<1>1. DOMAIN t = 1..Len(t)
  OBVIOUS
<1>2. PICK a \in 1..Len(t), b \in 1..Len(t) : a < b /\ t[a] = x /\ t[b] = y
  BY DEF Before
<1>3. x # y
  <2>. SUFFICES ASSUME x = y PROVE FALSE
    OBVIOUS
  <2>1. a = b
    BY <1>1, <1>2 DEF IsInjective
  <2>. QED
    BY <1>2, <2>1
<1>4. ASSUME NEW i \in 1..Len(t), NEW j \in 1..Len(t), t[i] = x, t[j] = y PROVE i < j
  <2>1. i = a /\ j = b
    BY <1>1, <1>2, <1>4 DEF IsInjective
  <2>. QED
    BY <1>2, <2>1
<1>. QED
  BY <1>3, <1>4

(* What is typed next comes after everything typed so far.                 *)
LEMMA TypedLast ==
  ASSUME NEW S, NEW t \in Seq(S), NEW x \in S
  PROVE  /\ \A y, z : Before(t, y, z) => Before(Append(t, x), y, z)
         /\ \A y \in ToSet(t) : Before(Append(t, x), y, x)
         /\ \A q : InOrder(t, q) => InOrder(Append(t, x), q)
<1>1. /\ Append(t, x) \in Seq(S) /\ Len(Append(t, x)) = Len(t) + 1 /\ Len(t) \in Nat
      /\ \A i \in 1..Len(t) : Append(t, x)[i] = t[i]
      /\ Append(t, x)[Len(t) + 1] = x
  BY LongerByOne
<1>2. \A i \in 1..Len(t) : i \in 1..(Len(t) + 1) /\ i < Len(t) + 1
  BY <1>1
<1>3. Len(t) + 1 \in 1..(Len(t) + 1)
  BY <1>1
<1>4. \A y, z : Before(t, y, z) => Before(Append(t, x), y, z)
  BY <1>1, <1>2 DEF Before
<1>5. \A y \in ToSet(t) : Before(Append(t, x), y, x)
  <2>. SUFFICES ASSUME NEW y \in ToSet(t) PROVE Before(Append(t, x), y, x)
    OBVIOUS
  <2>1. PICK i \in 1..Len(t) : t[i] = y
    BY DEF ToSet
  <2>. QED
    BY <1>1, <1>2, <1>3, <2>1 DEF Before
<1>6. \A q : InOrder(t, q) => InOrder(Append(t, x), q)
  BY <1>4 DEF InOrder
<1>. QED
  BY <1>4, <1>5, <1>6

(* A sequence stays in order when what comes after all of it joins it.     *)
LEMMA JoinsInOrder ==
  ASSUME NEW S, NEW t \in Seq(S), NEW q \in Seq(S), NEW x \in S, InOrder(t, q),
         \A y \in ToSet(q) : Before(t, y, x)
  PROVE  InOrder(t, Append(q, x))
<1>1. /\ Len(Append(q, x)) = Len(q) + 1 /\ Len(q) \in Nat
      /\ \A i \in 1..Len(q) : Append(q, x)[i] = q[i]
      /\ Append(q, x)[Len(q) + 1] = x
  BY LongerByOne
<1>2. \A i \in 1..Len(q) : q[i] \in ToSet(q)
  BY DEF ToSet
<1>. SUFFICES ASSUME NEW i \in 1..(Len(q) + 1), NEW j \in 1..(Len(q) + 1), i < j
              PROVE  Before(t, Append(q, x)[i], Append(q, x)[j])
  BY <1>1 DEF InOrder
<1>3. i \in 1..Len(q) /\ (j \in 1..Len(q) \/ j = Len(q) + 1)
  BY <1>1
<1>4. CASE j \in 1..Len(q)
  BY <1>1, <1>3, <1>4 DEF InOrder
<1>5. CASE j = Len(q) + 1
  BY <1>1, <1>2, <1>3, <1>5
<1>. QED
  BY <1>3, <1>4, <1>5

(* It stays in order when its head leaves, which was before the rest.      *)
LEMMA LeavesInOrder ==
  ASSUME NEW S, NEW t \in Seq(S), NEW q \in Seq(S), q # <<>>, InOrder(t, q), IsInjective(t)
  PROVE  /\ Tail(q) \in Seq(S) /\ Head(q) \in S /\ Len(Tail(q)) = Len(q) - 1
         /\ InOrder(t, Tail(q)) /\ Head(q) \notin ToSet(Tail(q))
         /\ ToSet(q) = ToSet(Tail(q)) \cup {Head(q)}
         /\ \A y \in ToSet(Tail(q)) : Before(t, Head(q), y)
<1>1. /\ Tail(q) \in Seq(S) /\ Len(Tail(q)) = Len(q) - 1 /\ Head(q) = q[1]
      /\ \A i \in 1..Len(Tail(q)) : Tail(q)[i] = q[i + 1]
      /\ Len(q) \in Nat /\ Len(q) # 0
  BY HeadTailProperties, EmptySeq
<1>2. DOMAIN q = 1..Len(q)
  OBVIOUS
<1>3. IsInjective(q)
  <2>. SUFFICES ASSUME NEW i \in 1..Len(q), NEW j \in 1..Len(q), q[i] = q[j] PROVE i = j
    BY <1>2 DEF IsInjective
  <2>1. i < j => FALSE
    BY NotBeforeItself DEF InOrder
  <2>2. j < i => FALSE
    BY NotBeforeItself DEF InOrder
  <2>. QED
    BY <1>1, <2>1, <2>2
<1>4. /\ Head(q) \in S /\ Head(q) \notin ToSet(Tail(q))
      /\ ToSet(q) = ToSet(Tail(q)) \cup {Head(q)}
  BY <1>3, HeadLeaves
<1>5. \A i \in 1..(Len(q) - 1) : i + 1 \in 1..Len(q) /\ 1 < i + 1
  BY <1>1
<1>6. InOrder(t, Tail(q))
  <2>. SUFFICES ASSUME NEW i \in 1..(Len(q) - 1), NEW j \in 1..(Len(q) - 1), i < j
                PROVE  Before(t, Tail(q)[i], Tail(q)[j])
    BY <1>1 DEF InOrder
  <2>1. i + 1 < j + 1
    BY <1>1
  <2>2. Before(t, q[i + 1], q[j + 1])
    BY <1>5, <2>1 DEF InOrder
  <2>. QED
    BY <1>1, <2>2
<1>7. \A y \in ToSet(Tail(q)) : Before(t, Head(q), y)
  <2>. SUFFICES ASSUME NEW y \in ToSet(Tail(q)) PROVE Before(t, Head(q), y)
    OBVIOUS
  <2>1. PICK i \in 1..(Len(q) - 1) : y = q[i + 1]
    BY <1>1 DEF ToSet
  <2>2. 1 \in 1..Len(q)
    BY <1>1
  <2>3. Before(t, q[1], q[i + 1])
    BY <1>5, <2>2 DEF InOrder
  <2>. QED
    BY <1>1, <2>1, <2>3
<1>. QED
  BY <1>1, <1>4, <1>6, <1>7

(* The session's invariant holds at the start.                             *)
LEMMA UiStarts == UiInit => UiInv
<1>. SUFFICES ASSUME UiInit PROVE UiInv
  OBVIOUS
<1>1. /\ typed = <<>> /\ inputHistory = <<>> /\ captured = <<>> /\ queued = <<>> /\ ran = <<>>
      /\ busy = FALSE /\ lock = FALSE /\ jobs = {} /\ activeCancel = FALSE
      /\ cleared = {} /\ dropped = {}
  BY DEF UiInit
<1>2. <<>> \in Seq(Lines) /\ Len(<<>>) = 0 /\ ToSet(<<>>) = {} /\ IsInjective(<<>>)
  BY EmptySeq DEF ToSet, IsInjective
<1>3. UiTypeOK
  <2>1. Len(queued) <= QueueCap
    BY <1>1, <1>2, SessionAssumption
  <2>. QED
    BY <1>1, <1>2, <2>1 DEF UiTypeOK
<1>4. TurnInv
  BY <1>1 DEF TurnInv
<1>5. LinesInv
  BY <1>1, <1>2 DEF LinesInv, InOrder
<1>. QED
  BY <1>3, <1>4, <1>5 DEF UiInv

(* A line that is typed joins the lines that were, last.                   *)
LEMMA TypesALine ==
  ASSUME UiInv, NEW x \in NotTyped, typed' = Append(typed, x)
  PROVE  /\ x \in Lines /\ typed \in Seq(Lines) /\ typed' \in Seq(Lines)
         /\ IsInjective(typed') /\ ToSet(typed') = ToSet(typed) \cup {x}
         /\ x \notin ToSet(ran) /\ x \notin ToSet(queued) /\ x \notin cleared /\ x \notin dropped
         /\ InOrder(typed', ran) /\ InOrder(typed', queued)
         /\ \A y, z : Before(typed, y, z) => Before(typed', y, z)
         /\ \A y \in ToSet(ran) \cup ToSet(queued) \cup dropped : Before(typed', y, x)
<1>1. x \in Lines /\ x \notin ToSet(typed) /\ typed \in Seq(Lines)
  BY DEF NotTyped, UiInv, UiTypeOK
<1>2. /\ IsInjective(typed) /\ InOrder(typed, ran) /\ InOrder(typed, queued)
      /\ ToSet(typed) = ToSet(ran) \cup ToSet(queued) \cup cleared \cup dropped
  BY DEF UiInv, LinesInv
<1>3. typed' \in Seq(Lines) /\ IsInjective(typed') /\ ToSet(typed') = ToSet(typed) \cup {x}
  BY <1>1, <1>2, QueuesUp
<1>4. /\ InOrder(typed', ran) /\ InOrder(typed', queued)
      /\ \A y, z : Before(typed, y, z) => Before(typed', y, z)
      /\ \A y \in ToSet(typed) : Before(typed', y, x)
  BY <1>1, <1>2, TypedLast
<1>. QED
  BY <1>1, <1>2, <1>3, <1>4

(* What Start leaves: one job, and the line at the end of what ran.        *)
LEMMA StartsALine ==
  ASSUME UiInv, NEW x \in Lines, NEW h \in Seq(Lines), NEW others, others = {}, Start(x, h, others)
  PROVE  /\ inputHistory' \in Seq(Lines) /\ ran' \in Seq(Lines) /\ ToSet(ran') = ToSet(ran) \cup {x}
         /\ busy' = TRUE /\ lock' = TRUE
         /\ jobs' \subseteq [line : Lines, stage : Stages]
         /\ jobs' # {} /\ \E j \in jobs' : jobs' = {j}
<1>. DEFINE begun == [line |-> x, stage |-> IF x \in Tasks THEN "connecting" ELSE "command"]
<1>1. jobs' = {begun} /\ begun \in [line : Lines, stage : Stages]
  BY DEF Start, Stages
<1>2. ran \in Seq(Lines) /\ ran' = Append(ran, x)
  BY DEF Start, UiInv, UiTypeOK
<1>3. ran' \in Seq(Lines) /\ ToSet(ran') = ToSet(ran) \cup {x}
  <2>1. /\ ran' \in Seq(Lines) /\ Len(ran') = Len(ran) + 1 /\ Len(ran) \in Nat
        /\ \A i \in 1..Len(ran) : ran'[i] = ran[i]
        /\ ran'[Len(ran) + 1] = x
    BY <1>2, LongerByOne
  <2>2. DOMAIN ran = 1..Len(ran) /\ DOMAIN ran' = 1..(Len(ran) + 1)
    BY <1>2, <2>1
  <2>3. /\ \A i \in 1..Len(ran) : i \in 1..(Len(ran) + 1)
        /\ \A i \in 1..(Len(ran) + 1) : i \in 1..Len(ran) \/ i = Len(ran) + 1
        /\ Len(ran) + 1 \in 1..(Len(ran) + 1)
    BY <2>1
  <2>. QED
    BY <2>1, <2>2, <2>3 DEF ToSet
<1>4. inputHistory' \in Seq(Lines) /\ busy' = TRUE /\ lock' = TRUE
  BY DEF Start
<1>. QED
  BY <1>1, <1>3, <1>4

(* A line that is submitted, and runs at once, keeps it;                   *)
LEMMA SubmitStep == \A line \in Lines : UiInv /\ Submit(line) => UiInv'
<1>. SUFFICES ASSUME NEW x \in Lines, UiInv, Submit(x) PROVE UiInv'
  OBVIOUS
<1>1. /\ x \in NotTyped /\ jobs = {} /\ queued = <<>> /\ typed' = Append(typed, x)
      /\ captured' = inputHistory /\ Start(x, inputHistory, jobs)
      /\ UNCHANGED <<queued, activeCancel, cleared, dropped>>
  BY DEF Submit, MaySubmit, UiInv, TurnInv
<1>2. /\ inputHistory \in Seq(Lines) /\ ran \in Seq(Lines) /\ queued \in Seq(Lines)
      /\ Len(queued) <= QueueCap /\ activeCancel \in BOOLEAN /\ cleared \cup dropped \subseteq Lines
      /\ ToSet(queued) = {}
  BY <1>1, EmptySeq DEF UiInv, UiTypeOK, ToSet
<1>3. /\ inputHistory' \in Seq(Lines) /\ ran' \in Seq(Lines) /\ ToSet(ran') = ToSet(ran) \cup {x}
      /\ busy' = TRUE /\ lock' = TRUE
      /\ jobs' \subseteq [line : Lines, stage : Stages]
      /\ jobs' # {} /\ \E j \in jobs' : jobs' = {j}
  BY <1>1, <1>2, StartsALine
<1>4. /\ typed' \in Seq(Lines)
      /\ IsInjective(typed') /\ ToSet(typed') = ToSet(typed) \cup {x}
      /\ x \notin cleared
      /\ InOrder(typed', ran) /\ InOrder(typed', queued)
      /\ \A y \in ToSet(ran) : Before(typed', y, x)
  BY <1>1, TypesALine
<1>5. UiTypeOK'
  BY <1>1, <1>2, <1>3, <1>4 DEF UiTypeOK
<1>6. TurnInv'
  BY <1>3 DEF TurnInv
<1>7. InOrder(typed', ran')
  BY <1>1, <1>2, <1>4, JoinsInOrder DEF Start
<1>8. LinesInv'
  <2>1. /\ ToSet(typed) = ToSet(ran) \cup ToSet(queued) \cup cleared \cup dropped
        /\ cleared \cap (ToSet(ran) \cup ToSet(queued)) = {}
    BY DEF UiInv, LinesInv
  <2>2. queued' = queued /\ cleared' = cleared /\ dropped' = dropped
    BY <1>1
  <2>3. ToSet(typed') = ToSet(ran') \cup ToSet(queued) \cup cleared \cup dropped
    BY <1>3, <1>4, <2>1
  <2>4. cleared \cap (ToSet(ran') \cup ToSet(queued)) = {}
    BY <1>3, <1>4, <2>1
  <2>. QED
    BY <1>2, <1>4, <1>7, <2>2, <2>3, <2>4 DEF LinesInv
<1>. QED
  BY <1>5, <1>6, <1>8 DEF UiInv

(* so does one that has to wait,                                           *)
LEMMA EnqueueStep == \A line \in Lines : UiInv /\ Enqueue(line) => UiInv'
<1>. SUFFICES ASSUME NEW x \in Lines, UiInv, Enqueue(x) PROVE UiInv'
  OBVIOUS
<1>. DEFINE q == Append(queued, x)
<1>1. /\ x \in NotTyped /\ jobs # {} /\ typed' = Append(typed, x)
      /\ queued' = Capped(q) /\ dropped' = dropped \cup (ToSet(q) \ ToSet(queued'))
      /\ UNCHANGED <<inputHistory, captured, busy, lock, jobs, activeCancel, ran, cleared>>
  BY DEF Enqueue, UiInv, TurnInv
<1>2. /\ {inputHistory, captured, ran} \subseteq Seq(Lines) /\ queued \in Seq(Lines)
      /\ Len(queued) <= QueueCap /\ {busy, lock, activeCancel} \subseteq BOOLEAN
      /\ cleared \cup dropped \subseteq Lines
      /\ jobs \subseteq [line : Lines, stage : Stages]
  BY DEF UiInv, UiTypeOK
<1>3. /\ typed' \in Seq(Lines)
      /\ IsInjective(typed') /\ ToSet(typed') = ToSet(typed) \cup {x}
      /\ x \notin ToSet(ran) /\ x \notin ToSet(queued) /\ x \notin cleared /\ x \notin dropped
      /\ InOrder(typed', ran) /\ InOrder(typed', queued)
      /\ \A y, z : Before(typed, y, z) => Before(typed', y, z)
      /\ \A y \in ToSet(ran) \cup ToSet(queued) \cup dropped : Before(typed', y, x)
  BY <1>1, TypesALine
<1>4. /\ q \in Seq(Lines) /\ Len(q) = Len(queued) + 1 /\ Len(queued) \in Nat
  BY <1>2, LongerByOne
<1>5. ToSet(q) = ToSet(queued) \cup {x}
  <2>1. IsInjective(queued)
    <3>. SUFFICES ASSUME NEW i \in 1..Len(queued), NEW j \in 1..Len(queued), queued[i] = queued[j]
                  PROVE  i = j
      BY <1>2 DEF IsInjective
    <3>1. (i < j => FALSE) /\ (j < i => FALSE)
      BY <1>3, NotBeforeItself DEF InOrder
    <3>. QED
      BY <1>4, <3>1
  <2>. QED
    BY <1>2, <1>3, <2>1, QueuesUp
<1>6. InOrder(typed', q)
  BY <1>2, <1>3, JoinsInOrder
<1>. HIDE DEF q
<1>7. /\ queued' \in Seq(Lines) /\ Len(queued') <= QueueCap /\ InOrder(typed', queued')
      /\ ToSet(queued') \subseteq ToSet(q)
      /\ \A d \in ToSet(q) \ ToSet(queued') : \A y \in ToSet(queued') : Before(typed', d, y)
  <2>1. CASE Len(q) <= QueueCap
    BY <1>1, <1>4, <1>6, <2>1 DEF Capped
  <2>2. CASE ~(Len(q) <= QueueCap)
    <3>1. queued' = Tail(q) /\ q # <<>>
      BY <1>1, <1>4, <2>2, EmptySeq DEF Capped
    <3>2. /\ Tail(q) \in Seq(Lines) /\ Len(Tail(q)) = Len(q) - 1
          /\ InOrder(typed', Tail(q))
          /\ ToSet(q) = ToSet(Tail(q)) \cup {Head(q)}
          /\ \A y \in ToSet(Tail(q)) : Before(typed', Head(q), y)
      BY <1>3, <1>4, <1>6, <3>1, LeavesInOrder
    <3>3. Len(Tail(q)) <= QueueCap
      <4>1. Len(queued) \in Nat /\ Len(queued) <= QueueCap /\ Len(Tail(q)) = Len(queued)
        BY <1>2, <1>4, <3>2
      <4>. QED
        BY <4>1
    <3>. QED
      BY <3>1, <3>2, <3>3
  <2>. QED
    BY <2>1, <2>2
<1>8. ToSet(q) \subseteq Lines
  BY <1>4 DEF ToSet
<1>9. UiTypeOK'
  <2>1. cleared' \cup dropped' \subseteq Lines
    BY <1>1, <1>2, <1>8
  <2>. QED
    BY <1>1, <1>2, <1>3, <1>7, <2>1 DEF UiTypeOK
<1>10. TurnInv'
  BY <1>1 DEF UiInv, TurnInv
<1>11. LinesInv'
  <2>1. /\ ToSet(typed) = ToSet(ran) \cup ToSet(queued) \cup cleared \cup dropped
        /\ cleared \cap (ToSet(ran) \cup ToSet(queued)) = {}
        /\ \A d \in ToSet(ran) \cup dropped : \A y \in ToSet(queued) : Before(typed, d, y)
    BY DEF UiInv, LinesInv
  <2>2. ran' = ran /\ cleared' = cleared /\ dropped' = dropped \cup (ToSet(q) \ ToSet(queued'))
    BY <1>1
  <2>3. \A d \in ToSet(ran) \cup dropped : \A y \in ToSet(q) : Before(typed', d, y)
    BY <1>3, <1>5, <2>1
  <2>4. \A d \in ToSet(ran') \cup dropped' : \A y \in ToSet(queued') : Before(typed', d, y)
    BY <1>7, <2>2, <2>3
  <2>5. ToSet(typed') = ToSet(ran) \cup ToSet(queued') \cup cleared \cup dropped'
    BY <1>3, <1>5, <1>7, <2>1, <2>2
  <2>6. cleared \cap (ToSet(ran) \cup ToSet(queued')) = {}
    BY <1>3, <1>5, <1>7, <2>1
  <2>. QED
    BY <1>3, <1>7, <2>2, <2>4, <2>5, <2>6 DEF LinesInv
<1>. QED
  BY <1>9, <1>10, <1>11 DEF UiInv

(* and the end of a job, which starts the line that waited longest.        *)
LEMMA FinishStep == \A j \in jobs : UiInv /\ Finish(j) => UiInv'
<1>. SUFFICES ASSUME NEW j \in jobs, UiInv, Finish(j) PROVE UiInv'
  OBVIOUS
<1>1. /\ {typed, inputHistory, captured, ran, queued} \subseteq Seq(Lines)
      /\ Len(queued) <= QueueCap /\ cleared \cup dropped \subseteq Lines
  BY DEF UiInv, UiTypeOK
<1>2. /\ jobs \ {j} = {}
      /\ UNCHANGED <<captured, typed, cleared, dropped>> /\ activeCancel' = FALSE /\ RunNext(j)
  BY DEF Finish, UiInv, TurnInv, ghosts
<1>3. CASE queued = <<>>
  <2>1. busy' = FALSE /\ lock' = FALSE /\ jobs' = {} /\ UNCHANGED <<queued, inputHistory, ran>>
    BY <1>2, <1>3 DEF RunNext
  <2>2. UiTypeOK'
    BY <1>1, <1>2, <2>1 DEF UiTypeOK
  <2>3. TurnInv'
    BY <1>3, <2>1 DEF TurnInv
  <2>4. LinesInv'
    BY <1>2, <2>1 DEF UiInv, LinesInv
  <2>. QED
    BY <2>2, <2>3, <2>4 DEF UiInv
<1>4. CASE queued # <<>>
  <2>. DEFINE x == Head(queued)
              rest == Tail(queued)
  <2>1. queued' = rest /\ Start(x, captured, jobs \ {j})
    BY <1>2, <1>4 DEF RunNext
  <2>2. /\ IsInjective(typed) /\ InOrder(typed, ran) /\ InOrder(typed, queued)
        /\ \A d \in ToSet(ran) \cup dropped : \A y \in ToSet(queued) : Before(typed, d, y)
        /\ ToSet(typed) = ToSet(ran) \cup ToSet(queued) \cup cleared \cup dropped
        /\ cleared \cap (ToSet(ran) \cup ToSet(queued)) = {}
    BY DEF UiInv, LinesInv
  <2>3. /\ rest \in Seq(Lines) /\ x \in Lines /\ Len(rest) = Len(queued) - 1
        /\ InOrder(typed, rest)
        /\ ToSet(queued) = ToSet(rest) \cup {x}
        /\ \A y \in ToSet(rest) : Before(typed, x, y)
    BY <1>1, <1>4, <2>2, LeavesInOrder
  <2>. HIDE DEF x, rest
  <2>4. /\ inputHistory' \in Seq(Lines) /\ ran' \in Seq(Lines) /\ ToSet(ran') = ToSet(ran) \cup {x}
        /\ busy' = TRUE /\ lock' = TRUE
        /\ jobs' \subseteq [line : Lines, stage : Stages]
        /\ jobs' # {} /\ \E i \in jobs' : jobs' = {i}
    BY <1>1, <1>2, <2>1, <2>3, StartsALine
  <2>5. Len(rest) <= QueueCap
    <3>1. Len(queued) \in Nat /\ Len(rest) = Len(queued) - 1 /\ Len(queued) <= QueueCap /\ QueueCap \in Nat
      BY <1>1, <2>3, SessionAssumption
    <3>. QED
      BY <3>1
  <2>6. UiTypeOK'
    BY <1>1, <1>2, <2>1, <2>3, <2>4, <2>5 DEF UiTypeOK
  <2>7. TurnInv'
    BY <2>4 DEF TurnInv
  <2>8. InOrder(typed, ran')
    BY <1>1, <2>1, <2>2, <2>3, JoinsInOrder DEF Start
  <2>9. LinesInv'
    <3>1. typed' = typed /\ queued' = rest /\ cleared' = cleared /\ dropped' = dropped
      BY <1>2, <2>1
    <3>2. \A d \in ToSet(ran') \cup dropped : \A y \in ToSet(rest) : Before(typed, d, y)
      BY <2>2, <2>3, <2>4
    <3>3. /\ ToSet(typed) = ToSet(ran') \cup ToSet(rest) \cup cleared \cup dropped
          /\ cleared \cap (ToSet(ran') \cup ToSet(rest)) = {}
      BY <2>2, <2>3, <2>4
    <3>. QED
      BY <2>2, <2>3, <2>8, <3>1, <3>2, <3>3 DEF LinesInv
  <2>. QED
    BY <2>6, <2>7, <2>9 DEF UiInv
<1>. QED
  BY <1>3, <1>4

(* Escape leaves as many jobs as there were.                               *)
LEMMA EscapeStep == UiInv /\ Escape => UiInv'
<1>. SUFFICES ASSUME UiInv, Escape PROVE UiInv'
  OBVIOUS
<1>1. /\ queued' = <<>> /\ cleared' = cleared \cup ToSet(queued)
      /\ UNCHANGED <<typed, inputHistory, captured, busy, lock, activeCancel, ran, dropped>>
      /\ jobs # {} /\ jobs \subseteq [line : Lines, stage : Stages]
  BY DEF Escape, AfterEscape, UiInv, TurnInv, UiTypeOK
<1>2. /\ jobs' # {} /\ \E i \in jobs' : jobs' = {i}
      /\ jobs' \subseteq [line : Lines, stage : Stages]
  <2>1. PICK i \in jobs : jobs = {i}
    BY <1>1 DEF UiInv, TurnInv
  <2>2. i \in [line : Lines, stage : Stages] /\ [i EXCEPT !.stage = "cancelled"] \in [line : Lines, stage : Stages]
    BY <1>1, <2>1 DEF Stages
  <2>3. jobs' \in {{i}, {[i EXCEPT !.stage = "cancelled"]}}
    BY <2>1 DEF Escape
  <2>. QED
    BY <2>2, <2>3
<1>3. <<>> \in Seq(Lines) /\ Len(<<>>) <= QueueCap /\ ToSet(<<>>) = {}
  BY EmptySeq, SessionAssumption DEF ToSet
<1>4. ToSet(queued) \subseteq Lines
  BY DEF UiInv, UiTypeOK, ToSet
<1>5. UiTypeOK'
  <2>1. cleared' \cup dropped' \subseteq Lines
    BY <1>1, <1>4 DEF UiInv, UiTypeOK
  <2>. QED
    BY <1>1, <1>2, <1>3, <2>1 DEF UiInv, UiTypeOK
<1>6. TurnInv'
  BY <1>1, <1>2 DEF UiInv, TurnInv
<1>7. LinesInv'
  <2>1. /\ InOrder(typed, queued) /\ IsInjective(typed) /\ typed \in Seq(Lines) /\ InOrder(typed, ran)
        /\ \A d \in ToSet(ran) \cup dropped : \A y \in ToSet(queued) : Before(typed, d, y)
        /\ ToSet(typed) = ToSet(ran) \cup ToSet(queued) \cup cleared \cup dropped
        /\ cleared \cap (ToSet(ran) \cup ToSet(queued)) = {}
    BY DEF UiInv, UiTypeOK, LinesInv
  <2>2. ToSet(ran) \cap ToSet(queued) = {}
    BY <2>1, NotBeforeItself
  <2>3. InOrder(typed, <<>>)
    BY <1>3, EmptySeq DEF InOrder
  <2>4. /\ ToSet(typed) = ToSet(ran) \cup {} \cup cleared' \cup dropped
        /\ cleared' \cap (ToSet(ran) \cup {}) = {}
    BY <1>1, <2>1, <2>2
  <2>. QED
    BY <1>1, <1>3, <2>1, <2>3, <2>4 DEF LinesInv
<1>. QED
  BY <1>5, <1>6, <1>7 DEF UiInv

(* Every step of the session keeps its invariant.                          *)
LEMMA UiNextStep == UiInv /\ [UiNext]_uiVars => UiInv'
<1>. SUFFICES ASSUME UiInv, [UiNext]_uiVars PROVE UiInv'
  OBVIOUS
<1>1. ASSUME NEW j \in jobs, TaskSent(j) PROVE UiInv'
  <2>1. jobs = {j} /\ j \in [line : Lines, stage : Stages]
    BY DEF UiInv, TurnInv, UiTypeOK
  <2>2. jobs' = {[j EXCEPT !.stage = "streaming"]}
    BY <1>1, <2>1 DEF TaskSent
  <2>3. [j EXCEPT !.stage = "streaming"] \in [line : Lines, stage : Stages]
    BY <2>1 DEF Stages
  <2>4. /\ activeCancel' = TRUE
        /\ UNCHANGED <<inputHistory, captured, queued, busy, lock, ran, typed, cleared, dropped>>
    BY <1>1 DEF TaskSent, ghosts
  <2>5. UiTypeOK'
    BY <2>2, <2>3, <2>4 DEF UiInv, UiTypeOK
  <2>6. TurnInv'
    BY <2>1, <2>2, <2>4 DEF UiInv, TurnInv
  <2>7. LinesInv'
    BY <2>4 DEF UiInv, LinesInv
  <2>. QED
    BY <2>5, <2>6, <2>7 DEF UiInv
<1>2. CASE Disconnected
  <2>1. UiTypeOK'
    BY <1>2 DEF Disconnected, ghosts, UiInv, UiTypeOK
  <2>2. TurnInv'
    BY <1>2 DEF Disconnected, ghosts, UiInv, TurnInv
  <2>3. LinesInv'
    BY <1>2 DEF Disconnected, ghosts, UiInv, LinesInv
  <2>. QED
    BY <2>1, <2>2, <2>3 DEF UiInv
<1>3. CASE UNCHANGED uiVars
  <2>1. UiTypeOK'
    BY <1>3 DEF uiVars, UiInv, UiTypeOK
  <2>2. TurnInv'
    BY <1>3 DEF uiVars, UiInv, TurnInv
  <2>3. LinesInv'
    BY <1>3 DEF uiVars, UiInv, LinesInv
  <2>. QED
    BY <2>1, <2>2, <2>3 DEF UiInv
<1>. QED
  BY <1>1, <1>2, <1>3, SubmitStep, EnqueueStep, FinishStep, EscapeStep DEF UiNext

(* It implies what the run checks.                                         *)
LEMMA UiHolds == UiInv => SessionInv
<1>. SUFFICES ASSUME UiInv PROVE SessionInv
  OBVIOUS
<1>1. /\ typed \in Seq(Lines) /\ IsInjective(typed) /\ InOrder(typed, ran)
      /\ \A d \in ToSet(ran) \cup dropped : \A y \in ToSet(queued) : Before(typed, d, y)
      /\ ToSet(typed) = ToSet(ran) \cup ToSet(queued) \cup cleared \cup dropped
      /\ cleared \cap (ToSet(ran) \cup ToSet(queued)) = {}
  BY DEF UiInv, UiTypeOK, LinesInv
<1>2. OneJobAtATime
  <2>1. Cardinality(jobs) <= 1
    <3>1. CASE jobs = {}
      BY <3>1, FS_EmptySet
    <3>2. CASE \E j \in jobs : jobs = {j}
      <4>1. PICK j \in jobs : jobs = {j}
        BY <3>2
      <4>2. Cardinality({j}) = 1
        BY FS_Singleton
      <4>3. Cardinality(jobs) = 1
        BY <4>1, <4>2
      <4>. QED
        BY <4>3
    <3>. QED
      BY <3>1, <3>2 DEF UiInv, TurnInv
  <2>2. lock = (jobs # {})
    BY DEF UiInv, TurnInv, UiTypeOK
  <2>. QED
    BY <2>1, <2>2 DEF OneJobAtATime
<1>3. RunInOrder
  BY <1>1 DEF RunInOrder, InOrder, Before
<1>4. NoLineVanishes
  <2>1. ASSUME NEW i \in 1..Len(typed), typed[i] \in dropped, NEW k \in 1..i
        PROVE  typed[k] \notin ToSet(queued)
    <3>. SUFFICES ASSUME typed[k] \in ToSet(queued) PROVE FALSE
      OBVIOUS
    <3>1. Before(typed, typed[i], typed[k])
      BY <1>1, <2>1
    <3>2. k \in 1..Len(typed)
      BY <1>1, <2>1
    <3>3. i < k
      BY <1>1, <3>1, <3>2, NotBeforeItself
    <3>. QED
      BY <3>3
  <2>. QED
    BY <1>1, <2>1 DEF NoLineVanishes, UiInv, TurnInv
<1>5. ClearedStaysCleared
  BY <1>1 DEF ClearedStaysCleared
<1>. QED
  BY <1>2, <1>3, <1>4, <1>5 DEF SessionInv, UiInv

-----------------------------------------------------------------------------
(* The lines of the session: one at a time, in the order they were typed,  *)
(* none lost, and none that Escape took.                                   *)
THEOREM SessionIsSafe == UiSpec => []SessionInv
<1>1. UiSpec => []UiInv
  BY UiStarts, UiNextStep, PTL DEF UiSpec
<1>. QED
  BY <1>1, UiHolds, PTL

-----------------------------------------------------------------------------
(* The connection.  What was closed is closed; reload() awaits the         *)
(* handshake it suppresses the timer for; and a connection that was there  *)
(* comes back by a timer or by whoever awaits the handshake.               *)
LinkInv ==
  /\ ConnectionInv
  /\ closeEvents \cap up = {}
  /\ suppress => "reload" \in joined
  /\ joined # {} => establishing # None
  /\ wanted /\ rsocket = 0 => timer \/ joined # {}

(* The socket that a handshake opens is a new one.                         *)
LEMMA NewSocket ==
  ASSUME NEW S, NEW q \in Seq(S), NEW x \in S
  PROVE  /\ Append(q, x) \in Seq(S) /\ Len(Append(q, x)) = Len(q) + 1 /\ Len(q) \in Nat
         /\ Len(q) + 1 \in 0..(Len(q) + 1) /\ 0..Len(q) \subseteq 0..(Len(q) + 1)
         /\ Len(q) + 1 \notin 0..Len(q) /\ Len(q) + 1 # 0
<1>1. Append(q, x) \in Seq(S) /\ Len(Append(q, x)) = Len(q) + 1 /\ Len(q) \in Nat
  BY AppendProperties
<1>. QED
  BY <1>1

(* The invariant of the link holds at the start,                           *)
LEMMA LinkInit == ConnInit => LinkInv
<1>. SUFFICES ASSUME ConnInit PROVE LinkInv
  OBVIOUS
<1>1. Len(opened) = 0 /\ opened \in Seq(Servers) /\ 0..0 = {0}
  BY DEF ConnInit
<1>2. ConnTypeOK
  BY <1>1 DEF ConnInit, ConnTypeOK, Sockets, CommandState
<1>. QED
  BY <1>2, NoneIsNoServer DEF ConnInit, LinkInv, ConnectionInv, NoStraySocket, SessionFollowsSocket,
         RecoveryUnderway

(* A handshake that is under way, or none, and the status that goes with   *)
(* it.                                                                     *)
LEMMA ConnectLemma ==
  ASSUME LinkInv, NEW s \in Servers, Connect(s), rsocket = 0
  PROVE  /\ establishing' \in Servers /\ establishing' # None
         /\ status' = "Connecting"
BY NoneIsNoServer DEF Connect, LinkInv, ConnectionInv, ConnTypeOK, SessionFollowsSocket

(* and every step of the connection keeps it.                              *)
LEMMA LinkStep == LinkInv /\ [ConnNext]_connVars => LinkInv'
<1>. SUFFICES ASSUME LinkInv, [ConnNext]_connVars PROVE LinkInv'
  OBVIOUS
<1>. USE DEF LinkInv, ConnectionInv, NoStraySocket, SessionFollowsSocket, RecoveryUnderway
<1>0. /\ ConnTypeOK /\ Len(opened) \in Nat
      /\ rsocket # 0 => establishing = None
      /\ rsocket = 0 => up = {}
  BY NoneIsNoServer DEF ConnTypeOK, Sockets
<1>1. ASSUME NEW c \in Commands, CommandCalled(c) \/ CommandRetries(c) PROVE LinkInv'
  <2>1. /\ UNCHANGED <<config, opened, rsocket, up, closeEvents, joined, timer, suppress,
                       monitor, checking, session, wanted>>
        /\ \/ UNCHANGED <<establishing, status>>
           \/ rsocket = 0 /\ Connect(config)
        /\ command' \in [Commands -> CommandState] /\ sentOn' \in [Commands -> Sockets]
    BY <1>0, <1>1 DEF CommandCalled, CommandRetries, ConnTypeOK, CommandState
  <2>2. CASE UNCHANGED <<establishing, status>>
    BY <1>0, <2>1, <2>2 DEF ConnTypeOK, Sockets
  <2>3. CASE rsocket = 0 /\ Connect(config)
    <3>1. establishing' \in Servers /\ establishing' # None /\ status' = "Connecting"
      BY <1>0, <2>3, ConnectLemma DEF ConnTypeOK
    <3>. QED
      BY <1>0, <2>1, <2>3, <3>1 DEF ConnTypeOK, Sockets
  <2>. QED
    BY <2>1, <2>2, <2>3
<1>2. ASSUME NEW c \in Commands, CommandSettles(c) PROVE LinkInv'
  <2>1. command' \in [Commands -> CommandState]
    BY <1>0, <1>2 DEF CommandSettles, ConnTypeOK, CommandState
  <2>. QED
    BY <1>0, <1>2, <2>1 DEF CommandSettles, ConnTypeOK, Sockets
<1>3. CASE HandshakeSucceeds
  <2>. DEFINE new == Len(opened) + 1
  <2>1. /\ opened' \in Seq(Servers) /\ Len(opened') = new
        /\ new \in 0..new /\ 0..Len(opened) \subseteq 0..new /\ new \notin 0..Len(opened) /\ new # 0
    BY <1>0, <1>3, NewSocket DEF HandshakeSucceeds, ConnTypeOK
  <2>2. /\ rsocket' = new /\ session' = new /\ up' = up \cup {new} /\ monitor' = TRUE
        /\ status' = "Connected" /\ suppress' = (suppress /\ "reload" \notin joined)
        /\ establishing' = None /\ joined' = {} /\ wanted' = TRUE
        /\ UNCHANGED <<config, closeEvents, timer, checking>>
        /\ establishing # None
    BY <1>3, <2>1 DEF HandshakeSucceeds
  <2>3. up = {} /\ suppress' = FALSE
    BY <1>0, <2>2 DEF ConnTypeOK
  <2>4. command' \in [Commands -> CommandState]
    BY <1>0, <1>3 DEF HandshakeSucceeds, To, ConnTypeOK, CommandState
  <2>5. sentOn' \in [Commands -> 0..new]
    BY <1>0, <1>3, <2>1, <2>2 DEF HandshakeSucceeds, ConnTypeOK, Sockets
  <2>. HIDE DEF new
  <2>6. ConnTypeOK'
    BY <1>0, <2>1, <2>2, <2>3, <2>4, <2>5 DEF ConnTypeOK, Sockets
  <2>7. closeEvents' \cap up' = {}
    BY <1>0, <2>1, <2>2, <2>3 DEF ConnTypeOK, Sockets
  <2>. QED
    BY <2>1, <2>2, <2>3, <2>6, <2>7
<1>4. CASE HandshakeFails
  <2>1. /\ rsocket' = 0 /\ rsocket = 0 /\ establishing' = None /\ joined' = {} /\ suppress' = FALSE
        /\ joined # {} => timer' = TRUE
        /\ joined = {} => timer' = timer
        /\ status' \in {"Disconnected", "Reconnecting"} /\ timer' \in BOOLEAN
        /\ UNCHANGED <<config, opened, up, closeEvents, monitor, checking, session, sentOn, wanted>>
    BY <1>0, <1>4 DEF HandshakeFails, SchedulesReconnect, ScheduleReconnect, ConnTypeOK
  <2>2. command' \in [Commands -> CommandState]
    BY <1>0, <1>4 DEF HandshakeFails, To, ConnTypeOK, CommandState
  <2>. QED
    BY <1>0, <2>1, <2>2 DEF ConnTypeOK, Sockets
<1>5. CASE TimerFires
  <2>1. CASE rsocket # 0
    BY <1>0, <1>5, <2>1 DEF TimerFires, ConnTypeOK, Sockets
  <2>2. CASE rsocket = 0
    <3>1. establishing' \in Servers /\ establishing' # None /\ status' = "Connecting"
      BY <1>0, <1>5, <2>2, ConnectLemma DEF TimerFires, ConnTypeOK
    <3>. QED
      BY <1>0, <1>5, <2>2, <3>1 DEF TimerFires, ConnTypeOK, Sockets
  <2>. QED
    BY <2>1, <2>2
<1>6. ASSUME NEW s \in 1..Len(opened), SocketDrops(s) PROVE LinkInv'
  BY <1>0, <1>6 DEF SocketDrops, ConnTypeOK, Sockets
<1>7. ASSUME NEW s \in 1..Len(opened), CloseDelivered(s) PROVE LinkInv'
  <2>1. CASE s # rsocket
    BY <1>0, <1>7, <2>1 DEF CloseDelivered, IsCurrent, ConnTypeOK, Sockets
  <2>2. CASE s = rsocket
    <3>1. ~suppress /\ establishing = None /\ up = {} /\ joined = {}
      BY <1>0, <1>7, <2>2 DEF CloseDelivered, ConnTypeOK
    <3>2. /\ timer' = TRUE /\ status' \in {"Disconnected", "Reconnecting"}
          /\ monitor' = FALSE /\ session' = 0 /\ rsocket' = 0 /\ closeEvents' \subseteq closeEvents
          /\ UNCHANGED <<config, opened, up, establishing, joined, suppress, checking, command,
                         sentOn, wanted>>
      BY <1>0, <1>7, <2>2, <3>1 DEF CloseDelivered, IsCurrent, ScheduleReconnect, ConnTypeOK
    <3>6. Sockets' = Sockets /\ 0 \in Sockets
      BY <1>0, <3>2 DEF Sockets
    <3>7. {timer', suppress', monitor', wanted'} \subseteq BOOLEAN
      BY <1>0, <3>2 DEF ConnTypeOK
    <3>3. ConnTypeOK'
      BY <1>0, <3>1, <3>2, <3>6, <3>7 DEF ConnTypeOK
    <3>4. SessionFollowsSocket'
      BY <3>1, <3>2
    <3>5. closeEvents' \cap up' = {} /\ up' \subseteq {rsocket'}
      BY <3>1, <3>2
    <3>. QED
      BY <3>1, <3>2, <3>3, <3>4, <3>5
  <2>. QED
    BY <2>1, <2>2
<1>8. CASE HealthCheckBegins
  BY <1>0, <1>8 DEF HealthCheckBegins, ConnTypeOK, Sockets
<1>9. CASE HealthCheckEnds
  <2>1. /\ \/ UNCHANGED <<up, closeEvents>>
           \/ up' = up \ {rsocket} /\ closeEvents' = closeEvents \cup {rsocket} /\ rsocket \in up
        /\ checking' = 0
        /\ UNCHANGED <<config, opened, rsocket, status, establishing, joined, timer, suppress,
                       monitor, session, command, sentOn, wanted>>
    BY <1>9 DEF HealthCheckEnds, IsCurrent
  <2>5. Sockets' = Sockets /\ 0 \in Sockets
    BY <1>0, <2>1 DEF Sockets
  <2>6. up' \subseteq Sockets' \ {0} /\ closeEvents' \subseteq Sockets' \ {0}
    BY <1>0, <2>1, <2>5 DEF ConnTypeOK
  <2>2. ConnTypeOK'
    BY <1>0, <2>1, <2>5, <2>6 DEF ConnTypeOK
  <2>3. SessionFollowsSocket'
    BY <2>1
  <2>4. closeEvents' \cap up' = {} /\ up' \subseteq {rsocket'}
    BY <2>1
  <2>. QED
    BY <2>1, <2>2, <2>3, <2>4
<1>10. ASSUME NEW s \in Servers, Reload(s) PROVE LinkInv'
  <2>1. /\ rsocket' = 0 /\ session' = 0 /\ monitor' = FALSE /\ up' = {}
        /\ closeEvents' = closeEvents \cup (up \cap {rsocket})
        /\ config' = s /\ suppress' = TRUE /\ timer' = FALSE /\ wanted' = TRUE
        /\ joined' = joined \cup {"reload"}
        /\ UNCHANGED <<opened, checking, command, sentOn>>
    BY <1>10 DEF Reload, CloseOld
  <2>2. establishing' \in Servers /\ establishing' # None /\ status' = "Connecting"
    BY <1>0, <1>10, NoneIsNoServer DEF Reload, Connect, ConnTypeOK
  <2>5. Sockets' = Sockets /\ 0 \in Sockets
    BY <1>0, <2>1 DEF Sockets
  <2>6. {timer', suppress', monitor', wanted'} \subseteq BOOLEAN
    BY <2>1
  <2>7. up' \subseteq Sockets' \ {0} /\ closeEvents' \subseteq Sockets' \ {0}
    BY <1>0, <2>1, <2>5 DEF ConnTypeOK
  <2>3. ConnTypeOK'
    BY <1>0, <2>1, <2>2, <2>5, <2>6, <2>7 DEF ConnTypeOK
  <2>4. SessionFollowsSocket'
    BY <2>1, <2>2
  <2>. QED
    BY <2>1, <2>2, <2>3, <2>4
<1>11. CASE UNCHANGED connVars
  BY <1>0, <1>11 DEF connVars, ConnTypeOK, Sockets
<1>. QED
  BY <1>1, <1>2, <1>3, <1>4, <1>5, <1>6, <1>7, <1>8, <1>9, <1>10, <1>11 DEF ConnNext

-----------------------------------------------------------------------------
(* One socket at a time, with its session, and one to come back to.        *)
THEOREM ConnectionIsSafe == ConnSpec => []ConnectionInv
<1>1. ConnSpec => []LinkInv
  BY LinkInit, LinkStep, PTL DEF ConnSpec
<1>2. LinkInv => ConnectionInv
  BY DEF LinkInv
<1>. QED
  BY <1>1, <1>2, PTL

(* A step that gives the socket up leaves it closed.                       *)
LEMMA GivenUpStep ==
  LinkInv /\ [ConnNext]_connVars => [rsocket # 0 /\ rsocket' = 0 => rsocket \notin up']_connVars
<1>. SUFFICES ASSUME LinkInv, ConnNext, rsocket # 0, rsocket' = 0 PROVE rsocket \notin up'
  OBVIOUS
<1>1. Len(opened) \in Nat /\ establishing = None
  BY DEF LinkInv, ConnectionInv, ConnTypeOK, SessionFollowsSocket
<1>2. \/ \E s \in 1..Len(opened) : CloseDelivered(s)
      \/ \E s \in Servers : Reload(s)
  BY <1>1 DEF ConnNext, CommandCalled, CommandRetries, CommandSettles, HandshakeSucceeds, HandshakeFails,
         TimerFires, SocketDrops, HealthCheckBegins, HealthCheckEnds
<1>. QED
  BY <1>2 DEF CloseDelivered, IsCurrent, Reload, CloseOld, LinkInv

(* No socket is given up that is not closed.                               *)
THEOREM OnlyClosedIsGivenUp == ConnSpec => GivenUpOnlyClosed
<1>1. ConnSpec => []LinkInv
  BY LinkInit, LinkStep, PTL DEF ConnSpec
<1>. QED
  BY <1>1, GivenUpStep, PTL DEF ConnSpec, GivenUpOnlyClosed

-----------------------------------------------------------------------------
(* The transport to an MCP server.                                         *)
Getting == {"probe", "close", "connect"}
Queued == {c \in McpCalls : does[c] = "call" /\ step[c] \notin {"start", "done"}}

TransportTypes ==
  /\ does \in [McpCalls -> {"call", "list", "remove"}] /\ operationQueue \in Seq(McpCalls)
  /\ tries \in [McpCalls -> Transports \cup {NotPinned}] /\ speaks \in Transports
  /\ clientsOpened \in Nat /\ raced \in BOOLEAN /\ McpConnTypeOK

(* The calls wait in the queue, each once, and only its head is under way. *)
QueueInv ==
  /\ ToSet(operationQueue) = Queued /\ IsInjective(operationQueue)
  /\ \A c \in Queued : step[c] # "queued" => operationQueue # <<>> /\ Head(operationQueue) = c

(* Unless two were in getMcpClient at once: what one of them probes is     *)
(* what is stored, if anything still is, and nothing is when it connects.  *)
UnracedInv ==
  ~raced =>
    /\ \A c, d \in McpCalls : step[c] \in Getting /\ step[d] \in Getting => c = d
    /\ openClients \subseteq {current}
    /\ \A c \in McpCalls : /\ step[c] \in {"probe", "close"} => current \in {0, uses[c]}
                           /\ step[c] = "connect" => current = 0

TransportInv == TransportTypes /\ QueueInv /\ UnracedInv

(* The invariant of the transports holds at the start.                     *)
LEMMA TransportInit == McpConnInit => TransportInv
<1>. SUFFICES ASSUME McpConnInit PROVE TransportInv
  OBVIOUS
<1>1. TransportTypes
  <2>1. operationQueue \in Seq(McpCalls)
    BY EmptySeq DEF McpConnInit
  <2>2. McpConnTypeOK
    BY DEF McpConnInit, McpConnTypeOK, Steps
  <2>. QED
    BY <2>1, <2>2 DEF McpConnInit, TransportTypes
<1>2. ToSet(<<>>) = {} /\ IsInjective(<<>>)
  BY DEF ToSet, IsInjective
<1>3. QueueInv
  BY <1>2 DEF McpConnInit, QueueInv, Queued
<1>4. UnracedInv
  BY DEF McpConnInit, UnracedInv, Getting
<1>. QED
  BY <1>1, <1>3, <1>4 DEF TransportInv

(* Where an operation goes and what becomes of the queue then.             *)
LEMMA StepsTo ==
  ASSUME TransportTypes, NEW c \in McpCalls, NEW s \in Steps, ToStep(c, s)
  PROVE  /\ step' \in [McpCalls -> Steps] /\ step'[c] = s
         /\ \A d \in McpCalls \ {c} : step'[d] = step[d]
BY DEF TransportTypes, McpConnTypeOK, ToStep

(* An operation that goes on leaves the queue as it is.                    *)
LEMMA QueueStays ==
  ASSUME TransportTypes, QueueInv, NEW c \in McpCalls, NEW s \in Steps \ {"start", "done", "queued"},
         ToStep(c, s), UNCHANGED <<does, operationQueue>>,
         does[c] = "call" => c \in Queued /\ Head(operationQueue) = c
  PROVE  QueueInv'
<1>1. step'[c] = s /\ \A d \in McpCalls \ {c} : step'[d] = step[d]
  BY StepsTo
<1>2. Queued' = Queued
  BY <1>1 DEF Queued
<1>3. operationQueue # <<>> \/ Queued = {}
  BY EmptySeq DEF QueueInv, ToSet
<1>. QED
  BY <1>1, <1>2, <1>3 DEF QueueInv, Queued

(* One that is done leaves it, and the next one is its head.               *)
LEMMA QueueLeaves ==
  ASSUME TransportTypes, QueueInv, NEW c \in McpCalls, Leave(c), UNCHANGED does,
         does[c] = "call" => c \in Queued /\ step[c] # "queued"
  PROVE  /\ QueueInv' /\ operationQueue' \in Seq(McpCalls)
         /\ step' \in [McpCalls -> Steps] /\ step'[c] = "done"
         /\ \A d \in McpCalls \ {c} : step'[d] = step[d]
<1>1. /\ step' \in [McpCalls -> Steps] /\ step'[c] = "done"
      /\ \A d \in McpCalls \ {c} : step'[d] = step[d]
  BY StepsTo DEF Leave, Steps
<1>2. CASE does[c] # "call"
  <2>1. operationQueue' = operationQueue /\ operationQueue \in Seq(McpCalls)
    BY <1>2 DEF Leave, TransportTypes
  <2>2. Queued' = Queued
    BY <1>1, <1>2 DEF Queued
  <2>. QED
    BY <1>1, <1>2, <2>1, <2>2 DEF QueueInv, Queued
<1>3. CASE does[c] = "call"
  <2>1. c \in Queued /\ operationQueue # <<>> /\ Head(operationQueue) = c
        /\ operationQueue' = Tail(operationQueue)
    BY <1>3 DEF Leave, QueueInv
  <2>2. /\ Tail(operationQueue) \in Seq(McpCalls) /\ c \notin ToSet(Tail(operationQueue))
        /\ ToSet(operationQueue) = ToSet(Tail(operationQueue)) \cup {c}
        /\ IsInjective(Tail(operationQueue))
    BY <2>1, HeadLeaves DEF TransportTypes, QueueInv
  <2>3. Queued' = Queued \ {c}
    BY <1>1 DEF Queued
  <2>4. \A d \in Queued \ {c} : step[d] = "queued"
    BY <2>1 DEF QueueInv
  <2>5. \A d \in Queued' : step'[d] = "queued"
    BY <1>1, <2>3, <2>4 DEF Queued
  <2>6. ToSet(operationQueue') = Queued'
    BY <2>1, <2>2, <2>3 DEF QueueInv
  <2>. QED
    BY <1>1, <2>1, <2>2, <2>5, <2>6 DEF QueueInv
<1>. QED
  BY <1>2, <1>3

(* The head stays when another one joins.                                  *)
LEMMA HeadStays ==
  ASSUME NEW S, NEW q \in Seq(S), NEW x \in S, q # <<>>
  PROVE  Append(q, x) # <<>> /\ Head(Append(q, x)) = Head(q)
<1>1. /\ Append(q, x) \in Seq(S) /\ Len(Append(q, x)) = Len(q) + 1 /\ Len(q) \in Nat
      /\ \A i \in 1..Len(q) : Append(q, x)[i] = q[i]
  BY LongerByOne
<1>2. Len(q) # 0
  BY EmptySeq
<1>3. 1 \in 1..Len(q) /\ Len(Append(q, x)) # 0
  BY <1>1, <1>2
<1>4. Append(q, x) # <<>>
  BY <1>1, <1>3, EmptySeq
<1>5. Head(q) = q[1] /\ Head(Append(q, x)) = Append(q, x)[1]
  BY <1>1, <1>4, HeadTailProperties
<1>. QED
  BY <1>1, <1>3, <1>4, <1>5

(* A step that brings nobody into getMcpClient and opens nothing, and      *)
(* after which what is stored is the same or nothing.                      *)
LEMMA NoNewGetter ==
  ASSUME TransportTypes, UnracedInv, NEW c \in McpCalls,
         \A d \in McpCalls \ {c} : step'[d] = step[d] /\ uses'[d] = uses[d],
         step'[c] \notin Getting, raced' = raced,
         ~raced => openClients' \subseteq {current'},
         current' \in {0, current}
  PROVE  UnracedInv'
<1>. SUFFICES ASSUME ~raced PROVE UnracedInv'
  BY DEF UnracedInv
<1>1. \A d \in McpCalls : step'[d] \in Getting => d # c /\ step[d] \in Getting /\ step'[d] = step[d]
                                                  /\ uses'[d] = uses[d]
  OBVIOUS
<1>2. \A d, e \in McpCalls : step'[d] \in Getting /\ step'[e] \in Getting => d = e
  BY <1>1 DEF UnracedInv
<1>3. \A d \in McpCalls : /\ step'[d] \in {"probe", "close"} => current' \in {0, uses'[d]}
                          /\ step'[d] = "connect" => current' = 0
  BY <1>1 DEF UnracedInv, Getting
<1>. QED
  BY <1>2, <1>3 DEF UnracedInv

(* The one operation that is in getMcpClient goes on in it.                *)
LEMMA SameGetter ==
  ASSUME TransportTypes, UnracedInv, NEW c \in McpCalls,
         \A d \in McpCalls \ {c} : step'[d] = step[d] /\ uses'[d] = uses[d],
         step[c] \in Getting, raced' = raced,
         ~raced => /\ openClients' \subseteq {current'}
                   /\ step'[c] \in {"probe", "close"} => current' \in {0, uses'[c]}
                   /\ step'[c] = "connect" => current' = 0
  PROVE  UnracedInv'
<1>. SUFFICES ASSUME ~raced PROVE UnracedInv'
  BY DEF UnracedInv
<1>1. \A d \in McpCalls \ {c} : step'[d] \notin Getting
  BY DEF UnracedInv
<1>. QED
  BY <1>1 DEF UnracedInv, Getting

(* One that enters it is alone in it, or they race.                        *)
LEMMA EntersGetting ==
  ASSUME TransportTypes, UnracedInv, NEW c \in McpCalls,
         \A d \in McpCalls \ {c} : step'[d] = step[d] /\ uses'[d] = uses[d],
         raced' = (raced \/ \E d \in McpCalls : step[d] \in Getting),
         UNCHANGED <<openClients, current>>, uses'[c] = current,
         step'[c] = "connect" => current = 0
  PROVE  UnracedInv'
<1>. SUFFICES ASSUME ~raced' PROVE UnracedInv'
  BY DEF UnracedInv
<1>1. ~raced /\ \A d \in McpCalls : step[d] \notin Getting
  OBVIOUS
<1>. QED
  BY <1>1 DEF UnracedInv, Getting

(* Every step of a call keeps the invariant of the transports.             *)
LEMMA TransportStep ==
  TransportInv /\ [McpConnNext]_mcpConnVars => TransportInv'
<1>. SUFFICES ASSUME TransportInv, [McpConnNext]_mcpConnVars PROVE TransportInv'
  OBVIOUS
<1>0. /\ TransportTypes /\ QueueInv /\ UnracedInv
      /\ step \in [McpCalls -> Steps] /\ uses \in [McpCalls -> 0..clientsOpened]
      /\ current \in 0..clientsOpened /\ openClients \subseteq 1..clientsOpened
      /\ kindOf \in Transports \cup {NotPinned} /\ clientsOpened \in Nat
      /\ tries \in [McpCalls -> Transports \cup {NotPinned}]
      /\ operationQueue \in Seq(McpCalls)
  BY DEF TransportInv, TransportTypes, McpConnTypeOK
<1>q. \A c \in Queued : operationQueue # <<>> /\ (step[c] # "queued" => Head(operationQueue) = c)
  BY <1>0, EmptySeq DEF QueueInv, ToSet
<1>1. ASSUME NEW c \in McpCalls, EnqueueMcpOperation(c) PROVE TransportInv'
  <2>1. /\ step[c] = "start" /\ does[c] = "call" /\ operationQueue' = Append(operationQueue, c)
        /\ UNCHANGED <<does, uses, tries, current, openClients, clientsOpened, kindOf, speaks, raced>>
        /\ step' \in [McpCalls -> Steps] /\ step'[c] = "queued"
        /\ \A d \in McpCalls \ {c} : step'[d] = step[d]
    BY <1>0, <1>1, StepsTo DEF EnqueueMcpOperation, Steps
  <2>2. c \notin ToSet(operationQueue) /\ IsInjective(operationQueue)
    BY <1>0, <2>1 DEF QueueInv, Queued
  <2>3. /\ operationQueue' \in Seq(McpCalls) /\ ToSet(operationQueue') = ToSet(operationQueue) \cup {c}
        /\ IsInjective(operationQueue')
    BY <1>0, <2>1, <2>2, QueuesUp
  <2>4. Queued' = Queued \cup {c} /\ c \notin Queued
    BY <2>1 DEF Queued
  <2>5. ASSUME NEW d \in Queued', step'[d] # "queued"
        PROVE  operationQueue' # <<>> /\ Head(operationQueue') = d
    <3>1. d \in Queued /\ step[d] # "queued"
      BY <2>1, <2>4, <2>5 DEF Queued
    <3>2. operationQueue # <<>> /\ Head(operationQueue) = d
      BY <1>q, <3>1
    <3>3. operationQueue' # <<>> /\ Head(operationQueue') = Head(operationQueue)
      BY <1>0, <2>1, <3>2, HeadStays
    <3>. QED
      BY <3>2, <3>3
  <2>6. QueueInv'
    BY <1>0, <2>3, <2>4, <2>5 DEF QueueInv
  <2>7. UnracedInv'
    BY <1>0, <2>1, NoNewGetter DEF UnracedInv, Getting
  <2>8. TransportTypes'
    BY <1>0, <2>1, <2>3 DEF TransportTypes, McpConnTypeOK
  <2>. QED
    BY <2>6, <2>7, <2>8 DEF TransportInv
<1>2. ASSUME NEW c \in McpCalls, GetMcpClient(c) PROVE TransportInv'
  <2>1. PICK s \in {"probe", "connect"} :
          /\ ToStep(c, s) /\ (s = "connect" => current = 0)
          /\ tries' \in [McpCalls -> Transports \cup {NotPinned}]
    BY <1>0, <1>2 DEF GetMcpClient, Connects, Preferred, Transports
  <2>2. /\ step' \in [McpCalls -> Steps] /\ step'[c] = s
        /\ \A d \in McpCalls \ {c} : step'[d] = step[d]
    BY <1>0, <2>1, StepsTo DEF Steps
  <2>3. /\ uses' \in [McpCalls -> 0..clientsOpened] /\ uses'[c] = current
        /\ \A d \in McpCalls \ {c} : uses'[d] = uses[d]
    BY <1>0, <1>2 DEF GetMcpClient
  <2>4. does[c] = "call" => c \in Queued /\ Head(operationQueue) = c
    BY <1>2 DEF GetMcpClient, MayRun, Queued
  <2>5. QueueInv'
    BY <1>0, <1>2, <2>1, <2>4, QueueStays DEF GetMcpClient, Steps
  <2>6. UnracedInv'
    BY <1>0, <1>2, <2>1, <2>2, <2>3, EntersGetting DEF GetMcpClient, Getting
  <2>7. TransportTypes'
    BY <1>0, <1>2, <2>1, <2>2, <2>3 DEF GetMcpClient, TransportTypes, McpConnTypeOK
  <2>. QED
    BY <2>5, <2>6, <2>7 DEF TransportInv
<1>3. ASSUME NEW c \in McpCalls, Probe(c) PROVE TransportInv'
  <2>1. PICK s \in {"use", "close"} : ToStep(c, s)
    BY <1>3 DEF Probe
  <2>2. /\ step' \in [McpCalls -> Steps] /\ step'[c] = s
        /\ \A d \in McpCalls \ {c} : step'[d] = step[d]
    BY <1>0, <2>1, StepsTo DEF Steps
  <2>3. /\ step[c] = "probe"
        /\ UNCHANGED <<does, uses, tries, operationQueue, current, openClients, clientsOpened,
                       kindOf, speaks, raced>>
    BY <1>3 DEF Probe
  <2>4. does[c] = "call" => c \in Queued /\ Head(operationQueue) = c
    BY <1>q, <2>3 DEF Queued
  <2>5. QueueInv'
    BY <1>0, <2>1, <2>3, <2>4, QueueStays DEF Steps
  <2>6. UnracedInv'
    BY <1>0, <2>2, <2>3, SameGetter DEF Getting, UnracedInv
  <2>7. TransportTypes'
    BY <1>0, <2>2, <2>3 DEF TransportTypes, McpConnTypeOK
  <2>. QED
    BY <2>5, <2>6, <2>7 DEF TransportInv
<1>4. ASSUME NEW c \in McpCalls, CloseDead(c) PROVE TransportInv'
  <2>1. /\ step[c] = "close" /\ ToStep(c, "connect") /\ CloseConnectionIfCurrent(c)
        /\ tries' \in [McpCalls -> Transports \cup {NotPinned}]
        /\ UNCHANGED <<does, uses, operationQueue, clientsOpened, kindOf, speaks, raced>>
    BY <1>0, <1>4 DEF CloseDead, Connects, Preferred, Transports
  <2>2. /\ step' \in [McpCalls -> Steps] /\ step'[c] = "connect"
        /\ \A d \in McpCalls \ {c} : step'[d] = step[d]
    BY <1>0, <2>1, StepsTo DEF Steps
  <2>3. /\ openClients' = openClients \ {uses[c]}
        /\ current' = IF current = uses[c] THEN 0 ELSE current
    BY <2>1 DEF CloseConnectionIfCurrent
  <2>4. does[c] = "call" => c \in Queued /\ Head(operationQueue) = c
    BY <1>q, <2>1 DEF Queued
  <2>5. QueueInv'
    BY <1>0, <2>1, <2>4, QueueStays DEF Steps
  <2>6. ~raced => openClients' \subseteq {current'} /\ current' = 0
    BY <1>0, <2>1, <2>3 DEF UnracedInv
  <2>7. UnracedInv'
    BY <1>0, <2>1, <2>2, <2>6, SameGetter DEF Getting
  <2>9. openClients' \subseteq 1..clientsOpened /\ current' \in 0..clientsOpened
    <3>1. 0 \in 0..clientsOpened
      BY <1>0
    <3>2. current' = 0 \/ current' = current
      BY <2>3
    <3>3. openClients' \subseteq openClients
      BY <2>3
    <3>. QED
      BY <1>0, <3>1, <3>2, <3>3
  <2>8. TransportTypes'
    BY <1>0, <2>1, <2>2, <2>9 DEF TransportTypes, McpConnTypeOK
  <2>. QED
    BY <2>5, <2>7, <2>8 DEF TransportInv
<1>5. ASSUME NEW c \in McpCalls, ConnectAndStore(c) PROVE TransportInv'
  <2>. DEFINE new == clientsOpened + 1
  <2>1. /\ step[c] = "connect" /\ tries[c] = speaks /\ clientsOpened' = new /\ current' = new
        /\ openClients' = openClients \cup {new} /\ uses' = [uses EXCEPT ![c] = new]
        /\ kindOf' = tries[c] /\ ToStep(c, "use")
        /\ UNCHANGED <<does, tries, operationQueue, speaks, raced>>
    BY <1>5 DEF ConnectAndStore
  <2>2. /\ step' \in [McpCalls -> Steps] /\ step'[c] = "use"
        /\ \A d \in McpCalls \ {c} : step'[d] = step[d]
    BY <1>0, <2>1, StepsTo DEF Steps
  <2>3. new \in Nat /\ new \in 0..new /\ new \in 1..new /\ 0..clientsOpened \subseteq 0..new
        /\ 1..clientsOpened \subseteq 1..new /\ 0 \notin 1..clientsOpened
    BY <1>0
  <2>4. does[c] = "call" => c \in Queued /\ Head(operationQueue) = c
    BY <1>q, <2>1 DEF Queued
  <2>5. QueueInv'
    BY <1>0, <2>1, <2>4, QueueStays DEF Steps
  <2>. HIDE DEF new
  <2>6. /\ uses' \in [McpCalls -> 0..new] /\ \A d \in McpCalls \ {c} : uses'[d] = uses[d]
    BY <1>0, <2>1, <2>3
  <2>7. ~raced => openClients = {}
    BY <1>0, <2>1, <2>3 DEF UnracedInv
  <2>8. UnracedInv'
    BY <1>0, <2>1, <2>2, <2>6, <2>7, SameGetter DEF Getting
  <2>9. TransportTypes'
    BY <1>0, <2>1, <2>2, <2>3, <2>6 DEF TransportTypes, McpConnTypeOK
  <2>. QED
    BY <2>5, <2>8, <2>9 DEF TransportInv
<1>6. ASSUME NEW c \in McpCalls, ConnectFails(c) PROVE TransportInv'
  <2>1. /\ step[c] = "connect" /\ tries' \in [McpCalls -> Transports \cup {NotPinned}]
        /\ UNCHANGED <<does, current, openClients, clientsOpened, kindOf, speaks, raced>>
    BY <1>0, <1>6 DEF ConnectFails, Transports
  <2>2. does[c] = "call" => c \in Queued /\ Head(operationQueue) = c
    BY <1>q, <2>1 DEF Queued
  <2>3. CASE UNCHANGED <<step, operationQueue, uses>>
    <3>1. QueueInv'
      BY <1>0, <2>1, <2>3 DEF QueueInv, Queued
    <3>2. UnracedInv'
      BY <1>0, <2>1, <2>3 DEF UnracedInv
    <3>3. TransportTypes'
      BY <1>0, <2>1, <2>3 DEF TransportTypes, McpConnTypeOK
    <3>. QED
      BY <3>1, <3>2, <3>3 DEF TransportInv
  <2>4. CASE ToStep(c, "drop") /\ uses' = [uses EXCEPT ![c] = current] /\ UNCHANGED operationQueue
    <3>1. /\ step' \in [McpCalls -> Steps] /\ step'[c] = "drop"
          /\ \A d \in McpCalls \ {c} : step'[d] = step[d]
      BY <1>0, <2>4, StepsTo DEF Steps
    <3>2. uses' \in [McpCalls -> 0..clientsOpened] /\ \A d \in McpCalls \ {c} : uses'[d] = uses[d]
      BY <1>0, <2>4
    <3>3. QueueInv'
      BY <1>0, <2>1, <2>2, <2>4, QueueStays DEF Steps
    <3>4. UnracedInv'
      BY <1>0, <2>1, <3>1, <3>2, NoNewGetter DEF Getting, UnracedInv
    <3>5. TransportTypes'
      BY <1>0, <2>1, <2>4, <3>1, <3>2 DEF TransportTypes, McpConnTypeOK
    <3>. QED
      BY <3>3, <3>4, <3>5 DEF TransportInv
  <2>5. CASE Leave(c) /\ UNCHANGED uses
    <3>1. /\ QueueInv' /\ operationQueue' \in Seq(McpCalls)
          /\ step' \in [McpCalls -> Steps] /\ step'[c] = "done"
          /\ \A d \in McpCalls \ {c} : step'[d] = step[d]
      BY <1>0, <2>1, <2>2, <2>5, QueueLeaves
    <3>2. UnracedInv'
      BY <1>0, <2>1, <2>5, <3>1, NoNewGetter DEF Getting, UnracedInv
    <3>3. TransportTypes'
      BY <1>0, <2>1, <2>5, <3>1 DEF TransportTypes, McpConnTypeOK
    <3>. QED
      BY <3>1, <3>2, <3>3 DEF TransportInv
  <2>. QED
    BY <1>6, <2>3, <2>4, <2>5 DEF ConnectFails
<1>7. ASSUME NEW c \in McpCalls, Succeeds(c) \/ Fails(c) PROVE TransportInv'
  <2>1. /\ step[c] = "use"
        /\ UNCHANGED <<does, tries, current, openClients, clientsOpened, kindOf, speaks, raced>>
    BY <1>7 DEF Succeeds, Fails
  <2>2. does[c] = "call" => c \in Queued /\ Head(operationQueue) = c
    BY <1>q, <2>1 DEF Queued
  <2>3. CASE ToStep(c, "drop") /\ uses' = [uses EXCEPT ![c] = current] /\ UNCHANGED operationQueue
    <3>1. /\ step' \in [McpCalls -> Steps] /\ step'[c] = "drop"
          /\ \A d \in McpCalls \ {c} : step'[d] = step[d]
      BY <1>0, <2>3, StepsTo DEF Steps
    <3>2. uses' \in [McpCalls -> 0..clientsOpened] /\ \A d \in McpCalls \ {c} : uses'[d] = uses[d]
      BY <1>0, <2>3
    <3>3. QueueInv'
      BY <1>0, <2>1, <2>2, <2>3, QueueStays DEF Steps
    <3>4. UnracedInv'
      BY <1>0, <2>1, <3>1, <3>2, NoNewGetter DEF Getting, UnracedInv
    <3>5. TransportTypes'
      BY <1>0, <2>1, <2>3, <3>1, <3>2 DEF TransportTypes, McpConnTypeOK
    <3>. QED
      BY <3>3, <3>4, <3>5 DEF TransportInv
  <2>4. CASE Leave(c) /\ UNCHANGED uses
    <3>1. /\ QueueInv' /\ operationQueue' \in Seq(McpCalls)
          /\ step' \in [McpCalls -> Steps] /\ step'[c] = "done"
          /\ \A d \in McpCalls \ {c} : step'[d] = step[d]
      BY <1>0, <2>1, <2>2, <2>4, QueueLeaves
    <3>2. UnracedInv'
      BY <1>0, <2>1, <2>4, <3>1, NoNewGetter DEF Getting, UnracedInv
    <3>3. TransportTypes'
      BY <1>0, <2>1, <2>4, <3>1 DEF TransportTypes, McpConnTypeOK
    <3>. QED
      BY <3>1, <3>2, <3>3 DEF TransportInv
  <2>. QED
    BY <1>7, <2>3, <2>4 DEF Succeeds, Fails
<1>8. ASSUME NEW c \in McpCalls, Drop(c) \/ ForgetTransportKind(c) PROVE TransportInv'
  <2>1. /\ step[c] = "drop" /\ Leave(c)
        /\ \/ CloseConnectionIfCurrent(c)
           \/ UNCHANGED <<openClients, current>>
        /\ kindOf' \in {kindOf, NotPinned}
        /\ UNCHANGED <<does, uses, tries, clientsOpened, speaks, raced>>
    BY <1>8 DEF Drop, ForgetTransportKind
  <2>2. /\ current' \in {0, current} /\ openClients' \subseteq openClients
        /\ openClients \subseteq {current} => openClients' \subseteq {current'}
    BY <2>1 DEF CloseConnectionIfCurrent
  <2>3. does[c] = "call" => c \in Queued /\ Head(operationQueue) = c
    BY <1>q, <2>1 DEF Queued
  <2>4. /\ QueueInv' /\ operationQueue' \in Seq(McpCalls)
        /\ step' \in [McpCalls -> Steps] /\ step'[c] = "done"
        /\ \A d \in McpCalls \ {c} : step'[d] = step[d]
    BY <1>0, <2>1, <2>3, QueueLeaves
  <2>5. UnracedInv'
    BY <1>0, <2>1, <2>2, <2>4, NoNewGetter DEF Getting, UnracedInv
  <2>6. TransportTypes'
    BY <1>0, <2>1, <2>2, <2>4 DEF TransportTypes, McpConnTypeOK
  <2>. QED
    BY <2>4, <2>5, <2>6 DEF TransportInv
<1>9. ASSUME NEW c \in McpCalls, DisconnectMcpClient(c) PROVE TransportInv'
  <2>1. PICK s \in {"drop", "done"} : ToStep(c, s)
    BY <1>9 DEF DisconnectMcpClient
  <2>2. /\ step' \in [McpCalls -> Steps] /\ step'[c] = s
        /\ \A d \in McpCalls \ {c} : step'[d] = step[d]
    BY <1>0, <2>1, StepsTo DEF Steps
  <2>3. /\ does[c] = "remove" /\ uses' = [uses EXCEPT ![c] = current] /\ kindOf' \in {kindOf, NotPinned}
        /\ UNCHANGED <<does, tries, operationQueue, current, openClients, clientsOpened,
                       speaks, raced>>
    BY <1>9 DEF DisconnectMcpClient
  <2>4. uses' \in [McpCalls -> 0..clientsOpened] /\ \A d \in McpCalls \ {c} : uses'[d] = uses[d]
    BY <1>0, <2>3
  <2>5. Queued' = Queued /\ c \notin Queued
    BY <2>2, <2>3 DEF Queued
  <2>6. QueueInv'
    BY <1>0, <2>2, <2>3, <2>5 DEF QueueInv, Queued
  <2>7. UnracedInv'
    BY <1>0, <2>2, <2>3, <2>4, NoNewGetter DEF Getting, UnracedInv
  <2>8. TransportTypes'
    BY <1>0, <2>2, <2>3, <2>4 DEF TransportTypes, McpConnTypeOK
  <2>. QED
    BY <2>6, <2>7, <2>8 DEF TransportInv
<1>10. ASSUME NEW i \in 1..MaxClients, ServerDies(i) PROVE TransportInv'
  <2>1. /\ openClients' \subseteq openClients
        /\ UNCHANGED <<does, step, uses, tries, operationQueue, current, clientsOpened, kindOf,
                       speaks, raced>>
    BY <1>10 DEF ServerDies
  <2>. QED
    BY <1>0, <2>1 DEF TransportInv, TransportTypes, McpConnTypeOK, QueueInv, Queued, UnracedInv
<1>11. CASE UNCHANGED mcpConnVars
  BY <1>0, <1>11 DEF mcpConnVars, TransportInv, TransportTypes, McpConnTypeOK, QueueInv, Queued, UnracedInv
<1>. QED
  BY <1>1, <1>2, <1>3, <1>4, <1>5, <1>6, <1>7, <1>8, <1>9, <1>10, <1>11 DEF McpConnNext, Operation

(* At most one call is under way, so they are at most one.                 *)
LEMMA TransportHolds == TransportInv => McpConnectionInv
<1>. SUFFICES ASSUME TransportInv PROVE McpConnectionInv
  OBVIOUS
<1>. DEFINE S == {c \in McpCalls : does[c] = "call" /\ step[c] \notin {"start", "queued", "done"}}
<1>1. \A c, d \in S : c = d
  BY DEF TransportInv, QueueInv, Queued
<1>2. Cardinality(S) <= 1
  <2>1. CASE S = {}
    BY <2>1, FS_EmptySet
  <2>2. CASE S # {}
    <3>1. PICK c \in S : TRUE
      BY <2>2
    <3>2. S = {c}
      BY <1>1, <3>1
    <3>3. Cardinality({c}) = 1
      BY FS_Singleton
    <3>. HIDE DEF S
    <3>. QED
      BY <3>2, <3>3
  <2>. QED
    BY <2>1, <2>2
<1>. QED
  BY <1>2 DEF TransportInv, TransportTypes, UnracedInv, McpConnectionInv, CallsSerialized, NoneForgotten

(* Calls take turns on a transport, and none is left open and forgotten.   *)
THEOREM TransportsAreSafe == McpConnInit /\ [][McpConnNext]_mcpConnVars => []McpConnectionInv
<1>1. McpConnInit /\ [][McpConnNext]_mcpConnVars => []TransportInv
  BY TransportInit, TransportStep, PTL
<1>. QED
  BY <1>1, TransportHolds, PTL

-----------------------------------------------------------------------------
(* The certificates.  A process writes files, or has written them.         *)
Writing == {"emptiedCert", "wroteCert", "emptiedKey"}
Reading == {"reading", "readCert", "readKey", "readBoth"}
Doings == {Idle, "making", "made"} \cup Reading \cup Writing

IdentityTypes ==
  /\ certFile \in [Addresses -> Nat] /\ keyFile \in [Addresses -> Nat]
  /\ doing \in [Addresses -> [Writers -> Doings]] /\ making \in [Addresses -> [Writers -> Nat]]
  /\ read \in [Addresses -> Nat \X Nat] /\ pairs \in Nat
  /\ serving \in [Addresses -> Nat] /\ presented \in [Addresses -> SUBSET Nat]
  /\ configured \in Addresses /\ pins \in [Addresses -> Nat]
  /\ socket \in [to : Addresses \cup {0}, cert : Nat, is : {"none", "handshake", "verified", "open"},
                 queued : BOOLEAN]

(* What a process makes is a pair, and the one that writes is alone.       *)
MakingInv ==
  /\ \A a \in Addresses, w \in Writers :
       doing[a][w] \in {"making", "made"} \cup Writing => making[a][w] \in 1..(TornPem - 1)
  /\ \A a \in Addresses : doing[a]["regen"] \notin Reading

FilesInv ==
  \A a \in Addresses \ broken :
    /\ \A w \in Writers : doing[a][w] \in Writing =>
         /\ \A v \in Writers \ {w} : doing[a][v] \notin Writing
         /\ doing[a][w] \in {"wroteCert", "emptiedKey"} => certFile[a] = making[a][w]
    /\ (\A w \in Writers : doing[a][w] \notin Writing) =>
         certFile[a] = keyFile[a] /\ certFile[a] # TornPem

(* Where nothing was rotated the server's start is the only process; what  *)
(* it has read is what is there, and it makes a pair only when the server  *)
(* never had one.                                                          *)
FirstPair(a) ==
  /\ doing[a]["regen"] = Idle
  /\ doing[a]["start"] \in {"readCert", "readBoth"} => read[a][1] = certFile[a]
  /\ doing[a]["start"] \in {"readKey", "readBoth"} => read[a][2] = keyFile[a]
  /\ doing[a]["start"] \in {"making", "made"} \cup Writing => presented[a] = {}
  /\ doing[a]["start"] = "made" => certFile[a] = making[a]["start"]
  /\ presented[a] \subseteq {certFile[a]} \ {NoPem}
FirstPairInv == \A a \in Addresses \ (broken \cup rotated) : FirstPair(a)

PinsInv ==
  /\ \A a \in Addresses : serving[a] # 0 => serving[a] \in presented[a]
  /\ PinsArePresented
  /\ socket.is # "none" => socket.to \in Addresses
  /\ socket.is \in {"verified", "open"} =>
       /\ pins[configured] \in {0, socket.cert}
       /\ configured \notin misled => socket.to = configured

CertificatesInv == IdentityTypes /\ MakingInv /\ FilesInv /\ FirstPairInv /\ PinsInv

(* The invariant of the certificates holds at the start.                   *)
LEMMA CertificatesInit == IdentityInit => CertificatesInv
<1>. SUFFICES ASSUME IdentityInit PROVE CertificatesInv
  OBVIOUS
<1>1. PICK there \in SUBSET Addresses : certFile = [a \in Addresses |-> IF a \in there THEN a ELSE NoPem]
  BY DEF IdentityInit
<1>2. /\ certFile \in [Addresses -> Nat] /\ keyFile = certFile
      /\ \A a \in Addresses : certFile[a] # TornPem
  <2>1. \A a \in Addresses : a \in Nat /\ a # TornPem
    BY IdentityAssumption DEF TornPem
  <2>2. NoPem \in Nat /\ NoPem # TornPem
    BY DEF NoPem, TornPem
  <2>3. \A a \in Addresses : certFile[a] \in Nat /\ certFile[a] # TornPem
    BY <1>1, <2>1, <2>2, Zenon
  <2>4. certFile \in [Addresses -> Nat]
    BY <1>1, <2>1, <2>2, Zenon
  <2>. QED
    BY <2>3, <2>4 DEF IdentityInit
<1>3. IdentityTypes
  <2>1. Cardinality(Addresses) \in Nat
    BY IdentityAssumption, FS_CardinalityType
  <2>2. \A a \in Addresses : {certFile[a]} \ {NoPem} \in SUBSET Nat
    BY <1>2
  <2>3. presented \in [Addresses -> SUBSET Nat]
    BY <2>2 DEF IdentityInit
  <2>4. socket \in [to : Addresses \cup {0}, cert : Nat, is : {"none", "handshake", "verified", "open"},
                    queued : BOOLEAN]
    BY DEF IdentityInit, NoSocket
  <2>5. read \in [Addresses -> Nat \X Nat]
    BY DEF IdentityInit
  <2>. QED
    BY <1>2, <2>1, <2>3, <2>4, <2>5 DEF IdentityInit, IdentityTypes, Doings
<1>4. MakingInv
  BY DEF IdentityInit, MakingInv, Writing, Reading, Idle, Writers
<1>5. FilesInv
  BY <1>2 DEF IdentityInit, FilesInv, Writing, Idle
<1>6. FirstPairInv
  BY DEF IdentityInit, FirstPairInv, FirstPair, Writing, Idle, Writers
<1>7. PinsInv
  BY DEF IdentityInit, PinsInv, PinsArePresented, NoSocket
<1>. QED
  BY <1>3, <1>4, <1>5, <1>6, <1>7 DEF CertificatesInv

(* A function changed at one argument.                                     *)
LEMMA PutAt ==
  ASSUME NEW S, NEW T, NEW f \in [S -> T], NEW a \in S, NEW x \in T
  PROVE  /\ [f EXCEPT ![a] = x] \in [S -> T]
         /\ [f EXCEPT ![a] = x][a] = x
         /\ \A c \in S \ {a} : [f EXCEPT ![a] = x][c] = f[c]
OBVIOUS

(* A server runs with a pair it has made or read.                          *)
LEMMA ServedTypes ==
  ASSUME serving \in [Addresses -> Nat], presented \in [Addresses -> SUBSET Nat],
         NEW a \in Addresses, NEW x \in Nat,
         \/ UNCHANGED <<serving, presented>>
         \/ /\ serving' = [serving EXCEPT ![a] = x]
            /\ presented' = [presented EXCEPT ![a] = @ \cup {x}]
  PROVE  serving' \in [Addresses -> Nat] /\ presented' \in [Addresses -> SUBSET Nat]
<1>1. presented[a] \cup {x} \in SUBSET Nat
  OBVIOUS
<1>2. CASE UNCHANGED <<serving, presented>>
  BY <1>2
<1>3. CASE serving' = [serving EXCEPT ![a] = x] /\ presented' = [presented EXCEPT ![a] = @ \cup {x}]
  <2>1. serving' \in [Addresses -> Nat]
    BY <1>3, PutAt, Zenon
  <2>2. presented' \in [Addresses -> SUBSET Nat]
    BY <1>1, <1>3, PutAt, Zenon
  <2>. QED
    BY <2>1, <2>2
<1>. QED
  BY <1>2, <1>3

(* Each step keeps the types of the files and of the connection.           *)
LEMMA IdentityTypesStep == IdentityTypes /\ MakingInv /\ PinsInv /\ [IdentityNext]_identityVars => IdentityTypes'
<1>. SUFFICES ASSUME IdentityTypes, MakingInv, PinsInv, [IdentityNext]_identityVars PROVE IdentityTypes'
  OBVIOUS
<1>. USE DEF IdentityTypes
<1>1. \A x \in Doings, a \in Addresses, w \in Writers :
        Does(a, w, x) => doing' \in [Addresses -> [Writers -> Doings]]
  BY DEF Does
<1>2. /\ {Idle, "making", "made"} \subseteq Doings
      /\ {"reading", "readCert", "readKey", "readBoth"} \subseteq Doings
      /\ {"emptiedCert", "wroteCert", "emptiedKey"} \subseteq Doings
  BY DEF Doings, Reading, Writing
<1>3. "start" \in Writers /\ "regen" \in Writers /\ NoPem \in Nat /\ TornPem \in Nat
  BY DEF Writers, NoPem, TornPem
<1>4. NoSocket \in [to : Addresses \cup {0}, cert : Nat, is : {"none", "handshake", "verified", "open"},
                    queued : BOOLEAN]
  BY DEF NoSocket
<1>5. ASSUME NEW a \in Addresses, NEW w \in Writers, NewPair(a, w)
      PROVE  /\ doing' \in [Addresses -> [Writers -> Doings]] /\ pairs' \in Nat
             /\ making' \in [Addresses -> [Writers -> Nat]]
  BY <1>1, <1>2, <1>5 DEF NewPair
<1>10. CASE UNCHANGED identityVars
  BY <1>10 DEF identityVars, serverVars, clientVars
<1>11. CASE \E a \in Addresses : StartServer(a)
  <2>1. PICK a \in Addresses : StartServer(a)
    BY <1>11
  <2>2. doing' \in [Addresses -> [Writers -> Doings]]
    BY <2>1, <1>1, <1>2, <1>3 DEF StartServer
  <2>. QED
    BY <2>1, <2>2 DEF StartServer, clientVars
<1>12. CASE \E a \in Addresses : ReadCert(a) \/ ReadKey(a) \/ ReadFails(a)
  <2>1. PICK a \in Addresses : ReadCert(a) \/ ReadKey(a) \/ ReadFails(a)
    BY <1>12
  <2>2. doing' \in [Addresses -> [Writers -> Doings]]
    BY <2>1, <1>1, <1>2, <1>3 DEF ReadCert, ReadKey, ReadFails
  <2>3. read' \in [Addresses -> Nat \X Nat]
    <3>1. /\ \A x \in Nat, y \in Nat, z \in Nat : [<<x, y>> EXCEPT ![1] = z] = <<z, y>>
          /\ \A x \in Nat, y \in Nat, z \in Nat : [<<x, y>> EXCEPT ![2] = z] = <<x, z>>
      OBVIOUS
    <3>2. PICK x \in Nat, y \in Nat : read[a] = <<x, y>>
      OBVIOUS
    <3>3. PICK z \in Nat : \/ read' = [read EXCEPT ![a] = [@ EXCEPT ![1] = z]]
                          \/ read' = [read EXCEPT ![a] = [@ EXCEPT ![2] = z]]
                          \/ read' = [read EXCEPT ![a] = <<NoPem, NoPem>>]
      BY <2>1, <1>3 DEF ReadCert, ReadKey, ReadFails
    <3>4. PICK r \in Nat \X Nat : read' = [read EXCEPT ![a] = r]
      BY <3>1, <3>2, <3>3, <1>3
    <3>. QED
      BY <3>4
  <2>. QED
    BY <2>1, <2>2, <2>3 DEF ReadCert, ReadKey, ReadFails, clientVars
<1>13. CASE \E a \in Addresses : UsePair(a)
  <2>1. PICK a \in Addresses : UsePair(a)
    BY <1>13
  <2>2. read' \in [Addresses -> Nat \X Nat]
    BY <2>1 DEF UsePair
  <2>3. read[a][1] \in Nat
    BY DEF IdentityTypes
  <2>4. CASE ~Existing(read[a])
    BY <2>1, <2>2, <2>4, <1>5, <1>3 DEF UsePair, clientVars
  <2>5. CASE Existing(read[a])
    <3>1. doing' \in [Addresses -> [Writers -> Doings]]
      BY <2>1, <2>5, <1>1, <1>2, <1>3 DEF UsePair
    <3>2. \/ UNCHANGED <<serving, presented>>
          \/ /\ serving' = [serving EXCEPT ![a] = read[a][1]]
             /\ presented' = [presented EXCEPT ![a] = @ \cup {read[a][1]}]
      BY <2>1, <2>5 DEF UsePair
    <3>3. serving \in [Addresses -> Nat] /\ presented \in [Addresses -> SUBSET Nat]
      OBVIOUS
    <3>4. serving' \in [Addresses -> Nat] /\ presented' \in [Addresses -> SUBSET Nat]
      BY <2>3, <3>2, <3>3, ServedTypes, Zenon
    <3>. QED
      BY <2>1, <2>2, <2>5, <3>1, <3>4 DEF UsePair, clientVars
  <2>. QED
    BY <2>4, <2>5
<1>14. CASE \E a \in Addresses : Rotate(a)
  BY <1>14, <1>3, <1>5 DEF Rotate, clientVars
<1>15. CASE \E a \in Addresses : StopServer(a)
  <2>1. PICK a \in Addresses : StopServer(a)
    BY <1>15
  <2>2. serving' \in [Addresses -> Nat] /\ socket' \in {NoSocket, socket}
    BY <2>1 DEF StopServer
  <2>. QED
    BY <2>1, <2>2, <1>4 DEF StopServer
<1>16. CASE \E a \in Addresses : Reconfigure(a)
  <2>1. PICK a \in Addresses : Reconfigure(a)
    BY <1>16
  <2>2. socket' \in {NoSocket, socket}
    BY <2>1 DEF Reconfigure
  <2>. QED
    BY <2>1, <2>2, <1>4 DEF Reconfigure, serverVars
<1>17. CASE \E a \in Addresses, w \in Writers : WriteStep(a, w)
  <2>1. PICK a \in Addresses, w \in Writers : WriteStep(a, w)
    BY <1>17
  <2>2. making[a][w] \in Nat
    OBVIOUS
  <2>3. doing' \in [Addresses -> [Writers -> Doings]]
    <3>1. \E x \in {"emptiedCert", "wroteCert", "emptiedKey", "made"} : Does(a, w, x)
      BY <2>1 DEF WriteStep
    <3>. QED
      BY <3>1, <1>1, <1>2
  <2>4. certFile' \in [Addresses -> Nat]
    <3>1. \E x \in {TornPem, making[a][w], certFile[a]} : certFile' = [certFile EXCEPT ![a] = x]
      BY <2>1 DEF WriteStep
    <3>. QED
      BY <3>1, <2>2, <1>3
  <2>5. keyFile' \in [Addresses -> Nat]
    <3>1. \E x \in {TornPem, making[a][w], keyFile[a]} : keyFile' = [keyFile EXCEPT ![a] = x]
      BY <2>1 DEF WriteStep
    <3>. QED
      BY <3>1, <2>2, <1>3
  <2>. QED
    BY <2>1, <2>3, <2>4, <2>5 DEF WriteStep, clientVars
<1>18. CASE \E a \in Addresses, w \in Writers : Made(a, w)
  <2>1. PICK a \in Addresses, w \in Writers : Made(a, w)
    BY <1>18
  <2>2. doing' \in [Addresses -> [Writers -> Doings]]
    BY <2>1, <1>1, <1>2 DEF Made
  <2>3. making' \in [Addresses -> [Writers -> Nat]] /\ making[a][w] \in Nat
    BY <2>1 DEF Made
  <2>4. serving' \in [Addresses -> Nat] /\ presented' \in [Addresses -> SUBSET Nat]
    <3>1. \/ UNCHANGED <<serving, presented>>
          \/ /\ serving' = [serving EXCEPT ![a] = making[a][w]]
             /\ presented' = [presented EXCEPT ![a] = @ \cup {making[a][w]}]
      BY <2>1 DEF Made
    <3>2. serving \in [Addresses -> Nat] /\ presented \in [Addresses -> SUBSET Nat]
      OBVIOUS
    <3>. QED
      BY <2>3, <3>1, <3>2, ServedTypes, Zenon
  <2>. QED
    BY <2>1, <2>2, <2>3, <2>4 DEF Made, clientVars
<1>19. CASE \E a \in Addresses, w \in Writers : Die(a, w)
  <2>1. PICK a \in Addresses, w \in Writers : Die(a, w)
    BY <1>19
  <2>2. doing' \in [Addresses -> [Writers -> Doings]]
    BY <2>1, <1>1, <1>2 DEF Die
  <2>3. making' \in [Addresses -> [Writers -> Nat]]
    BY <2>1 DEF Die
  <2>4. read' \in [Addresses -> Nat \X Nat]
    BY <2>1 DEF Die
  <2>. QED
    BY <2>1, <2>2, <2>3, <2>4 DEF Die, clientVars
<1>20. CASE Dial
  <2>1. socket' = [to |-> configured, cert |-> 0, is |-> "handshake", queued |-> FALSE]
    BY <1>20 DEF Dial, NoSocket
  <2>. QED
    BY <1>20, <2>1 DEF Dial, serverVars
<1>21. CASE Listen
  BY <1>21 DEF Listen, serverVars
<1>22. CASE Certificate
  <2>1. serving[socket.to] \in Nat
    BY <1>22 DEF Certificate, PinsInv
  <2>2. PinAfter(configured, serving[socket.to]) \in Nat
    BY <2>1 DEF PinAfter
  <2>3. pins' \in [Addresses -> Nat]
    BY <1>22, <2>2 DEF Certificate
  <2>4. \/ socket' = [socket EXCEPT !.is = "open", !.cert = serving[socket.to]]
        \/ socket' = [socket EXCEPT !.is = "verified", !.cert = serving[socket.to]]
        \/ socket' = NoSocket
    BY <1>22 DEF Certificate
  <2>5. socket' \in [to : Addresses \cup {0}, cert : Nat, is : {"none", "handshake", "verified", "open"},
                     queued : BOOLEAN]
    BY <2>1, <2>4, <1>4
  <2>. QED
    BY <1>22, <2>3, <2>5 DEF Certificate, serverVars
<1>23. CASE Disconnect \/ ClearPin
  <2>1. pins' = pins \/ pins' = [pins EXCEPT ![configured] = 0]
    BY <1>23 DEF Disconnect, ClearPin
  <2>2. pins' \in [Addresses -> Nat]
    <3>1. pins \in [Addresses -> Nat] /\ configured \in Addresses /\ 0 \in Nat
      OBVIOUS
    <3>2. [pins EXCEPT ![configured] = 0] \in [Addresses -> Nat]
      BY <3>1, PutAt, Zenon
    <3>. HIDE DEF IdentityTypes
    <3>. QED
      BY <2>1, <3>1, <3>2
  <2>3. socket' = NoSocket \/ socket' = socket
    BY <1>23 DEF Disconnect, ClearPin
  <2>. QED
    BY <1>23, <2>2, <2>3, <1>4 DEF Disconnect, ClearPin, serverVars
<1>. QED
  BY <1>10, <1>11, <1>12, <1>13, <1>14, <1>15, <1>16, <1>17, <1>18, <1>19, <1>20, <1>21, <1>22,
     <1>23 DEF IdentityNext

(* What one process does to the files of one address is all that changes.  *)
LEMMA DoesOne ==
  ASSUME IdentityTypes, NEW a \in Addresses, NEW w \in Writers, NEW x, Does(a, w, x)
  PROVE  /\ doing'[a][w] = x
         /\ \A b \in Addresses, v \in Writers : (b # a \/ v # w) => doing'[b][v] = doing[b][v]
BY DEF IdentityTypes, Does

(* A process makes a pair from the step that numbers it until it is made.  *)
LEMMA MakingStep == IdentityTypes /\ MakingInv /\ [IdentityNext]_identityVars => MakingInv'
<1>. SUFFICES ASSUME IdentityTypes, MakingInv, [IdentityNext]_identityVars PROVE MakingInv'
  OBVIOUS
<1>. DEFINE Works == {"making", "made"} \cup Writing
<1>1. ASSUME making' = making, NEW a \in Addresses, NEW w \in Writers, NEW x, Does(a, w, x),
             x \in Works => doing[a][w] \in Works, w = "regen" => x \notin Reading
      PROVE  MakingInv'
  BY <1>1, DoesOne DEF MakingInv, Writers
<1>2. ASSUME NEW a \in Addresses, NEW w \in Writers, NewPair(a, w) PROVE MakingInv'
  <2>1. pairs + 1 \in 1..(TornPem - 1)
    BY <1>2, IdentityAssumption DEF NewPair, TornPem, IdentityTypes
  <2>2. making'[a][w] = pairs + 1
        /\ \A b \in Addresses, v \in Writers : (b # a \/ v # w) => making'[b][v] = making[b][v]
    BY <1>2 DEF NewPair, IdentityTypes
  <2>3. Does(a, w, "making")
    BY <1>2 DEF NewPair
  <2>. QED
    BY <2>1, <2>2, <2>3, DoesOne DEF MakingInv, Reading, Writers
<1>3. ASSUME NEW a \in Addresses, NEW w \in Writers, Does(a, w, Idle),
             making' = [making EXCEPT ![a][w] = 0]
      PROVE  MakingInv'
  <2>1. \A b \in Addresses, v \in Writers : (b # a \/ v # w) => making'[b][v] = making[b][v]
    BY <1>3 DEF IdentityTypes
  <2>. QED
    BY <1>3, <2>1, DoesOne DEF MakingInv, Reading, Writing, Idle, Writers
<1>4. CASE UNCHANGED <<doing, making>>
  BY <1>4 DEF MakingInv
<1>5. "start" \in Writers /\ "regen" \in Writers /\ "start" # "regen" /\ Idle \notin Works /\ Idle \notin Reading
  BY DEF Writers, Idle, Writing, Reading
<1>6. CASE \E a \in Addresses : StartServer(a) \/ ReadCert(a) \/ ReadKey(a) \/ ReadFails(a)
  <2>1. PICK a \in Addresses : StartServer(a) \/ ReadCert(a) \/ ReadKey(a) \/ ReadFails(a)
    BY <1>6
  <2>2. making' = making /\ \E x \in Reading : Does(a, "start", x)
    BY <2>1 DEF StartServer, ReadCert, ReadKey, ReadFails, Reading
  <2>3. \A x \in Reading : x \notin Works
    BY DEF Reading, Writing
  <2>. QED
    BY <2>2, <2>3, <1>1, <1>5
<1>7. CASE \E a \in Addresses : UsePair(a)
  <2>1. PICK a \in Addresses : UsePair(a)
    BY <1>7
  <2>2. CASE NewPair(a, "start")
    BY <2>2, <1>2, <1>5
  <2>3. CASE making' = making /\ Does(a, "start", Idle)
    BY <2>3, <1>1, <1>5
  <2>. QED
    BY <2>1, <2>2, <2>3 DEF UsePair
<1>8. CASE \E a \in Addresses : Rotate(a)
  BY <1>8, <1>2, <1>5 DEF Rotate
<1>9. CASE \E a \in Addresses, w \in Writers : WriteStep(a, w)
  <2>1. PICK a \in Addresses, w \in Writers : WriteStep(a, w)
    BY <1>9
  <2>2. making' = making /\ doing[a][w] \in Works
        /\ \E x \in {"emptiedCert", "wroteCert", "emptiedKey", "made"} : Does(a, w, x)
    BY <2>1 DEF WriteStep, Writing
  <2>3. \A x \in {"emptiedCert", "wroteCert", "emptiedKey", "made"} : x \notin Reading
    BY DEF Reading
  <2>. QED
    BY <2>2, <2>3, <1>1
<1>10. CASE \E a \in Addresses, w \in Writers : Made(a, w) \/ Die(a, w)
  BY <1>10, <1>3 DEF Made, Die
<1>. QED
  BY <1>4, <1>6, <1>7, <1>8, <1>9, <1>10
     DEF IdentityNext, identityVars, serverVars, clientVars, StopServer, Reconfigure, Dial, Listen,
         Certificate, Disconnect, ClearPin

(* The files of an address where no write was cut off fit while nobody     *)
(* writes them.                                                            *)
LEMMA FilesStep == IdentityTypes /\ MakingInv /\ FilesInv /\ [IdentityNext]_identityVars => FilesInv'
<1>. SUFFICES ASSUME IdentityTypes, MakingInv, FilesInv, [IdentityNext]_identityVars PROVE FilesInv'
  OBVIOUS
<1>1. ASSUME UNCHANGED <<certFile, keyFile>>, broken \subseteq broken',
             NEW a \in Addresses, NEW w \in Writers, NEW x, Does(a, w, x), x \notin Writing,
             doing[a][w] \notin Writing \/ a \in broken',
             \A b \in Addresses, v \in Writers : (b # a \/ v # w) => making'[b][v] = making[b][v]
      PROVE  FilesInv'
  <2>1. \A b \in Addresses, v \in Writers :
          b \notin broken' => /\ doing'[b][v] \in Writing <=> doing[b][v] \in Writing
                              /\ doing'[b][v] \in Writing => /\ doing'[b][v] = doing[b][v]
                                                             /\ making'[b][v] = making[b][v]
    BY <1>1, DoesOne
  <2>2. Addresses \ broken' \subseteq Addresses \ broken
    BY <1>1
  <2>. QED
    BY <2>1, <2>2, <1>1 DEF FilesInv
<1>2. "start" \in Writers /\ "regen" \in Writers /\ Idle \notin Writing /\ "making" \notin Writing
  BY DEF Writers, Idle, Writing
<1>3. ASSUME NEW a \in Addresses, NEW w \in Writers, NewPair(a, w) \/ making' = [making EXCEPT ![a][w] = 0]
      PROVE  \A b \in Addresses, v \in Writers : (b # a \/ v # w) => making'[b][v] = making[b][v]
  BY <1>3 DEF NewPair, IdentityTypes
<1>4. CASE UNCHANGED <<doing, making, certFile, keyFile, broken>>
  BY <1>4 DEF FilesInv
<1>6. CASE \E a \in Addresses : StartServer(a) \/ ReadCert(a) \/ ReadKey(a) \/ ReadFails(a)
  <2>1. PICK a \in Addresses : StartServer(a) \/ ReadCert(a) \/ ReadKey(a) \/ ReadFails(a)
    BY <1>6
  <2>2. /\ UNCHANGED <<making, certFile, keyFile>> /\ broken \subseteq broken'
        /\ \E x \in Reading : Does(a, "start", x)
    BY <2>1 DEF StartServer, ReadCert, ReadKey, ReadFails, Reading
  <2>3. doing[a]["start"] \notin Writing
    BY <2>1 DEF StartServer, ReadCert, ReadKey, ReadFails, Writing, Idle
  <2>4. \A x \in Reading : x \notin Writing
    BY DEF Reading, Writing
  <2>. QED
    BY <2>2, <2>3, <2>4, <1>1, <1>2
<1>7. CASE \E a \in Addresses : UsePair(a)
  <2>1. PICK a \in Addresses : UsePair(a)
    BY <1>7
  <2>2. UNCHANGED <<certFile, keyFile, broken>> /\ doing[a]["start"] \notin Writing
    BY <2>1 DEF UsePair, Writing
  <2>3. CASE NewPair(a, "start")
    <3>1. Does(a, "start", "making")
      BY <2>3 DEF NewPair
    <3>. QED
      BY <2>2, <2>3, <3>1, <1>1, <1>2, <1>3
  <2>4. CASE making' = making /\ Does(a, "start", Idle)
    BY <2>2, <2>4, <1>1, <1>2
  <2>. QED
    BY <2>1, <2>3, <2>4 DEF UsePair
<1>8. CASE \E a \in Addresses : Rotate(a)
  <2>1. PICK a \in Addresses : Rotate(a)
    BY <1>8
  <2>2. UNCHANGED <<certFile, keyFile, broken>> /\ doing[a]["regen"] \notin Writing
        /\ Does(a, "regen", "making") /\ NewPair(a, "regen")
    BY <2>1, <1>2 DEF Rotate, NewPair
  <2>. QED
    BY <2>2, <1>1, <1>2, <1>3
<1>9. CASE \E a \in Addresses, w \in Writers : WriteStep(a, w)
  <2>1. PICK a \in Addresses, w \in Writers : WriteStep(a, w)
    BY <1>9
  <2>2. PICK x \in {"emptiedCert", "wroteCert", "emptiedKey", "made"} : Does(a, w, x)
    BY <2>1 DEF WriteStep
  <2>3. /\ doing'[a][w] = x /\ broken \subseteq broken' /\ making' = making
        /\ \A b \in Addresses, v \in Writers : (b # a \/ v # w) => doing'[b][v] = doing[b][v]
    BY <2>1, <2>2, DoesOne DEF WriteStep
  <2>4. \A b \in Addresses : b # a => certFile'[b] = certFile[b] /\ keyFile'[b] = keyFile[b]
    BY <2>1 DEF WriteStep, IdentityTypes
  <2>5. ASSUME a \notin broken'
        PROVE  /\ \A v \in Writers \ {w} : doing[a][v] = Idle
               /\ a \notin broken
    <3>1. ~Clash(a)
      BY <2>1, <2>5 DEF WriteStep
    <3>2. doing[a][w] # Idle
      BY <2>1 DEF WriteStep, Idle
    <3>3. \A u, v \in Writers : u # w /\ v # w => u = v
      BY DEF Writers
    <3>. QED
      BY <3>1, <3>2, <3>3, <2>5, <2>3 DEF Clash
  <2>6. ASSUME a \notin broken', doing[a][w] = "making"
        PROVE  doing'[a][w] = "emptiedCert"
    BY <2>1, <2>6, DoesOne DEF WriteStep
  <2>7. ASSUME a \notin broken', doing[a][w] = "emptiedCert"
        PROVE  doing'[a][w] = "wroteCert" /\ certFile'[a] = making[a][w]
    BY <2>1, <2>7, DoesOne DEF WriteStep, IdentityTypes
  <2>8. ASSUME a \notin broken', doing[a][w] = "wroteCert"
        PROVE  doing'[a][w] = "emptiedKey" /\ certFile'[a] = making[a][w]
    <3>1. certFile'[a] = certFile[a] /\ doing'[a][w] = "emptiedKey"
      BY <2>1, <2>8, DoesOne DEF WriteStep, IdentityTypes
    <3>. QED
      BY <3>1, <2>5, <2>8 DEF FilesInv, Writing
  <2>9. ASSUME a \notin broken', doing[a][w] = "emptiedKey"
        PROVE  /\ doing'[a][w] = "made" /\ certFile'[a] = making[a][w] /\ keyFile'[a] = making[a][w]
               /\ making[a][w] # TornPem
    <3>1. certFile'[a] = certFile[a] /\ doing'[a][w] = "made" /\ keyFile'[a] = making[a][w]
      BY <2>1, <2>9, DoesOne DEF WriteStep, IdentityTypes
    <3>2. making[a][w] \in 1..(TornPem - 1)
      BY <2>9 DEF MakingInv, Writing
    <3>. QED
      BY <3>1, <3>2, <2>5, <2>9 DEF FilesInv, Writing, TornPem
  <2>10. doing[a][w] \in {"making", "emptiedCert", "wroteCert", "emptiedKey"}
    BY <2>1 DEF WriteStep
  <2>11. ASSUME NEW b \in Addresses \ broken', b # a
         PROVE  /\ \A v \in Writers : doing'[b][v] = doing[b][v]
                /\ certFile'[b] = certFile[b] /\ keyFile'[b] = keyFile[b] /\ b \notin broken
    BY <2>3, <2>4, <2>11
  <2>. QED
    BY <2>3, <2>5, <2>6, <2>7, <2>8, <2>9, <2>10, <2>11 DEF FilesInv, Writing, Idle
<1>10. CASE \E a \in Addresses, w \in Writers : Made(a, w) \/ Die(a, w)
  <2>1. PICK a \in Addresses, w \in Writers : Made(a, w) \/ Die(a, w)
    BY <1>10
  <2>2. /\ UNCHANGED <<certFile, keyFile>> /\ broken \subseteq broken' /\ Does(a, w, Idle)
        /\ making' = [making EXCEPT ![a][w] = 0]
        /\ doing[a][w] \notin Writing \/ a \in broken'
    BY <2>1 DEF Made, Die, Writing
  <2>. QED
    BY <2>2, <1>1, <1>2, <1>3
<1>. QED
  BY <1>4, <1>6, <1>7, <1>8, <1>9, <1>10
     DEF IdentityNext, identityVars, serverVars, clientVars, StopServer, Reconfigure, Dial, Listen,
         Certificate, Disconnect, ClearPin

(* A server whose certificate was never rotated has at most one.           *)
LEMMA FirstPairStep ==
  IdentityTypes /\ MakingInv /\ FilesInv /\ FirstPairInv /\ [IdentityNext]_identityVars => FirstPairInv'
<1>. SUFFICES ASSUME IdentityTypes, MakingInv, FilesInv, FirstPairInv, [IdentityNext]_identityVars,
                     NEW b \in Addresses, b \notin broken' \cup rotated'
              PROVE  FirstPair(b)'
  BY DEF FirstPairInv
<1>1. b \notin broken \cup rotated
  <2>1. ASSUME NEW a \in Addresses,
               \/ StartServer(a) \/ ReadCert(a) \/ ReadKey(a) \/ ReadFails(a) \/ UsePair(a)
               \/ Rotate(a) \/ StopServer(a) \/ Reconfigure(a)
        PROVE  b \notin broken \cup rotated
    BY <2>1 DEF serverVars, StartServer, ReadCert, ReadKey, ReadFails, UsePair, Rotate, StopServer,
                Reconfigure
  <2>2. ASSUME NEW a \in Addresses, NEW w \in Writers, WriteStep(a, w) \/ Made(a, w) \/ Die(a, w)
        PROVE  b \notin broken \cup rotated
    BY <2>2 DEF serverVars, WriteStep, Made, Die
  <2>3. CASE Dial \/ Listen \/ Certificate \/ Disconnect \/ ClearPin
    BY <2>3 DEF serverVars, Dial, Listen, Certificate, Disconnect, ClearPin
  <2>4. CASE UNCHANGED identityVars
    BY <2>4 DEF identityVars, serverVars
  <2>. QED
    BY <2>1, <2>2, <2>3, <2>4 DEF IdentityNext
<1>2. FirstPair(b)
  BY <1>1 DEF FirstPairInv
<1>3. ASSUME UNCHANGED <<doing[b], read[b], certFile[b], keyFile[b], presented[b], making[b]>>
      PROVE  FirstPair(b)'
  BY <1>2, <1>3 DEF FirstPair
<1>4. "start" \in Writers /\ "regen" \in Writers /\ "start" # "regen"
  BY DEF Writers
<1>5. \A a \in Addresses, w \in Writers, x \in Doings : Does(a, w, x) /\ a # b => doing'[b] = doing[b]
  BY DEF Does, IdentityTypes
<1>6. CASE UNCHANGED <<doing, read, certFile, keyFile, presented, making>>
  BY <1>6, <1>3
<1>7. CASE \E a \in Addresses : a # b /\ (StartServer(a) \/ ReadCert(a) \/ ReadKey(a) \/ ReadFails(a))
  <2>1. PICK a \in Addresses : a # b /\ (StartServer(a) \/ ReadCert(a) \/ ReadKey(a) \/ ReadFails(a))
    BY <1>7
  <2>2. doing'[b] = doing[b] /\ read'[b] = read[b]
    BY <2>1 DEF StartServer, ReadCert, ReadKey, ReadFails, Does, IdentityTypes
  <2>. QED
    BY <2>1, <2>2, <1>3 DEF StartServer, ReadCert, ReadKey, ReadFails
<1>8. CASE \E a \in Addresses : a # b /\ (UsePair(a) \/ Rotate(a))
  <2>1. PICK a \in Addresses : a # b /\ (UsePair(a) \/ Rotate(a))
    BY <1>8
  <2>2. doing'[b] = doing[b] /\ read'[b] = read[b] /\ making'[b] = making[b]
    BY <2>1 DEF UsePair, Rotate, NewPair, Does, IdentityTypes
  <2>3. presented'[b] = presented[b]
    BY <2>1 DEF UsePair, Rotate, IdentityTypes
  <2>. QED
    BY <2>1, <2>2, <2>3, <1>3 DEF UsePair, Rotate
<1>9. CASE \E a \in Addresses, w \in Writers : a # b /\ (WriteStep(a, w) \/ Made(a, w) \/ Die(a, w))
  <2>1. PICK a \in Addresses, w \in Writers : a # b /\ (WriteStep(a, w) \/ Made(a, w) \/ Die(a, w))
    BY <1>9
  <2>2. doing'[b] = doing[b]
    BY <2>1 DEF WriteStep, Made, Die, Does, IdentityTypes
  <2>3. certFile'[b] = certFile[b] /\ keyFile'[b] = keyFile[b]
    BY <2>1 DEF WriteStep, Made, Die, IdentityTypes
  <2>4. presented'[b] = presented[b] /\ making'[b] = making[b] /\ read'[b] = read[b]
    BY <2>1 DEF WriteStep, Made, Die, IdentityTypes
  <2>. QED
    BY <2>2, <2>3, <2>4, <1>3
<1>10. CASE StartServer(b)
  <2>1. doing'[b]["start"] = "reading" /\ doing'[b]["regen"] = doing[b]["regen"]
    BY <1>10, <1>4, DoesOne DEF StartServer
  <2>. QED
    BY <1>10, <2>1, <1>2 DEF StartServer, FirstPair, Writing
<1>11. CASE ReadCert(b)
  <2>1. doing'[b]["start"] = (IF doing[b]["start"] = "reading" THEN "readCert" ELSE "readBoth")
        /\ doing'[b]["regen"] = doing[b]["regen"]
    BY <1>11, <1>4, DoesOne DEF ReadCert
  <2>2. read'[b][1] = certFile[b] /\ read'[b][2] = read[b][2]
    BY <1>11 DEF ReadCert, IdentityTypes
  <2>. QED
    BY <1>11, <2>1, <2>2, <1>2 DEF ReadCert, FirstPair, Writing
<1>12. CASE ReadKey(b)
  <2>1. doing'[b]["start"] = (IF doing[b]["start"] = "reading" THEN "readKey" ELSE "readBoth")
        /\ doing'[b]["regen"] = doing[b]["regen"]
    BY <1>12, <1>4, DoesOne DEF ReadKey
  <2>2. read'[b][2] = keyFile[b] /\ read'[b][1] = read[b][1]
    BY <1>12 DEF ReadKey, IdentityTypes
  <2>. QED
    BY <1>12, <2>1, <2>2, <1>2 DEF ReadKey, FirstPair, Writing
<1>13. ~ReadFails(b) /\ ~Rotate(b)
  BY DEF ReadFails, Rotate
<1>14. CASE UsePair(b)
  <2>1. doing[b]["start"] = "readBoth" /\ read[b][1] = certFile[b] /\ read[b][2] = keyFile[b]
        /\ doing[b]["regen"] = Idle
    BY <1>14, <1>2 DEF UsePair, FirstPair
  <2>2. certFile[b] = keyFile[b] /\ certFile[b] # TornPem
    BY <2>1, <1>1 DEF FilesInv, Writers, Writing, Idle
  <2>3. CASE Existing(read[b])
    <3>1. doing'[b]["start"] = Idle /\ doing'[b]["regen"] = Idle
      BY <1>14, <2>1, <2>3, <1>4, DoesOne DEF UsePair
    <3>2. presented'[b] = presented[b] \cup {certFile[b]} /\ certFile[b] # NoPem
      BY <1>14, <2>1, <2>2, <2>3 DEF UsePair, Existing, IdentityTypes
    <3>. QED
      BY <1>14, <3>1, <3>2, <1>2 DEF UsePair, FirstPair, Idle, Writing
  <2>4. CASE ~Existing(read[b])
    <3>1. doing'[b]["start"] = "making" /\ doing'[b]["regen"] = Idle
      BY <1>14, <2>1, <2>4, <1>4, DoesOne DEF UsePair, NewPair
    <3>2. certFile[b] = NoPem
      BY <2>1, <2>2, <2>4 DEF Existing
    <3>3. presented'[b] = {}
      BY <1>14, <2>4, <3>2, <1>2 DEF UsePair, FirstPair
    <3>. QED
      BY <1>14, <3>1, <3>3 DEF UsePair, FirstPair, Writing
  <2>. QED
    BY <2>3, <2>4
<1>15. ASSUME NEW w \in Writers, WriteStep(b, w) PROVE FirstPair(b)'
  <2>1. w = "start"
    BY <1>15, <1>2 DEF WriteStep, FirstPair, Writers, Idle
  <2>2. /\ doing[b]["start"] \in {"making"} \cup Writing
        /\ doing'[b]["start"] \in {"made"} \cup Writing /\ doing'[b]["regen"] = Idle
        /\ doing'[b]["start"] = "made" => doing[b]["start"] = "emptiedKey"
    <3>1. doing[b]["start"] \in {"making"} \cup Writing
      BY <1>15, <2>1 DEF WriteStep, Writing
    <3>2. PICK x \in {"emptiedCert", "wroteCert", "emptiedKey", "made"} :
            Does(b, w, x) /\ (x = "made" => doing[b]["start"] = "emptiedKey")
      BY <1>15, <2>1 DEF WriteStep
    <3>. QED
      BY <3>1, <3>2, <2>1, <1>2, <1>4, DoesOne DEF Writing, FirstPair
  <2>3. presented'[b] = {} /\ making' = making
    BY <1>15, <2>2, <1>2 DEF WriteStep, FirstPair
  <2>4. ASSUME doing'[b]["start"] = "made" PROVE certFile'[b] = making[b]["start"]
    <3>1. certFile'[b] = certFile[b]
      BY <1>15, <2>1, <2>2, <2>4 DEF WriteStep, IdentityTypes
    <3>. QED
      BY <3>1, <2>2, <2>4, <1>1, <1>4 DEF FilesInv, Writing
  <2>. QED
    BY <2>2, <2>3, <2>4 DEF FirstPair, Writing
<1>16. ASSUME NEW w \in Writers, Made(b, w) PROVE FirstPair(b)'
  <2>1. w = "start"
    BY <1>16, <1>2 DEF Made, FirstPair, Writers, Idle
  <2>2. doing'[b]["start"] = Idle /\ doing'[b]["regen"] = Idle
    BY <1>16, <2>1, <1>2, <1>4, DoesOne DEF Made, FirstPair
  <2>3. presented'[b] = {} \cup {certFile[b]}
    BY <1>16, <2>1, <1>2 DEF Made, FirstPair, IdentityTypes
  <2>4. certFile[b] # NoPem
    BY <1>16, <2>1, <1>2, <1>4 DEF Made, FirstPair, MakingInv, NoPem, TornPem
  <2>. QED
    BY <1>16, <2>2, <2>3, <2>4 DEF Made, FirstPair, Writing, Idle
<1>17. ASSUME NEW w \in Writers, Die(b, w) PROVE FirstPair(b)'
  <2>1. w = "start"
    BY <1>17, <1>2 DEF Die, FirstPair, Writers
  <2>2. doing'[b]["start"] = Idle /\ doing'[b]["regen"] = Idle
    BY <1>17, <2>1, <1>2, <1>4, DoesOne DEF Die, FirstPair
  <2>. QED
    BY <1>17, <2>2, <1>2 DEF Die, FirstPair, Writing, Idle
<1>. QED
  BY <1>6, <1>7, <1>8, <1>9, <1>10, <1>11, <1>12, <1>13, <1>14, <1>15, <1>16, <1>17
     DEF IdentityNext, identityVars, serverVars, clientVars, StopServer, Reconfigure, Dial, Listen,
         Certificate, Disconnect, ClearPin

(* A pin is a certificate of the server it is for, unless the address was  *)
(* changed under a handshake.                                              *)
LEMMA PinsStep ==
  IdentityTypes /\ MakingInv /\ PinsInv /\ [IdentityNext]_identityVars => PinsInv'
<1>. SUFFICES ASSUME IdentityTypes, MakingInv, PinsInv, [IdentityNext]_identityVars PROVE PinsInv'
  OBVIOUS
<1>. DEFINE Served == \A a \in Addresses : serving[a] # 0 => serving[a] \in presented[a]
            Trusted == socket.is \in {"verified", "open"} =>
                         /\ pins[configured] \in {0, socket.cert}
                         /\ configured \notin misled => socket.to = configured
            Dialled == socket.is # "none" => socket.to \in Addresses
<1>1. Served /\ PinsArePresented /\ Dialled /\ Trusted
  BY DEF PinsInv
<1>2. ASSUME UNCHANGED <<configured, pins, misled>>, socket' \in {NoSocket, socket},
             \A a \in Addresses : presented[a] \subseteq presented'[a],
             \A a \in Addresses : serving'[a] # 0 /\ serving'[a] # serving[a] => serving'[a] \in presented'[a]
      PROVE  PinsInv'
  <2>1. Served'
    BY <1>1, <1>2
  <2>2. PinsArePresented'
    BY <1>1, <1>2 DEF PinsArePresented
  <2>3. Dialled' /\ Trusted'
    BY <1>1, <1>2 DEF NoSocket
  <2>. QED
    BY <2>1, <2>2, <2>3 DEF PinsInv
<1>3. CASE UNCHANGED <<serving, presented, clientVars>>
  BY <1>3, <1>2 DEF clientVars
<1>4. ASSUME NEW a \in Addresses, NEW x \in Nat, UNCHANGED <<configured, pins, misled, socket>>,
             serving' = [serving EXCEPT ![a] = x], presented' = [presented EXCEPT ![a] = @ \cup {x}]
      PROVE  PinsInv'
  <2>1. serving'[a] = x /\ \A c \in Addresses \ {a} : serving'[c] = serving[c]
    BY <1>4, PutAt DEF IdentityTypes
  <2>2. presented[a] \cup {x} \in SUBSET Nat
    BY DEF IdentityTypes
  <2>3. presented'[a] = presented[a] \cup {x} /\ \A c \in Addresses \ {a} : presented'[c] = presented[c]
    BY <1>4, <2>2, PutAt DEF IdentityTypes
  <2>. QED
    BY <1>4, <2>1, <2>3, <1>2
<1>5. CASE \E a \in Addresses : UsePair(a) \/ \E w \in Writers : Made(a, w)
  <2>1. PICK a \in Addresses : UsePair(a) \/ \E w \in Writers : Made(a, w)
    BY <1>5
  <2>2. read[a][1] \in Nat /\ \A w \in Writers : making[a][w] \in Nat
    BY DEF IdentityTypes
  <2>3. \/ UNCHANGED <<serving, presented>>
        \/ \E x \in Nat : /\ serving' = [serving EXCEPT ![a] = x]
                          /\ presented' = [presented EXCEPT ![a] = @ \cup {x}]
    BY <2>1, <2>2 DEF UsePair, Made
  <2>4. UNCHANGED clientVars
    BY <2>1 DEF UsePair, Made
  <2>. QED
    BY <2>3, <2>4, <1>3, <1>4 DEF clientVars
<1>6. CASE \E a \in Addresses : StopServer(a)
  <2>1. PICK a \in Addresses : StopServer(a)
    BY <1>6
  <2>2. \A c \in Addresses : serving'[c] \in {0, serving[c]}
    BY <2>1 DEF StopServer, IdentityTypes
  <2>3. socket' \in {NoSocket, socket}
    BY <2>1 DEF StopServer
  <2>. QED
    BY <2>1, <2>2, <2>3, <1>2 DEF StopServer
<1>7. CASE \E a \in Addresses : Reconfigure(a)
  <2>1. PICK a \in Addresses : Reconfigure(a)
    BY <1>7
  <2>2. UNCHANGED <<serving, presented, pins, misled>>
    BY <2>1 DEF Reconfigure, serverVars
  <2>3. Served' /\ PinsArePresented'
    BY <2>2, <1>1 DEF PinsArePresented
  <2>4. Dialled' /\ socket'.is \notin {"verified", "open"}
    BY <2>1, <1>1 DEF Reconfigure, NoSocket
  <2>. QED
    BY <2>3, <2>4 DEF PinsInv
<1>8. CASE Dial
  <2>1. socket'.to = configured /\ socket'.is = "handshake"
    BY <1>8 DEF Dial, NoSocket
  <2>2. Served' /\ PinsArePresented'
    BY <1>8, <1>1 DEF Dial, serverVars, PinsArePresented
  <2>3. configured \in Addresses
    BY DEF IdentityTypes
  <2>. QED
    BY <2>1, <2>2, <2>3 DEF PinsInv
<1>9. CASE Listen
  <2>1. Served' /\ PinsArePresented'
    BY <1>9, <1>1 DEF Listen, serverVars, PinsArePresented
  <2>2. socket'.to = socket.to /\ socket'.cert = socket.cert /\ socket.is # "none"
        /\ (socket'.is \in {"verified", "open"} => socket.is \in {"verified", "open"})
    BY <1>9 DEF Listen, IdentityTypes
  <2>3. Dialled' /\ Trusted'
    BY <1>9, <2>2, <1>1 DEF Listen
  <2>. QED
    BY <2>1, <2>3 DEF PinsInv
<1>10. CASE Certificate
  <2>. DEFINE cert == serving[socket.to]
              pin == PinAfter(configured, cert)
  <2>1. socket.to \in Addresses /\ configured \in Addresses
    BY <1>10, <1>1 DEF Certificate, IdentityTypes
  <2>2. pins'[configured] = pin /\ \A a \in Addresses \ {configured} : pins'[a] = pins[a]
    BY <1>10, <2>1 DEF Certificate, IdentityTypes
  <2>3. /\ misled \subseteq misled'
        /\ configured \notin misled' => socket.to = configured
    BY <1>10 DEF Certificate
  <2>4. UNCHANGED <<serving, presented, configured>>
    BY <1>10 DEF Certificate, serverVars
  <2>5. ASSUME configured \notin misled', pin # 0 PROVE pin \in presented[configured]
    BY <2>3, <2>5, <1>1, <2>1 DEF PinsArePresented, PinAfter
  <2>6. PinsArePresented'
    BY <2>2, <2>3, <2>4, <2>5, <1>1 DEF PinsArePresented
  <2>7. Served'
    BY <2>4, <1>1
  <2>8. /\ socket'.is # "none" => socket'.to = socket.to
        /\ socket'.is \in {"verified", "open"} => pin = cert /\ socket'.cert = cert
    BY <1>10 DEF Certificate, IdentityTypes, NoSocket
  <2>9. Dialled'
    BY <2>1, <2>8
  <2>10. Trusted'
    BY <2>2, <2>3, <2>4, <2>8
  <2>. QED
    BY <2>6, <2>7, <2>9, <2>10 DEF PinsInv
<1>11. CASE Disconnect
  BY <1>11, <1>2 DEF Disconnect, serverVars
<1>12. CASE ClearPin
  <2>1. /\ pins'[configured] = 0 /\ \A a \in Addresses \ {configured} : pins'[a] = pins[a]
        /\ UNCHANGED <<serving, presented, configured, socket, misled>>
    BY <1>12 DEF ClearPin, serverVars, IdentityTypes
  <2>2. Served' /\ PinsArePresented' /\ Dialled' /\ Trusted'
    BY <2>1, <1>1 DEF PinsArePresented
  <2>. QED
    BY <2>2 DEF PinsInv
<1>. QED
  BY <1>3, <1>4, <1>5, <1>6, <1>7, <1>8, <1>9, <1>10, <1>11, <1>12
     DEF IdentityNext, identityVars, serverVars, StartServer, ReadCert, ReadKey, ReadFails,
         Rotate, WriteStep, Die

(* What the state of the files and the pins says is what the run checks.   *)
LEMMA CertificatesHold == CertificatesInv => IdentityInv
<1>. SUFFICES ASSUME CertificatesInv PROVE IdentityInv
  OBVIOUS
<1>. USE DEF CertificatesInv
<1>1. FilesFit
  BY DEF FilesFit, FilesInv, Writing, Idle
<1>2. SameIdentity
  <2>. SUFFICES ASSUME NEW a \in Addresses \ (broken \cup rotated) PROVE Cardinality(presented[a]) <= 1
    BY DEF SameIdentity
  <2>1. presented[a] \subseteq {certFile[a]}
    BY DEF FirstPairInv, FirstPair
  <2>2. presented[a] = {} \/ presented[a] = {certFile[a]}
    BY <2>1
  <2>3. Cardinality({}) = 0 /\ Cardinality({certFile[a]}) = 1
    BY FS_EmptySet, FS_Singleton
  <2>4. CASE presented[a] = {}
    BY <2>3, <2>4
  <2>5. CASE presented[a] = {certFile[a]}
    BY <2>3, <2>5
  <2>. QED
    BY <2>2, <2>4, <2>5
<1>3. PinsArePresented /\ OpenIsTrusted
  BY DEF PinsInv, OpenIsTrusted
<1>. QED
  BY <1>1, <1>2, <1>3 DEF IdentityInv

(* A pin changes only to be removed.                                       *)
LEMMA PinsKept ==
  IdentityTypes /\ [IdentityNext]_identityVars
    => [\A a \in Addresses : pins[a] # 0 /\ pins'[a] # pins[a] => pins'[a] = 0]_pins
<1>. SUFFICES ASSUME IdentityTypes, IdentityNext, pins' # pins,
                     NEW a \in Addresses, pins[a] # 0, pins'[a] # pins[a]
              PROVE  pins'[a] = 0
  BY DEF identityVars, clientVars
<1>1. Certificate \/ ClearPin
  <2>1. ASSUME NEW b \in Addresses,
               \/ StartServer(b) \/ ReadCert(b) \/ ReadKey(b) \/ ReadFails(b) \/ UsePair(b)
               \/ Rotate(b) \/ StopServer(b) \/ Reconfigure(b)
        PROVE  FALSE
    BY <2>1 DEF clientVars, StartServer, ReadCert, ReadKey, ReadFails, UsePair, Rotate, StopServer,
                Reconfigure
  <2>2. ASSUME NEW b \in Addresses, NEW w \in Writers, WriteStep(b, w) \/ Made(b, w) \/ Die(b, w)
        PROVE  FALSE
    BY <2>2 DEF clientVars, WriteStep, Made, Die
  <2>3. CASE Dial \/ Listen \/ Disconnect
    BY <2>3 DEF Dial, Listen, Disconnect
  <2>. QED
    BY <2>1, <2>2, <2>3 DEF IdentityNext
<1>2. CASE Certificate
  BY <1>2 DEF Certificate, PinAfter, IdentityTypes
<1>3. CASE ClearPin
  BY <1>3 DEF ClearPin, IdentityTypes
<1>. QED
  BY <1>1, <1>2, <1>3

(* The invariant of the certificates is kept by every step.                *)
LEMMA CertificatesStep == CertificatesInv /\ [IdentityNext]_identityVars => CertificatesInv'
BY IdentityTypesStep, MakingStep, FilesStep, FirstPairStep, PinsStep DEF CertificatesInv

(* A server keeps its identity over restarts, and a client trusts only the *)
(* certificate it has pinned for the server's address.                     *)
THEOREM IdentitiesAreKept ==
  IdentityInit /\ [][IdentityNext]_identityVars => []IdentityInv /\ PinsAreKept
<1>1. IdentityInit /\ [][IdentityNext]_identityVars => []CertificatesInv
  BY CertificatesInit, CertificatesStep, PTL
<1>2. CertificatesInv /\ [IdentityNext]_identityVars
        => [\A a \in Addresses : pins[a] # 0 /\ pins'[a] # pins[a] => pins'[a] = 0]_pins
  BY PinsKept DEF CertificatesInv
<1>. QED
  BY <1>1, <1>2, CertificatesHold, PTL DEF PinsAreKept

-----------------------------------------------------------------------------
(* The settings.  What the file holds and what a process may write for.    *)
ConfigFiles == [form : {"missing", "torn", "plain", "sealed"}, key : Nat, content : Contents]
Purposes == Edits \cup [kind : {"look", "keep", "forget"}]
ProcStages == {"off", "locked", "setup", "resetting", "ready", "saving", "writing"}

SettingsTypes ==
  /\ stored \in ConfigFiles /\ found \in [Procs -> ConfigFiles]
  /\ stage \in [Procs -> ProcStages] /\ cipher \in [Procs -> Nat] /\ salts \in Nat
  /\ target \in [Procs -> Contents] /\ purpose \in [Procs -> Purposes]
  /\ pinned \subseteq Hosts /\ secret \in Secrets \cup {NoSecret} /\ undisturbed \in BOOLEAN

(* A file that is missing has never been written.                          *)
MissingInv == stored.form = "missing" => stored = NoFile /\ pinned = {} /\ secret = NoSecret

(* A process saves what it has read with its change made to it, sealed     *)
(* with the key the file has; one that forgets the secrets has copied them. *)
SavesWhatItRead(p) ==
  /\ stage[p] = "saving" =>
       /\ undisturbed => target[p] = Patched(Merged(found[p].content), purpose[p])
       /\ purpose[p].kind # "forget" /\ found[p].form = "sealed" => found[p].key = cipher[p]
       /\ undisturbed /\ purpose[p].kind = "forget" => found[p].content.secret \in backups
  /\ undisturbed /\ stage[p] = "resetting" => found[p].content.secret \in backups
SavingInv == \A p \in Procs : SavesWhatItRead(p)

(* Undisturbed, the process that writes is alone and has emptied the file, *)
(* which nobody reads meanwhile; it writes what the changes amount to.     *)
Means(p) ==
  LET meant == Patched([secret |-> secret, pins |-> pinned, whole |-> TRUE], purpose[p])
  IN  target[p].pins = meant.pins /\ target[p].secret = meant.secret
AloneInv ==
  undisturbed =>
    /\ \A p \in Procs : found[p].form # "torn"
    /\ \A p \in Procs : stage[p] = "writing" =>
         /\ stored = Torn /\ Means(p)
         /\ \A q \in Procs \ {p} : stage[q] # "writing"

FileInv == SettingsTypes /\ MissingInv /\ SavingInv /\ AloneInv /\ SettingsKept

(* The defaults, and the files made of settings.                           *)
LEMMA FilesOf ==
  /\ Defaults \in Contents /\ NoFile \in ConfigFiles /\ Torn \in ConfigFiles
  /\ \A c \in Contents : Plain(c) \in ConfigFiles /\ Merged(c) \in Contents /\ WithoutSecrets(c) \in Contents
  /\ \A c \in Contents, k \in Nat : Sealed(k, c) \in ConfigFiles
BY DEF Defaults, Contents, ConfigFiles, NoFile, Torn, Plain, Sealed, Merged, WithoutSecrets, NoSecret

(* A change keeps settings settings, and what it makes of the pins and the *)
(* secrets follows from them.                                              *)
LEMMA ChangesTo ==
  ASSUME NEW c \in Contents, NEW op \in Purposes
  PROVE  /\ Patched(c, op) \in Contents
         /\ \A d \in Contents : d.pins = c.pins /\ d.secret = c.secret
              => Patched(d, op).pins = Patched(c, op).pins /\ Patched(d, op).secret = Patched(c, op).secret
<1>1. CASE op.kind = "pin"
  <2>1. op.host \in Hosts
    BY <1>1 DEF Purposes, Edits
  <2>. QED
    BY <1>1, <2>1 DEF Patched, Contents
<1>2. CASE op.kind = "unpin"
  BY <1>2 DEF Patched, Contents
<1>3. CASE op.kind = "set"
  <2>1. op.value \in Secrets
    BY <1>3 DEF Purposes, Edits
  <2>. QED
    BY <1>3, <2>1 DEF Patched, Contents
<1>4. CASE op.kind = "repair"
  BY <1>4 DEF Patched, Contents
<1>5. CASE op.kind = "forget"
  BY <1>5 DEF Patched, Contents, WithoutSecrets
<1>6. CASE op.kind \in {"look", "keep"}
  BY <1>6 DEF Patched
<1>7. op.kind \in {"pin", "unpin", "set", "repair", "forget", "look", "keep"}
  BY DEF Purposes, Edits
<1>. QED
  BY <1>1, <1>2, <1>3, <1>4, <1>5, <1>6, <1>7

(* The first process finds the file as an earlier one has left it.         *)
LEMMA SettingsStart == SettingsInit => FileInv
<1>. SUFFICES ASSUME SettingsInit PROVE FileInv
  OBVIOUS
<1>1. stored \in ConfigFiles
  <2>1. CASE stored = NoFile
    BY <2>1, FilesOf
  <2>2. CASE stored \in {Plain(c) : c \in {x \in Contents : ~x.whole}}
    BY <2>2, FilesOf
  <2>3. CASE stored \in {Sealed(1, c) : c \in Contents}
    BY <2>3, FilesOf
  <2>. QED
    BY <2>1, <2>2, <2>3 DEF SettingsInit
<1>2. /\ stored.content.pins \subseteq Hosts /\ stored.content.secret \in Secrets \cup {NoSecret}
      /\ stored.form # "torn"
  BY <1>1 DEF ConfigFiles, Contents, SettingsInit, NoFile, Plain, Sealed
<1>3. SettingsTypes
  <2>1. [kind |-> "look"] \in Purposes
    BY DEF Purposes
  <2>2. "off" \in ProcStages
    BY DEF ProcStages
  <2>. QED
    BY <1>1, <1>2, <2>1, <2>2, FilesOf DEF SettingsInit, SettingsTypes, Locked
<1>4. MissingInv
  BY DEF SettingsInit, MissingInv, NoFile, Plain, Sealed, Defaults
<1>5. SavingInv /\ AloneInv /\ SettingsKept
  BY DEF SettingsInit, SavingInv, SavesWhatItRead, AloneInv, SettingsKept, NoFile
<1>. QED
  BY <1>3, <1>4, <1>5 DEF FileInv

(* What a step does to the other processes.                                *)
LEMMA OtherProcesses ==
  ASSUME SettingsTypes, NEW p \in Procs
  PROVE  /\ \A a : Reads(p, a) => \A q \in Procs \ {p} : stage'[q] = stage[q] /\ found'[q] = found[q]
         /\ Forgets(p) => /\ \A q \in Procs \ {p} : /\ found'[q] = found[q] /\ target'[q] = target[q]
                                                    /\ purpose'[q] = purpose[q]
                          /\ found'[p] = NoFile
         /\ \A c, w : Saves(p, c, w) => /\ \A q \in Procs \ {p} : /\ target'[q] = target[q]
                                                                  /\ purpose'[q] = purpose[q]
                                        /\ target'[p] = c /\ purpose'[p] = w
         /\ NewKey(p) => \A q \in Procs \ {p} : cipher'[q] = cipher[q]
BY DEF SettingsTypes, Reads, Forgets, Saves, NewKey

(* Each step keeps the types of the settings.                              *)
LEMMA SettingsTypesStep == SettingsTypes /\ [SettingsNext]_settingsVars => SettingsTypes'
<1>. SUFFICES ASSUME SettingsTypes, [SettingsNext]_settingsVars PROVE SettingsTypes'
  OBVIOUS
<1>. USE DEF SettingsTypes
<1>1. ASSUME NEW p \in Procs, NEW a \in ProcStages, Reads(p, a)
      PROVE  /\ stage' \in [Procs -> ProcStages] /\ found' \in [Procs -> ConfigFiles]
             /\ undisturbed' \in BOOLEAN
  BY <1>1 DEF Reads
<1>2. ASSUME NEW p \in Procs, Forgets(p)
      PROVE  /\ found' \in [Procs -> ConfigFiles] /\ target' \in [Procs -> Contents]
             /\ purpose' \in [Procs -> Purposes]
  <2>1. [kind |-> "look"] \in Purposes
    BY DEF Purposes
  <2>. QED
    BY <1>2, <2>1, FilesOf DEF Forgets
<1>3. ASSUME NEW p \in Procs, NEW c \in Contents, NEW w \in Purposes, Saves(p, c, w)
      PROVE  target' \in [Procs -> Contents] /\ purpose' \in [Procs -> Purposes]
  BY <1>3 DEF Saves
<1>4. ASSUME NEW p \in Procs, NewKey(p) PROVE salts' \in Nat /\ cipher' \in [Procs -> Nat]
  BY <1>4 DEF NewKey
<1>5. /\ [kind |-> "forget"] \in Purposes /\ [kind |-> "keep"] \in Purposes /\ Edits \subseteq Purposes
      /\ {"off", "locked", "setup", "resetting", "ready", "saving", "writing"} \subseteq ProcStages
  BY DEF Purposes, ProcStages
<1>6. stored.content \in Contents /\ \A p \in Procs : found[p].content \in Contents /\ found[p].key \in Nat
  BY DEF ConfigFiles
<1>10. CASE UNCHANGED settingsVars
  BY <1>10 DEF settingsVars
<1>11. ASSUME NEW p \in Procs, StartProc(p) PROVE SettingsTypes'
  <2>1. \E a \in ProcStages : Reads(p, a)
    BY <1>11, <1>5 DEF StartProc
  <2>. QED
    BY <1>11, <2>1, <1>1 DEF StartProc, historyVars
<1>12. ASSUME NEW p \in Procs, EnterPassphrase(p) PROVE SettingsTypes'
  <2>1. stage' \in [Procs -> ProcStages] /\ cipher' \in [Procs -> Nat]
    BY <1>12, <1>5, <1>6 DEF EnterPassphrase
  <2>. QED
    BY <1>12, <2>1, <1>2 DEF EnterPassphrase, historyVars
<1>13. ASSUME NEW p \in Procs, ConfirmReset(p) PROVE SettingsTypes'
  <2>1. stage' \in [Procs -> ProcStages]
    BY <1>13, <1>5 DEF ConfirmReset
  <2>. QED
    BY <1>13, <2>1 DEF ConfirmReset, historyVars
<1>14. ASSUME NEW p \in Procs, ResetPassphrase(p) PROVE SettingsTypes'
  <2>1. stage' \in [Procs -> ProcStages]
    BY <1>14, <1>5 DEF ResetPassphrase
  <2>2. AfterReset(found[p].content) \in Contents
    BY <1>6, FilesOf DEF AfterReset
  <2>3. target' \in [Procs -> Contents] /\ purpose' \in [Procs -> Purposes]
    BY <1>14, <2>2, <1>3, <1>5 DEF ResetPassphrase
  <2>. QED
    BY <1>14, <2>1, <2>3, <1>4 DEF ResetPassphrase, historyVars
<1>15. ASSUME NEW p \in Procs, NewPassphrase(p) PROVE SettingsTypes'
  <2>1. stored' = stored /\ pinned' = pinned /\ secret' = secret
    BY <1>15 DEF NewPassphrase, historyVars
  <2>2. CASE NewKey(p) /\ stage' = [stage EXCEPT ![p] = "ready"] /\ Forgets(p) /\ undisturbed' = undisturbed
    <3>1. stage' \in [Procs -> ProcStages]
      BY <2>2, <1>5
    <3>. QED
      BY <2>1, <2>2, <3>1, <1>2, <1>4
  <2>3. CASE stage' = [stage EXCEPT ![p] = "off"] /\ Forgets(p) /\ UNCHANGED <<cipher, salts, undisturbed>>
    <3>1. stage' \in [Procs -> ProcStages]
      BY <2>3, <1>5
    <3>. QED
      BY <2>1, <2>3, <3>1, <1>2
  <2>4. CASE NewKey(p) /\ Reads(p, "saving") /\ Saves(p, Merged(stored.content), [kind |-> "keep"])
    <3>1. "saving" \in ProcStages /\ Merged(stored.content) \in Contents
      BY <1>5, <1>6, FilesOf
    <3>. QED
      BY <2>1, <2>4, <3>1, <1>1, <1>3, <1>4, <1>5
  <2>5. stored.form \in {"missing", "torn", "plain", "sealed"}
    BY DEF ConfigFiles
  <2>. QED
    BY <1>15, <2>2, <2>3, <2>4, <2>5 DEF NewPassphrase
<1>16. ASSUME NEW p \in Procs, NEW op \in Edits, Operate(p, op) PROVE SettingsTypes'
  <2>1. UNCHANGED <<stored, cipher, salts, pinned, secret>>
    BY <1>16 DEF Operate, historyVars
  <2>2. CASE UNCHANGED <<stage, found, target, purpose>> /\ undisturbed' \in BOOLEAN
    BY <2>1, <2>2
  <2>3. CASE Reads(p, "saving") /\ Saves(p, Patched(Merged(Loaded(p)), op), op)
    <3>1. Loaded(p) \in Contents
      BY <1>6, FilesOf DEF Loaded
    <3>2. Patched(Merged(Loaded(p)), op) \in Contents /\ op \in Purposes /\ "saving" \in ProcStages
      BY <3>1, FilesOf, ChangesTo, <1>5
    <3>. QED
      BY <2>1, <2>3, <3>2, <1>1, <1>3
  <2>. QED
    BY <1>16, <2>2, <2>3 DEF Operate
<1>17. ASSUME NEW p \in Procs, Truncate(p) PROVE SettingsTypes'
  <2>1. stage' \in [Procs -> ProcStages]
    BY <1>17, <1>5 DEF Truncate
  <2>. QED
    BY <1>17, <2>1, FilesOf DEF Truncate, historyVars
<1>18. ASSUME NEW p \in Procs, Write(p) PROVE SettingsTypes'
  <2>1. stage' \in [Procs -> ProcStages]
    BY <1>18, <1>5 DEF Write
  <2>2. stored' \in ConfigFiles
    BY <1>18, FilesOf DEF Write
  <2>3. Patched([secret |-> secret, pins |-> pinned, whole |-> TRUE], purpose[p]) \in Contents
    <3>1. [secret |-> secret, pins |-> pinned, whole |-> TRUE] \in Contents
      BY DEF Contents
    <3>. QED
      BY <3>1, ChangesTo
  <2>4. pinned' \subseteq Hosts /\ secret' \in Secrets \cup {NoSecret}
    BY <1>18, <2>3 DEF Write, Contents
  <2>. QED
    BY <1>18, <2>1, <2>2, <2>4, <1>2 DEF Write
<1>19. ASSUME NEW p \in Procs, Stop(p) PROVE SettingsTypes'
  <2>1. stage' \in [Procs -> ProcStages] /\ cipher' \in [Procs -> Nat]
    BY <1>19, <1>5 DEF Stop
  <2>. QED
    BY <1>19, <2>1, <1>2 DEF Stop, historyVars
<1>. QED
  BY <1>10, <1>11, <1>12, <1>13, <1>14, <1>15, <1>16, <1>17, <1>18, <1>19 DEF SettingsNext

(* A step of a process leaves what the others know alone.                  *)
LEMMA OthersStay ==
  ASSUME SettingsTypes, NEW p \in Procs,
         \/ StartProc(p) \/ EnterPassphrase(p) \/ ConfirmReset(p) \/ ResetPassphrase(p)
         \/ NewPassphrase(p) \/ Truncate(p) \/ Write(p) \/ Stop(p)
         \/ \E op \in Edits : Operate(p, op)
  PROVE  /\ \A q \in Procs \ {p} : /\ stage'[q] = stage[q] /\ found'[q] = found[q]
                                   /\ target'[q] = target[q] /\ purpose'[q] = purpose[q]
                                   /\ cipher'[q] = cipher[q]
         /\ undisturbed' => undisturbed
         /\ backups \subseteq backups'
<1>1. stage \in [Procs -> ProcStages] /\ cipher \in [Procs -> Nat]
  BY DEF SettingsTypes
<1>2. \A x : /\ stage' = [stage EXCEPT ![p] = x] => \A q \in Procs \ {p} : stage'[q] = stage[q]
             /\ cipher' = [cipher EXCEPT ![p] = x] => \A q \in Procs \ {p} : cipher'[q] = cipher[q]
  BY <1>1
<1>3. CASE StartProc(p)
  BY <1>3, OtherProcesses DEF StartProc, Reads
<1>4. CASE EnterPassphrase(p)
  BY <1>4, <1>2, OtherProcesses DEF EnterPassphrase
<1>5. CASE ConfirmReset(p)
  BY <1>5, <1>2 DEF ConfirmReset
<1>6. CASE ResetPassphrase(p)
  BY <1>6, <1>2, OtherProcesses DEF ResetPassphrase
<1>7. CASE NewPassphrase(p)
  <2>1. stored.form \in {"missing", "torn", "plain", "sealed"}
    BY DEF SettingsTypes, ConfigFiles
  <2>2. CASE NewKey(p) /\ stage' = [stage EXCEPT ![p] = "ready"] /\ Forgets(p) /\ UNCHANGED <<backups, undisturbed>>
    BY <2>2, <1>2, OtherProcesses
  <2>3. CASE stage' = [stage EXCEPT ![p] = "off"] /\ Forgets(p) /\ UNCHANGED <<cipher, backups, undisturbed>>
    BY <2>3, <1>2, OtherProcesses
  <2>4. CASE /\ NewKey(p) /\ backups' = backups \cup {stored.content.secret} /\ Reads(p, "saving")
             /\ Saves(p, Merged(stored.content), [kind |-> "keep"])
    <3>1. undisturbed' => undisturbed
      BY <2>4 DEF Reads
    <3>. QED
      BY <2>4, <3>1, OtherProcesses
  <2>. QED
    BY <1>7, <2>1, <2>2, <2>3, <2>4 DEF NewPassphrase
<1>8. CASE Truncate(p)
  BY <1>8, <1>2 DEF Truncate
<1>9. CASE Write(p)
  BY <1>9, <1>2, OtherProcesses DEF Write
<1>10. CASE Stop(p)
  BY <1>10, <1>2, OtherProcesses DEF Stop
<1>11. ASSUME NEW op \in Edits, Operate(p, op)
       PROVE  /\ \A q \in Procs \ {p} : /\ stage'[q] = stage[q] /\ found'[q] = found[q]
                                        /\ target'[q] = target[q] /\ purpose'[q] = purpose[q]
                                        /\ cipher'[q] = cipher[q]
              /\ undisturbed' => undisturbed
              /\ backups \subseteq backups'
  <2>1. UNCHANGED <<cipher, backups>>
    BY <1>11 DEF Operate
  <2>2. CASE UNCHANGED <<stage, found, target, purpose>> /\ (undisturbed' => undisturbed)
    BY <2>1, <2>2
  <2>3. CASE Reads(p, "saving") /\ Saves(p, Patched(Merged(Loaded(p)), op), op)
    <3>1. undisturbed' => undisturbed
      BY <2>3 DEF Reads
    <3>. QED
      BY <2>1, <2>3, <3>1, OtherProcesses
  <2>. QED
    BY <1>11, <2>2, <2>3 DEF Operate
<1>. QED
  BY <1>3, <1>4, <1>5, <1>6, <1>7, <1>8, <1>9, <1>10, <1>11

(* What a process reads becomes what it has found.                         *)
LEMMA ReadsIt ==
  ASSUME SettingsTypes, NEW p \in Procs, NEW a, Reads(p, a)
  PROVE  stage'[p] = a /\ found'[p] = stored /\ (undisturbed' => undisturbed /\ stored.form # "torn")
BY DEF Reads, SettingsTypes

(* A process that saves has read what it changes.                          *)
LEMMA SavingStep == SettingsTypes /\ SavingInv /\ [SettingsNext]_settingsVars => SavingInv'
<1>. SUFFICES ASSUME SettingsTypes, SavingInv, [SettingsNext]_settingsVars PROVE SavingInv'
  OBVIOUS
<1>1. ASSUME UNCHANGED settingsVars PROVE SavingInv'
  BY <1>1 DEF SavingInv, SavesWhatItRead, settingsVars
<1>2. ASSUME NEW p \in Procs, SavesWhatItRead(p)',
             \/ StartProc(p) \/ EnterPassphrase(p) \/ ConfirmReset(p) \/ ResetPassphrase(p)
             \/ NewPassphrase(p) \/ Truncate(p) \/ Write(p) \/ Stop(p)
             \/ \E op \in Edits : Operate(p, op)
      PROVE  SavingInv'
  <2>1. ASSUME NEW q \in Procs \ {p} PROVE SavesWhatItRead(q)'
    <3>1. SavesWhatItRead(q)
      BY DEF SavingInv
    <3>2. /\ stage'[q] = stage[q] /\ found'[q] = found[q] /\ target'[q] = target[q]
          /\ purpose'[q] = purpose[q] /\ cipher'[q] = cipher[q]
          /\ undisturbed' => undisturbed
          /\ backups \subseteq backups'
      BY <1>2, OthersStay
    <3>. QED
      BY <3>1, <3>2 DEF SavesWhatItRead
  <2>. QED
    BY <1>2, <2>1 DEF SavingInv
<1>3. ASSUME NEW p \in Procs, stage'[p] \notin {"saving", "resetting"} PROVE SavesWhatItRead(p)'
  BY <1>3 DEF SavesWhatItRead
<1>4. \A p \in Procs : \A x : stage' = [stage EXCEPT ![p] = x] => stage'[p] = x
  BY DEF SettingsTypes
<1>5. ASSUME NEW p \in Procs, StartProc(p) PROVE SavesWhatItRead(p)'
  BY <1>5, <1>3, ReadsIt DEF StartProc
<1>6. ASSUME NEW p \in Procs, EnterPassphrase(p) \/ Truncate(p) \/ Write(p) \/ Stop(p)
      PROVE  SavesWhatItRead(p)'
  BY <1>6, <1>3, <1>4 DEF EnterPassphrase, Truncate, Write, Stop
<1>7. ASSUME NEW p \in Procs, ConfirmReset(p) PROVE SavesWhatItRead(p)'
  <2>1. stage'[p] = "resetting" /\ found' = found
    BY <1>7, <1>4 DEF ConfirmReset
  <2>2. undisturbed' => found[p].content.secret \in backups'
    BY <1>7 DEF ConfirmReset
  <2>. QED
    BY <2>1, <2>2 DEF SavesWhatItRead
<1>8. ASSUME NEW p \in Procs, ResetPassphrase(p) PROVE SavesWhatItRead(p)'
  <2>1. stage'[p] = "saving" /\ UNCHANGED <<found, backups, undisturbed>>
    BY <1>8, <1>4 DEF ResetPassphrase
  <2>2. target'[p] = AfterReset(found[p].content) /\ purpose'[p] = [kind |-> "forget"]
    BY <1>8, OtherProcesses DEF ResetPassphrase
  <2>3. AfterReset(found[p].content) = Patched(Merged(found[p].content), [kind |-> "forget"])
    <3>1. found[p].content \in Contents
      BY DEF SettingsTypes, ConfigFiles
    <3>2. Patched(Merged(found[p].content), [kind |-> "forget"]) = WithoutSecrets(Merged(found[p].content))
      BY DEF Patched
    <3>. QED
      BY <3>1, <3>2 DEF AfterReset, Merged, WithoutSecrets, Contents
  <2>4. undisturbed => found[p].content.secret \in backups
    BY <1>8 DEF ResetPassphrase, SavingInv, SavesWhatItRead
  <2>. QED
    BY <2>1, <2>2, <2>3, <2>4 DEF SavesWhatItRead
<1>9. ASSUME NEW p \in Procs, NewPassphrase(p) PROVE SavesWhatItRead(p)'
  <2>1. stored.form \in {"missing", "torn", "plain", "sealed"}
    BY DEF SettingsTypes, ConfigFiles
  <2>2. CASE stage' = [stage EXCEPT ![p] = "ready"] \/ stage' = [stage EXCEPT ![p] = "off"]
    BY <2>2, <1>3, <1>4
  <2>3. CASE /\ found[p].form = "plain" /\ stored.form \in {"plain", "torn"} /\ Reads(p, "saving")
             /\ Saves(p, Merged(stored.content), [kind |-> "keep"])
    <3>1. stage'[p] = "saving" /\ found'[p] = stored
      BY <2>3, ReadsIt
    <3>2. target'[p] = Merged(stored.content) /\ purpose'[p] = [kind |-> "keep"]
      BY <2>3, OtherProcesses
    <3>3. Merged(stored.content) = Patched(Merged(stored.content), [kind |-> "keep"])
      BY DEF Patched
    <3>. QED
      BY <2>3, <3>1, <3>2, <3>3 DEF SavesWhatItRead
  <2>. QED
    BY <1>9, <2>1, <2>2, <2>3 DEF NewPassphrase
<1>10. ASSUME NEW p \in Procs, NEW op \in Edits, Operate(p, op) PROVE SavesWhatItRead(p)'
  <2>1. UNCHANGED <<cipher, backups>>
    BY <1>10 DEF Operate
  <2>2. CASE stage' = stage
    BY <1>10, <2>2, <1>3 DEF Operate
  <2>3. CASE CanLoad(p) /\ Reads(p, "saving") /\ Saves(p, Patched(Merged(Loaded(p)), op), op)
    <3>1. /\ stage'[p] = "saving" /\ found'[p] = stored
          /\ undisturbed' => stored.form # "torn"
      BY <2>3, ReadsIt
    <3>2. target'[p] = Patched(Merged(Loaded(p)), op) /\ purpose'[p] = op
      BY <2>3, OtherProcesses
    <3>3. undisturbed' => Loaded(p) = stored.content
      BY <2>3, <3>1 DEF Loaded
    <3>4. stored.form = "sealed" => stored.key = cipher[p]
      BY <2>3 DEF CanLoad
    <3>5. op.kind # "forget"
      BY DEF Edits
    <3>. QED
      BY <2>1, <3>1, <3>2, <3>3, <3>4, <3>5 DEF SavesWhatItRead
  <2>. QED
    BY <1>10, <2>2, <2>3 DEF Operate
<1>. QED
  BY <1>1, <1>2, <1>5, <1>6, <1>7, <1>8, <1>9, <1>10 DEF SettingsNext

(* The file changes when it is emptied and when it is filled.              *)
LEMMA FileStays ==
  ASSUME NEW p \in Procs,
         \/ StartProc(p) \/ EnterPassphrase(p) \/ ConfirmReset(p) \/ ResetPassphrase(p)
         \/ NewPassphrase(p) \/ Stop(p) \/ \E op \in Edits : Operate(p, op)
  PROVE  UNCHANGED <<stored, pinned, secret>>
BY DEF StartProc, EnterPassphrase, ConfirmReset, ResetPassphrase, NewPassphrase, Stop, Operate, historyVars

(* A process that is undisturbed finds a whole file, and does not write.   *)
LEMMA FindsWhole ==
  ASSUME SettingsTypes, AloneInv, NEW p \in Procs,
         \/ StartProc(p) \/ EnterPassphrase(p) \/ ConfirmReset(p) \/ ResetPassphrase(p)
         \/ NewPassphrase(p) \/ Stop(p) \/ \E op \in Edits : Operate(p, op)
  PROVE  /\ undisturbed' => found'[p].form # "torn"
         /\ stage'[p] # "writing"
<1>1. NoFile.form # "torn" /\ (Forgets(p) => found'[p] = NoFile)
  BY OtherProcesses DEF NoFile
<1>2. \A x : stage' = [stage EXCEPT ![p] = x] => stage'[p] = x
  BY DEF SettingsTypes
<1>3. undisturbed => found[p].form # "torn"
  BY DEF AloneInv
<1>4. CASE StartProc(p)
  BY <1>4, ReadsIt DEF StartProc
<1>5. CASE EnterPassphrase(p) \/ Stop(p)
  BY <1>5, <1>1, <1>2 DEF EnterPassphrase, Stop
<1>6. CASE ConfirmReset(p) \/ ResetPassphrase(p)
  <2>1. found' = found /\ (stage'[p] = "resetting" \/ stage'[p] = "saving")
    BY <1>6, <1>2 DEF ConfirmReset, ResetPassphrase
  <2>2. undisturbed' => undisturbed
    BY <1>6 DEF ConfirmReset, ResetPassphrase
  <2>. QED
    BY <2>1, <2>2, <1>3
<1>7. CASE NewPassphrase(p)
  <2>1. stored.form \in {"missing", "torn", "plain", "sealed"}
    BY DEF SettingsTypes, ConfigFiles
  <2>2. CASE (stage' = [stage EXCEPT ![p] = "ready"] \/ stage' = [stage EXCEPT ![p] = "off"]) /\ Forgets(p)
    BY <2>2, <1>1, <1>2
  <2>3. CASE Reads(p, "saving")
    BY <2>3, ReadsIt
  <2>. QED
    BY <1>7, <2>1, <2>2, <2>3 DEF NewPassphrase
<1>8. ASSUME NEW op \in Edits, Operate(p, op)
      PROVE  (undisturbed' => found'[p].form # "torn") /\ stage'[p] # "writing"
  <2>1. CASE UNCHANGED <<stage, found>> /\ (undisturbed' => undisturbed)
    BY <1>8, <2>1, <1>3 DEF Operate
  <2>2. CASE Reads(p, "saving")
    BY <2>2, ReadsIt
  <2>. QED
    BY <1>8, <2>1, <2>2 DEF Operate
<1>. QED
  BY <1>4, <1>5, <1>6, <1>7, <1>8

(* Undisturbed, one process writes at a time, what the changes amount to.  *)
LEMMA AloneStep ==
  SettingsTypes /\ MissingInv /\ SavingInv /\ AloneInv /\ SettingsKept /\ [SettingsNext]_settingsVars
    => AloneInv' /\ SettingsKept' /\ MissingInv'
<1>. SUFFICES ASSUME SettingsTypes, MissingInv, SavingInv, AloneInv, SettingsKept,
                     [SettingsNext]_settingsVars
              PROVE  AloneInv' /\ SettingsKept' /\ MissingInv'
  OBVIOUS
<1>1. CASE UNCHANGED settingsVars
  BY <1>1 DEF settingsVars, AloneInv, Means, SettingsKept, MissingInv
<1>2. ASSUME NEW p \in Procs,
             \/ StartProc(p) \/ EnterPassphrase(p) \/ ConfirmReset(p) \/ ResetPassphrase(p)
             \/ NewPassphrase(p) \/ Stop(p) \/ \E op \in Edits : Operate(p, op)
      PROVE  AloneInv' /\ SettingsKept' /\ MissingInv'
  <2>1. UNCHANGED <<stored, pinned, secret>>
    BY <1>2, FileStays
  <2>2. /\ \A q \in Procs \ {p} : /\ stage'[q] = stage[q] /\ found'[q] = found[q]
                                  /\ target'[q] = target[q] /\ purpose'[q] = purpose[q]
        /\ undisturbed' => undisturbed
    BY <1>2, OthersStay
  <2>3. (undisturbed' => found'[p].form # "torn") /\ stage'[p] # "writing"
    BY <1>2, FindsWhole
  <2>4. \A q \in Procs \ {p} : Means(q) => Means(q)'
    BY <2>1, <2>2 DEF Means
  <2>5. AloneInv'
    BY <2>1, <2>2, <2>3, <2>4 DEF AloneInv
  <2>. QED
    BY <2>1, <2>2, <2>5 DEF SettingsKept, MissingInv
<1>3. ASSUME NEW p \in Procs, Truncate(p) PROVE AloneInv' /\ SettingsKept' /\ MissingInv'
  <2>1. /\ stored' = Torn /\ stage'[p] = "writing" /\ stage[p] = "saving"
        /\ UNCHANGED <<found, target, purpose, pinned, secret>>
        /\ undisturbed' => undisturbed /\ stored = found[p]
    BY <1>3 DEF Truncate, SettingsTypes, historyVars
  <2>2. \A q \in Procs \ {p} : stage'[q] = stage[q]
    BY <1>3, OthersStay
  <2>3. SettingsKept' /\ MissingInv'
    BY <2>1 DEF SettingsKept, MissingInv, Torn
  <2>4. ASSUME undisturbed' PROVE Means(p)
    <3>. DEFINE c == Merged(found[p].content)
                d == [secret |-> secret, pins |-> pinned, whole |-> TRUE]
    <3>1. stored = found[p] /\ undisturbed /\ stored.form # "torn"
      BY <2>1, <2>4 DEF AloneInv
    <3>2. stored.form \in {"missing", "plain", "sealed"} /\ stored.content \in Contents
      BY <3>1 DEF SettingsTypes, ConfigFiles
    <3>3. stored.content.pins = pinned /\ stored.content.secret = secret
      BY <3>1, <3>2 DEF SettingsKept, MissingInv, NoFile, Defaults
    <3>4. c \in Contents /\ d \in Contents /\ c.pins = d.pins /\ c.secret = d.secret
      BY <3>1, <3>2, <3>3 DEF Merged, Contents
    <3>5. target[p] = Patched(c, purpose[p])
      BY <2>1, <3>1 DEF SavingInv, SavesWhatItRead
    <3>6. purpose[p] \in Purposes
      BY DEF SettingsTypes
    <3>7. /\ Patched(d, purpose[p]).pins = Patched(c, purpose[p]).pins
          /\ Patched(d, purpose[p]).secret = Patched(c, purpose[p]).secret
      <4>. HIDE DEF c, d
      <4>. QED
        BY <3>4, <3>6, ChangesTo
    <3>. QED
      BY <3>5, <3>7 DEF Means
  <2>5. undisturbed' => Means(p)'
    BY <2>1, <2>4 DEF Means
  <2>6. undisturbed' => \A q \in Procs : stage[q] # "writing"
    BY <2>1 DEF AloneInv, Torn
  <2>. QED
    BY <2>1, <2>2, <2>3, <2>5, <2>6 DEF AloneInv
<1>4. ASSUME NEW p \in Procs, Write(p) PROVE AloneInv' /\ SettingsKept' /\ MissingInv'
  <2>1. /\ stage[p] = "writing" /\ stage'[p] = "ready" /\ stored' = Sealed(cipher[p], target[p])
        /\ found'[p] = NoFile /\ undisturbed' = undisturbed
    BY <1>4, OtherProcesses DEF Write, SettingsTypes
  <2>2. \A q \in Procs \ {p} : stage'[q] = stage[q] /\ found'[q] = found[q]
    BY <1>4, OthersStay
  <2>3. /\ pinned' = Patched([secret |-> secret, pins |-> pinned, whole |-> TRUE], purpose[p]).pins
        /\ secret' = Patched([secret |-> secret, pins |-> pinned, whole |-> TRUE], purpose[p]).secret
    BY <1>4 DEF Write
  <2>4. undisturbed => Means(p) /\ \A q \in Procs \ {p} : stage[q] # "writing"
    BY <2>1 DEF AloneInv
  <2>5. SettingsKept' /\ MissingInv'
    BY <2>1, <2>3, <2>4 DEF SettingsKept, MissingInv, Means, Sealed
  <2>6. NoFile.form # "torn"
    BY DEF NoFile
  <2>7. AloneInv'
    BY <2>1, <2>2, <2>4, <2>6 DEF AloneInv
  <2>. QED
    BY <2>5, <2>7
<1>. QED
  BY <1>1, <1>2, <1>3, <1>4 DEF SettingsNext

(* Nobody writes over what it could not read.                              *)
LEMMA SettingsHold == FileInv => SettingsInv
<1>. SUFFICES ASSUME FileInv PROVE SettingsInv
  OBVIOUS
<1>1. SettingsKept /\ SavingInv
  BY DEF FileInv
<1>2. OnlyReadersWrite
  BY <1>1 DEF OnlyReadersWrite, SavingInv, SavesWhatItRead
<1>. QED
  BY <1>1, <1>2 DEF SettingsInv

(* The invariant of the settings is kept by every step.                    *)
LEMMA FileStep == FileInv /\ [SettingsNext]_settingsVars => FileInv'
BY SettingsTypesStep, SavingStep, AloneStep DEF FileInv

(* Whatever the processes of a user do, and wherever one of them ends, the *)
(* pins and secrets change only as somebody asked, but where a process has *)
(* met another one's write; nobody writes over what it could not read.     *)
THEOREM SettingsAreKept == SettingsInit /\ [][SettingsNext]_settingsVars => []SettingsInv
<1>1. SettingsInit /\ [][SettingsNext]_settingsVars => []FileInv
  BY SettingsStart, FileStep, PTL
<1>. QED
  BY <1>1, SettingsHold, PTL

-----------------------------------------------------------------------------
(* The tools of MCP servers.  A sync plans what its own snapshot asks for. *)
Configs == [McpServers -> {Unset} \cup [with : Settings, enabled : BOOLEAN]]
Caches == [McpServers -> {Unset} \cup CachedEntry]
AllTools == UNION {Advertised[c] : c \in Settings}
SyncRuns == [at : {"idle", "begin", "check", "drop"},
         op : {"none", "add", "remove", "toggle", "refresh"}, of : McpServers \cup {Unset},
         config : Configs, cached : Caches, plan : Plan]

(* A sync asks, or uses again, what its snapshot has enabled.              *)
OfItsSnapshot(r) ==
  /\ r.plan.discover \subseteq DesiredActive(r.config) /\ r.plan.reuse \subseteq DesiredActive(r.config)
  /\ r.op \in {"add", "remove", "toggle"} => r.of \in McpServers

McpTypes ==
  /\ mcpServers \in Configs /\ entries \in Caches
  /\ connections \in [McpServers -> {Unset} \cup Settings]
  /\ run \in [Syncs -> SyncRuns] /\ overlapped \in BOOLEAN
  /\ store # Unset => /\ store.tools \subseteq McpServers \X AllTools
                      /\ lastSync # "none"
  /\ \A k \in Syncs : OfItsSnapshot(run[k])
  /\ lastSync = "none" => \A k \in Syncs : run[k].op = "none"

(* A disabled server is disabled in the cache.                             *)
Tidy(s, conf, kept) ==
  conf[s] # Unset /\ ~conf[s].enabled /\ kept[s] # Unset => kept[s].inactive

(* Syncs that do not overlap work with what is configured, and leave no    *)
(* server enabled in the cache that is not, but the ones they still plan   *)
(* to mark, and, before the first sync, what an earlier session left.      *)
AloneSync ==
  ~overlapped =>
    /\ \A j, k \in InFlight : j = k
    /\ \A k \in Syncs : run[k].at \in {"check", "drop"} =>
         /\ run[k].config = mcpServers
         /\ Known(entries) \subseteq Known(run[k].cached)
         /\ \A s \in McpServers \ run[k].plan.deactivate :
              Tidy(s, mcpServers, entries) /\ Tidy(s, mcpServers, run[k].cached)
    /\ lastSync # "none" =>
         \A s \in McpServers :
           \/ Tidy(s, mcpServers, entries)
           \/ \E k \in Syncs : run[k].at = "begin" /\ run[k].op = "toggle" /\ run[k].of = s
           \/ \E k \in Syncs : run[k].at = "drop" /\ s \in run[k].plan.deactivate

(* What the server offers is what the gate lets through.                   *)
OfferedInv ==
  lastSync = "published" \/ (lastSync = "hit" /\ ~overlapped) => mcpTools \subseteq toolRegistry

SyncInv ==
  McpTypes /\ AloneSync /\ OfferedInv /\ OfferedIsConfigured /\ StoreIsOfItsMarker

(* The client begins with what an earlier session left.                    *)
LEMMA NothingYet ==
  /\ NoServers \in Configs /\ NoServers \in Caches /\ NoPlan \in Plan /\ Done \in SyncRuns
  /\ \A op \in {"none", "add", "remove", "toggle", "refresh"}, s \in McpServers \cup {Unset} :
       [Done EXCEPT !.at = "begin", !.op = op, !.of = s] \in SyncRuns
<1>1. NoServers \in Configs /\ NoServers \in Caches
  BY DEF NoServers, Configs, Caches
<1>2. NoPlan \in Plan
  BY DEF NoPlan, Plan
<1>. QED
  BY <1>1, <1>2 DEF Done, SyncRuns

(* The invariant holds before the first sync.                              *)
LEMMA McpStart == McpInit => SyncInv
<1>. SUFFICES ASSUME McpInit PROVE SyncInv
  OBVIOUS
<1>1. entries \in Caches
  <2>1. \A e \in Left : CachedThen(e) \in CachedEntry
    <3>. SUFFICES ASSUME NEW e \in Left PROVE CachedThen(e) \in CachedEntry
      OBVIOUS
    <3>1. e.marker \in Settings /\ e.fresh \in BOOLEAN /\ e.inactive \in BOOLEAN
      BY DEF Left
    <3>2. Advertised[e.marker] \in SUBSET UNION {Advertised[c] : c \in Settings}
      BY <3>1
    <3>. QED
      BY <3>1, <3>2 DEF CachedThen, CachedEntry
  <2>2. \A s \in McpServers : entries[s] \in {Unset} \cup CachedEntry
    BY <2>1 DEF McpInit
  <2>. QED
    BY <2>2 DEF McpInit, Caches
<1>2. McpTypes
  <2>1. run = [k \in Syncs |-> Done] /\ run \in [Syncs -> SyncRuns]
    BY NothingYet DEF McpInit
  <2>2. connections \in [McpServers -> {Unset} \cup Settings]
    BY DEF McpInit, NoServers
  <2>3. \A k \in Syncs : run[k].plan = NoPlan /\ run[k].op = "none"
    BY <2>1 DEF Done
  <2>. QED
    <3>1. mcpServers \in Configs /\ overlapped \in BOOLEAN /\ store = Unset
      BY DEF McpInit, Configs
    <3>2. \A k \in Syncs : OfItsSnapshot(run[k])
      BY <2>3 DEF NoPlan, OfItsSnapshot
    <3>. QED
      BY <1>1, <2>1, <2>2, <2>3, <3>1, <3>2 DEF McpTypes
<1>3. \A k \in Syncs : run[k].at = "idle"
  BY DEF McpInit, Done
<1>4. AloneSync
  BY <1>3 DEF AloneSync, InFlight, McpInit
<1>. QED
  BY <1>2, <1>4 DEF SyncInv, McpInit, OfferedInv, OfferedIsConfigured, StoreIsOfItsMarker

(* A plan is made of configured servers; what it does not deactivate is    *)
(* tidy already, but for the other servers than the one of a command.      *)
LEMMA PlanFits ==
  ASSUME NEW conf \in Configs, NEW kept \in Caches,
         NEW op \in {"none", "add", "remove", "toggle", "refresh"}, NEW s \in McpServers \cup {Unset},
         op \in {"add", "remove", "toggle"} => s \in McpServers
  PROVE  /\ PlanFor(op, s, conf, kept) \in Plan
         /\ PlanFor(op, s, conf, kept).discover \subseteq DesiredActive(conf)
         /\ PlanFor(op, s, conf, kept).reuse \subseteq DesiredActive(conf)
         /\ op \in {"none", "refresh"} =>
              \A x \in McpServers \ PlanFor(op, s, conf, kept).deactivate : Tidy(x, conf, kept)
         /\ op = "toggle" => s \in PlanFor(op, s, conf, kept).deactivate \/ Tidy(s, conf, kept)
<1>. DEFINE plan == PlanFor(op, s, conf, kept)
            stale == Stale(conf, kept)
<1>1. /\ stale.deactivate \subseteq McpServers /\ stale.drop \subseteq McpServers
      /\ \A x \in McpServers \ stale.deactivate : Tidy(x, conf, kept)
  BY DEF Stale, Known, DesiredInactive, Tidy
<1>2. DesiredActive(conf) \subseteq McpServers
  BY DEF DesiredActive
<1>. HIDE DEF stale
<1>3. CASE op = "none"
  <2>. DEFINE again == {x \in DesiredActive(conf) : Reusable(x, conf, kept)}
  <2>1. plan = [reuse |-> again, discover |-> DesiredActive(conf) \ again,
                deactivate |-> stale.deactivate, drop |-> stale.drop]
    BY <1>3 DEF PlanFor, PlanSync, NoPlan, stale
  <2>2. again \subseteq DesiredActive(conf)
    OBVIOUS
  <2>. HIDE DEF plan, again
  <2>3. plan \in Plan /\ plan.discover \subseteq DesiredActive(conf) /\ plan.reuse \subseteq DesiredActive(conf)
        /\ plan.deactivate = stale.deactivate
    BY <2>1, <2>2, <1>1, <1>2 DEF Plan
  <2>. QED
    BY <2>3, <1>1, <1>3 DEF plan
<1>4. CASE op = "refresh"
  <2>1. plan = [reuse |-> {}, discover |-> DesiredActive(conf),
                deactivate |-> stale.deactivate, drop |-> stale.drop]
    BY <1>4 DEF PlanFor, PlanRefresh, NoPlan, stale
  <2>. HIDE DEF plan
  <2>2. plan \in Plan /\ plan.discover \subseteq DesiredActive(conf) /\ plan.reuse \subseteq DesiredActive(conf)
        /\ plan.deactivate = stale.deactivate
    BY <2>1, <1>1, <1>2 DEF Plan
  <2>. QED
    BY <2>2, <1>1, <1>4 DEF plan
<1>5. CASE op \in {"add", "remove", "toggle"}
  <2>1. s \in McpServers
    BY <1>5
  <2>. DEFINE now == {r \in DesiredActive(conf) : r = s /\ op # "remove"}
              again == {r \in now : Reusable(r, conf, kept)}
              marked == {r \in DesiredInactive(conf) : r = s /\ op = "toggle"}
  <2>2. plan = [reuse |-> again, discover |-> now \ again, deactivate |-> marked,
                drop |-> {r \in McpServers : r = s /\ op = "remove"}]
    BY <1>5 DEF PlanFor, PlanMutation
  <2>3. now \subseteq DesiredActive(conf) /\ again \subseteq now /\ marked \subseteq McpServers
        /\ (op = "toggle" => s \in marked \/ s \notin DesiredInactive(conf))
    BY DEF DesiredInactive
  <2>. HIDE DEF plan, now, again, marked
  <2>4. plan \in Plan /\ plan.discover \subseteq DesiredActive(conf) /\ plan.reuse \subseteq DesiredActive(conf)
        /\ plan.deactivate = marked
    BY <2>2, <2>3, <1>2 DEF Plan
  <2>5. s \notin DesiredInactive(conf) => Tidy(s, conf, kept)
    BY <2>1 DEF DesiredInactive, Tidy
  <2>. QED
    BY <2>3, <2>4, <2>5, <1>5 DEF plan
<1>. QED
  BY <1>3, <1>4, <1>5

(* A sync that is started is one more in flight.                           *)
LEMMA LaunchesOne ==
  ASSUME McpTypes, NEW op \in {"none", "add", "remove", "toggle", "refresh"},
         NEW s \in McpServers \cup {Unset}, Launch(op, s)
  PROVE  /\ run' \in [Syncs -> SyncRuns]
         /\ \E k \in Syncs \ InFlight :
              /\ run'[k] = [Done EXCEPT !.at = "begin", !.op = op, !.of = s]
              /\ \A j \in Syncs \ {k} : run'[j] = run[j]
         /\ ~overlapped' => ~overlapped /\ InFlight = {}
<1>. DEFINE k == CHOOSE j \in Syncs : j \notin InFlight
            r == [Done EXCEPT !.at = "begin", !.op = op, !.of = s]
<1>1. \E j \in Syncs : j \notin InFlight
  BY DEF Launch, InFlight
<1>2. k \in Syncs \ InFlight
  BY <1>1
<1>3. run' = [run EXCEPT ![k] = r]
  BY DEF Launch
<1>4. r \in SyncRuns
  BY NothingYet
<1>. HIDE DEF k, r
<1>5. run \in [Syncs -> SyncRuns]
  BY DEF McpTypes
<1>6. run' \in [Syncs -> SyncRuns] /\ run'[k] = r /\ \A j \in Syncs \ {k} : run'[j] = run[j]
  BY <1>2, <1>3, <1>4, <1>5, PutAt
<1>7. ~overlapped' => ~overlapped /\ InFlight = {}
  BY DEF Launch
<1>. QED
  BY <1>2, <1>6, <1>7 DEF r

(* What a step of a sync does to it.                                       *)
LEMMA BeginsOne ==
  ASSUME McpTypes, NEW k \in Syncs, Begin(k)
  PROVE  LET plan == PlanFor(run[k].op, run[k].of, mcpServers, entries)
         IN  /\ run' \in [Syncs -> SyncRuns] /\ \A j \in Syncs \ {k} : run'[j] = run[j]
             /\ run'[k].at \in {"check", "drop"} /\ (run'[k].at = "check" => run[k].op = "none")
             /\ run'[k].op = run[k].op /\ run'[k].of = run[k].of
             /\ run'[k].config = mcpServers /\ run'[k].cached = entries /\ run'[k].plan = plan
<1>. DEFINE plan == PlanFor(run[k].op, run[k].of, mcpServers, entries)
            to == IF run[k].op = "none" /\ ~PlanIsNoop(plan) THEN "check" ELSE "drop"
            r == [run[k] EXCEPT !.at = to, !.config = mcpServers, !.cached = entries, !.plan = plan]
<1>1. run' = [run EXCEPT ![k] = r]
  BY DEF Begin
<1>2. run[k] \in SyncRuns /\ run \in [Syncs -> SyncRuns] /\ mcpServers \in Configs /\ entries \in Caches
  BY DEF McpTypes
<1>3. plan \in Plan
  BY <1>2, PlanFits DEF McpTypes, SyncRuns, OfItsSnapshot
<1>4. to \in {"check", "drop"} /\ (to = "check" => run[k].op = "none")
  OBVIOUS
<1>. HIDE DEF plan, to
<1>5. /\ r \in SyncRuns /\ r.at = to /\ r.op = run[k].op /\ r.of = run[k].of /\ r.config = mcpServers
      /\ r.cached = entries /\ r.plan = plan
  BY <1>2, <1>3, <1>4 DEF SyncRuns
<1>. HIDE DEF r
<1>6. run' \in [Syncs -> SyncRuns] /\ run'[k] = r /\ \A j \in Syncs \ {k} : run'[j] = run[j]
  BY <1>1, <1>2, <1>5, PutAt
<1>. QED
  BY <1>4, <1>5, <1>6 DEF plan

(* What is saved is what the sync has of the server from then on.          *)
LEMMA SavesOne ==
  ASSUME McpTypes, NEW k \in Syncs, NEW s \in McpServers, NEW e \in {Unset} \cup CachedEntry, Save(k, s, e)
  PROVE  /\ run' \in [Syncs -> SyncRuns] /\ \A j \in Syncs \ {k} : run'[j] = run[j]
         /\ run'[k].at = run[k].at /\ run'[k].op = run[k].op /\ run'[k].of = run[k].of
         /\ run'[k].config = run[k].config
         /\ run'[k].cached[s] = e /\ \A x \in McpServers \ {s} : run'[k].cached[x] = run[k].cached[x]
         /\ run'[k].plan = Without(run[k].plan, s)
         /\ entries' \in Caches /\ entries'[s] = e /\ \A x \in McpServers \ {s} : entries'[x] = entries[x]
<1>. DEFINE c == [run[k].cached EXCEPT ![s] = e]
            r == [run[k] EXCEPT !.cached = c, !.plan = Without(run[k].plan, s)]
<1>1. run[k] \in SyncRuns /\ run \in [Syncs -> SyncRuns] /\ entries \in Caches
  BY DEF McpTypes
<1>2. run' = [run EXCEPT ![k] = r]
  BY <1>1 DEF Save, SyncRuns
<1>3. Without(run[k].plan, s) \in Plan
  BY <1>1 DEF Without, Plan, SyncRuns
<1>4. c \in Caches /\ c[s] = e /\ \A x \in McpServers \ {s} : c[x] = run[k].cached[x]
  BY <1>1, PutAt DEF SyncRuns, Caches
<1>. HIDE DEF c
<1>5. /\ r \in SyncRuns /\ r.at = run[k].at /\ r.op = run[k].op /\ r.of = run[k].of
      /\ r.config = run[k].config /\ r.cached = c /\ r.plan = Without(run[k].plan, s)
  BY <1>1, <1>3, <1>4 DEF SyncRuns
<1>. HIDE DEF r
<1>6. run' \in [Syncs -> SyncRuns] /\ run'[k] = r /\ \A j \in Syncs \ {k} : run'[j] = run[j]
  BY <1>1, <1>2, <1>5, PutAt
<1>7. entries' \in Caches /\ entries'[s] = e /\ \A x \in McpServers \ {s} : entries'[x] = entries[x]
  BY <1>1, PutAt DEF Save, Caches
<1>. QED
  BY <1>4, <1>5, <1>6, <1>7

(* A sync goes on, or ends, and the others do not notice.                  *)
LEMMA GoesOn ==
  ASSUME McpTypes, NEW k \in Syncs
  PROVE  /\ \A spot \in {"idle", "begin", "check", "drop"} : Goto(k, spot) =>
              /\ run' \in [Syncs -> SyncRuns] /\ \A j \in Syncs \ {k} : run'[j] = run[j]
              /\ run'[k].at = spot /\ run'[k].op = run[k].op /\ run'[k].of = run[k].of
              /\ run'[k].config = run[k].config /\ run'[k].cached = run[k].cached
              /\ run'[k].plan = run[k].plan
         /\ \A how : EndsAs(k, how) =>
              /\ run' \in [Syncs -> SyncRuns] /\ \A j \in Syncs \ {k} : run'[j] = run[j]
              /\ run'[k] = Done /\ lastSync' = how
<1>1. run \in [Syncs -> SyncRuns] /\ run[k] \in SyncRuns
  BY DEF McpTypes
<1>2. ASSUME NEW spot \in {"idle", "begin", "check", "drop"}, Goto(k, spot)
      PROVE  /\ run' \in [Syncs -> SyncRuns] /\ \A j \in Syncs \ {k} : run'[j] = run[j]
             /\ run'[k].at = spot /\ run'[k].op = run[k].op /\ run'[k].of = run[k].of
             /\ run'[k].config = run[k].config /\ run'[k].cached = run[k].cached
             /\ run'[k].plan = run[k].plan
  <2>. DEFINE r == [run[k] EXCEPT !.at = spot]
  <2>1. run' = [run EXCEPT ![k] = r]
    BY <1>2 DEF Goto
  <2>2. /\ r \in SyncRuns /\ r.at = spot /\ r.op = run[k].op /\ r.of = run[k].of /\ r.config = run[k].config
        /\ r.cached = run[k].cached /\ r.plan = run[k].plan
    BY <1>1 DEF SyncRuns
  <2>. HIDE DEF r
  <2>3. run' \in [Syncs -> SyncRuns] /\ run'[k] = r /\ \A j \in Syncs \ {k} : run'[j] = run[j]
    BY <1>1, <2>1, <2>2, PutAt
  <2>. QED
    BY <2>2, <2>3
<1>3. ASSUME NEW how, EndsAs(k, how)
      PROVE  /\ run' \in [Syncs -> SyncRuns] /\ \A j \in Syncs \ {k} : run'[j] = run[j]
             /\ run'[k] = Done /\ lastSync' = how
  BY <1>1, <1>3, NothingYet, PutAt DEF EndsAs
<1>. QED
  BY <1>2, <1>3

(* A server that fails, or is not in the cache, leaves the plan.           *)
LEMMA PlansLess ==
  ASSUME McpTypes, NEW k \in Syncs, NEW s \in McpServers,
         \/ run' = [run EXCEPT ![k].plan.discover = @ \ {s}]
         \/ run' = [run EXCEPT ![k].plan.deactivate = @ \ {s}]
  PROVE  /\ run' \in [Syncs -> SyncRuns] /\ \A j \in Syncs \ {k} : run'[j] = run[j]
         /\ run'[k].at = run[k].at /\ run'[k].op = run[k].op /\ run'[k].of = run[k].of
         /\ run'[k].config = run[k].config /\ run'[k].cached = run[k].cached
         /\ run'[k].plan.discover \subseteq run[k].plan.discover /\ run'[k].plan.reuse = run[k].plan.reuse
         /\ run'[k].plan.deactivate \in {run[k].plan.deactivate, run[k].plan.deactivate \ {s}}
<1>. DEFINE p1 == [run[k].plan EXCEPT !.discover = run[k].plan.discover \ {s}]
            p2 == [run[k].plan EXCEPT !.deactivate = run[k].plan.deactivate \ {s}]
<1>1. run \in [Syncs -> SyncRuns] /\ run[k] \in SyncRuns /\ run[k].plan \in Plan
  BY DEF McpTypes, SyncRuns
<1>2. PICK p \in {p1, p2} : run' = [run EXCEPT ![k] = [run[k] EXCEPT !.plan = p]]
  BY <1>1 DEF SyncRuns
<1>3. /\ p \in Plan /\ p.discover \subseteq run[k].plan.discover /\ p.reuse = run[k].plan.reuse
      /\ p.deactivate \in {run[k].plan.deactivate, run[k].plan.deactivate \ {s}}
  BY <1>1, <1>2 DEF Plan
<1>. HIDE DEF p1, p2
<1>. DEFINE r == [run[k] EXCEPT !.plan = p]
<1>4. /\ r \in SyncRuns /\ r.at = run[k].at /\ r.op = run[k].op /\ r.of = run[k].of
      /\ r.config = run[k].config /\ r.cached = run[k].cached /\ r.plan = p
  BY <1>1, <1>3 DEF SyncRuns
<1>. HIDE DEF r
<1>5. run' \in [Syncs -> SyncRuns] /\ run'[k] = r /\ \A j \in Syncs \ {k} : run'[j] = run[j]
  BY <1>1, <1>2, <1>4, PutAt DEF r
<1>. QED
  BY <1>3, <1>4, <1>5

(* Tools of a cache are tools its servers list; what a sync sends, and what *)
(* a hit seeds the cache with, are entries again.                          *)
LEMMA CachesOf ==
  /\ \A kept \in Caches : ToolsOf(kept) \subseteq McpServers \X AllTools
  /\ McpTypes => \A k \in Syncs : Reactivated(k) \in Caches
  /\ McpTypes => \A conf \in Configs : \A tools : SeedCacheFromFlatTools(conf, tools) \in Caches
  /\ \A settings \in Settings, tools \in SUBSET AllTools : Entry(settings, tools) \in CachedEntry
<1>1. ASSUME NEW kept \in Caches PROVE ToolsOf(kept) \subseteq McpServers \X AllTools
  <2>1. \A s \in Known(kept) : kept[s].tools \subseteq AllTools
    BY DEF Known, Caches, CachedEntry, AllTools
  <2>. QED
    BY <2>1 DEF ToolsOf, Known
<1>2. ASSUME McpTypes, NEW k \in Syncs PROVE Reactivated(k) \in Caches
  <2>1. run[k].cached \in Caches
    BY <1>2 DEF McpTypes, SyncRuns
  <2>2. ASSUME NEW e \in CachedEntry PROVE [e EXCEPT !.inactive = FALSE] \in CachedEntry
    BY DEF CachedEntry
  <2>3. \A s \in McpServers : run[k].cached[s] # Unset => run[k].cached[s] \in CachedEntry
    BY <2>1 DEF Caches
  <2>4. \A s \in McpServers : Reactivated(k)[s] \in {Unset} \cup CachedEntry
    BY <2>1, <2>2, <2>3 DEF Reactivated, Caches
  <2>. QED
    BY <2>4 DEF Reactivated, Caches
<1>3. \A settings \in Settings, tools \in SUBSET AllTools : Entry(settings, tools) \in CachedEntry
  BY DEF Entry, CachedEntry, AllTools
<1>4. ASSUME McpTypes, NEW conf \in Configs, NEW tools PROVE SeedCacheFromFlatTools(conf, tools) \in Caches
  <2>1. \A s \in DesiredActive(conf) : conf[s].with \in Settings
    BY DEF DesiredActive, Configs
  <2>2. \A s \in McpServers : {t \in UNION {Advertised[c] : c \in Settings} : <<s, t>> \in tools} \in SUBSET AllTools
    BY DEF AllTools
  <2>3. \A s \in McpServers : SeedCacheFromFlatTools(conf, tools)[s] \in {Unset} \cup CachedEntry
    BY <1>3, <1>4, <2>1, <2>2 DEF SeedCacheFromFlatTools, McpTypes, Caches
  <2>. QED
    BY <2>3 DEF SeedCacheFromFlatTools, Caches
<1>. QED
  BY <1>1, <1>2, <1>3, <1>4

(* A live connection, or the settings, say which tools a server lists.     *)
LEMMA OpensWith ==
  ASSUME McpTypes, NEW s \in McpServers, NEW with \in Settings
  PROVE  LET openedWith == IF connections[s] = Unset THEN with ELSE connections[s]
         IN  /\ openedWith \in Settings /\ Advertised[openedWith] \in SUBSET AllTools
             /\ [connections EXCEPT ![s] = openedWith] \in [McpServers -> {Unset} \cup Settings]
<1>. DEFINE openedWith == IF connections[s] = Unset THEN with ELSE connections[s]
<1>1. connections \in [McpServers -> {Unset} \cup Settings]
  BY DEF McpTypes
<1>2. openedWith \in Settings
  BY <1>1
<1>. HIDE DEF openedWith
<1>3. Advertised[openedWith] \in SUBSET AllTools
  BY <1>2 DEF AllTools
<1>4. [connections EXCEPT ![s] = openedWith] \in [McpServers -> {Unset} \cup Settings]
  BY <1>1, <1>2
<1>. QED
  BY <1>2, <1>3, <1>4 DEF openedWith

(* A server is disconnected.                                               *)
LEMMA Disconnects ==
  ASSUME McpTypes, NEW s \in McpServers
  PROVE  [connections EXCEPT ![s] = Unset] \in [McpServers -> {Unset} \cup Settings]
BY DEF McpTypes

(* Each step keeps the types of the syncs.                                 *)
LEMMA McpTypesStep == McpTypes /\ [McpNext]_mcpVars => McpTypes'
<1>. SUFFICES ASSUME McpTypes, [McpNext]_mcpVars PROVE McpTypes'
  OBVIOUS
<1>. DEFINE Unmoved ==
              /\ mcpServers' \in Configs /\ entries' \in Caches
              /\ connections' \in [McpServers -> {Unset} \cup Settings]
              /\ overlapped' \in BOOLEAN
              /\ store' # Unset => store'.tools \subseteq McpServers \X AllTools /\ lastSync' # "none"
<1>1. /\ mcpServers \in Configs /\ entries \in Caches
      /\ connections \in [McpServers -> {Unset} \cup Settings]
      /\ run \in [Syncs -> SyncRuns] /\ overlapped \in BOOLEAN
      /\ store # Unset => store.tools \subseteq McpServers \X AllTools /\ lastSync # "none"
      /\ \A k \in Syncs : OfItsSnapshot(run[k])
      /\ lastSync = "none" => \A k \in Syncs : run[k].op = "none"
  BY DEF McpTypes
<1>2. ASSUME NEW k \in Syncs, run' \in [Syncs -> SyncRuns], \A j \in Syncs \ {k} : run'[j] = run[j],
             OfItsSnapshot(run'[k]), Unmoved, lastSync' = "none" => lastSync = "none" /\ run'[k].op = "none"
      PROVE  McpTypes'
  BY <1>1, <1>2 DEF McpTypes
<1>3. ASSUME Unmoved, run' = run, lastSync' = lastSync PROVE McpTypes'
  BY <1>1, <1>3 DEF McpTypes
<1>4. ASSUME NEW op \in {"none", "add", "remove", "toggle", "refresh"},
             NEW s \in McpServers \cup {Unset}, Launch(op, s),
             op \in {"add", "remove", "toggle"} => s \in McpServers,
             lastSync # "none" \/ op = "none", lastSync' = lastSync,
             /\ mcpServers' \in Configs /\ entries' \in Caches
             /\ connections' \in [McpServers -> {Unset} \cup Settings]
             /\ store' = store
      PROVE  McpTypes'
  <2>1. PICK k \in Syncs \ InFlight :
          /\ run'[k] = [Done EXCEPT !.at = "begin", !.op = op, !.of = s]
          /\ \A j \in Syncs \ {k} : run'[j] = run[j]
    BY <1>4, LaunchesOne
  <2>2. run' \in [Syncs -> SyncRuns]
    BY <1>4, LaunchesOne
  <2>3. OfItsSnapshot(run'[k]) /\ run'[k].op = op
    BY <1>4, <2>1 DEF OfItsSnapshot, Done, NoPlan
  <2>4. overlapped' \in BOOLEAN
    BY <1>1, <1>4 DEF Launch, InFlight
  <2>5. Unmoved
    BY <1>1, <1>4, <2>4
  <2>. HIDE DEF Unmoved
  <2>. QED
    BY <1>1, <1>2, <1>4, <2>1, <2>2, <2>3, <2>5
<1>10. CASE UNCHANGED mcpVars
  BY <1>1, <1>3, <1>10 DEF mcpVars
<1>11. ASSUME NEW s \in McpServers, Add(s) PROVE McpTypes'
  <2>1. PICK settings \in Settings :
          /\ CommandSync("add", s)
          /\ mcpServers' = [mcpServers EXCEPT ![s] = [with |-> settings, enabled |-> TRUE]]
          /\ UNCHANGED <<entries, connections, toolRegistry, mcpTools, store, reconnects, lastSync>>
    BY <1>11 DEF Add
  <2>2. mcpServers' \in Configs
    BY <1>1, <2>1 DEF Configs
  <2>. QED
    BY <1>1, <1>4, <2>1, <2>2 DEF CommandSync, Prompt
<1>12. ASSUME NEW s \in McpServers, RemoveServer(s) PROVE McpTypes'
  <2>1. mcpServers' \in Configs
    BY <1>1, <1>12 DEF RemoveServer, Configs
  <2>2. connections' \in [McpServers -> {Unset} \cup Settings]
    BY <1>12, Disconnects DEF RemoveServer
  <2>. QED
    BY <1>1, <1>4, <1>12, <2>1, <2>2 DEF RemoveServer, CommandSync, Prompt
<1>13. ASSUME NEW s \in McpServers, Toggle(s) PROVE McpTypes'
  <2>1. mcpServers[s] \in [with : Settings, enabled : BOOLEAN]
    BY <1>1, <1>13 DEF Toggle, Configs
  <2>2. [mcpServers[s] EXCEPT !.enabled = ~mcpServers[s].enabled] \in [with : Settings, enabled : BOOLEAN]
    BY <2>1
  <2>3. mcpServers' = [mcpServers EXCEPT ![s] = [mcpServers[s] EXCEPT !.enabled = ~mcpServers[s].enabled]]
    BY <1>13 DEF Toggle
  <2>4. mcpServers' \in Configs
    BY <1>1, <2>2, <2>3, PutAt DEF Configs
  <2>. QED
    BY <1>1, <1>4, <1>13, <2>4 DEF Toggle, CommandSync, Prompt
<1>14. CASE Refresh
  BY <1>1, <1>4, <1>14 DEF Refresh, CommandSync, Prompt
<1>15. CASE Reconnect
  BY <1>1, <1>4, <1>15 DEF Reconnect
<1>16. ASSUME NEW s \in McpServers, ListTools(s) PROVE McpTypes'
  <2>1. mcpServers[s].with \in Settings
    BY <1>1, <1>16 DEF ListTools, Configs
  <2>2. connections' \in [McpServers -> {Unset} \cup Settings]
    BY <1>16, <2>1, OpensWith DEF ListTools
  <2>. QED
    BY <1>1, <1>3, <1>16, <2>2 DEF ListTools
<1>17. ASSUME NEW s \in McpServers, Expire(s) PROVE McpTypes'
  <2>1. entries[s] \in CachedEntry
    BY <1>1, <1>17 DEF Expire, Caches
  <2>2. [entries[s] EXCEPT !.fresh = FALSE] \in CachedEntry
    BY <2>1 DEF CachedEntry
  <2>3. entries' = [entries EXCEPT ![s] = [entries[s] EXCEPT !.fresh = FALSE]]
    BY <1>17 DEF Expire
  <2>4. entries' \in Caches
    BY <1>1, <2>2, <2>3, PutAt DEF Caches
  <2>. QED
    BY <1>1, <1>3, <1>17, <2>4 DEF Expire
<1>18. ASSUME NEW k \in Syncs, Begin(k) PROVE McpTypes'
  <2>. DEFINE plan == PlanFor(run[k].op, run[k].of, mcpServers, entries)
  <2>1. /\ run' \in [Syncs -> SyncRuns] /\ \A j \in Syncs \ {k} : run'[j] = run[j]
        /\ run'[k].op = run[k].op /\ run'[k].of = run[k].of
        /\ run'[k].config = mcpServers /\ run'[k].plan = plan
    BY <1>18, BeginsOne
  <2>2. run[k] \in SyncRuns /\ OfItsSnapshot(run[k])
    BY <1>1
  <2>3. plan.discover \subseteq DesiredActive(mcpServers) /\ plan.reuse \subseteq DesiredActive(mcpServers)
    BY <1>1, <2>2, PlanFits DEF SyncRuns, OfItsSnapshot
  <2>. HIDE DEF plan
  <2>4. OfItsSnapshot(run'[k])
    BY <2>1, <2>2, <2>3 DEF OfItsSnapshot
  <2>. QED
    BY <1>1, <1>2, <1>18, <2>1, <2>4 DEF Begin
<1>19. ASSUME NEW k \in Syncs, CheckHits(k) PROVE McpTypes'
  <2>1. run' \in [Syncs -> SyncRuns] /\ (\A j \in Syncs \ {k} : run'[j] = run[j])
        /\ run'[k] = Done /\ lastSync' = "hit"
    BY <1>19, GoesOn DEF CheckHits
  <2>2. OfItsSnapshot(run'[k])
    BY <2>1 DEF OfItsSnapshot, Done, NoPlan
  <2>3. entries' \in Caches
    <3>1. run[k].config \in Configs
      BY <1>1 DEF SyncRuns
    <3>. QED
      BY <1>19, <3>1, CachesOf DEF CheckHits
  <2>. QED
    BY <1>1, <1>2, <1>19, <2>1, <2>2, <2>3 DEF CheckHits
<1>20. ASSUME NEW k \in Syncs, CheckMisses(k) PROVE McpTypes'
  <2>1. /\ run' \in [Syncs -> SyncRuns] /\ \A j \in Syncs \ {k} : run'[j] = run[j]
        /\ run'[k].op = run[k].op /\ run'[k].of = run[k].of
        /\ run'[k].config = run[k].config /\ run'[k].plan = run[k].plan
    BY <1>20, GoesOn DEF CheckMisses
  <2>2. OfItsSnapshot(run'[k])
    BY <1>1, <2>1 DEF OfItsSnapshot
  <2>. QED
    BY <1>1, <1>2, <1>20, <2>1, <2>2 DEF CheckMisses
<1>21. ASSUME NEW k \in Syncs, NEW s \in McpServers, NEW e \in {Unset} \cup CachedEntry, Save(k, s, e),
              connections' \in [McpServers -> {Unset} \cup Settings],
              UNCHANGED <<mcpServers, store, overlapped, lastSync>>
       PROVE  McpTypes'
  <2>1. /\ run' \in [Syncs -> SyncRuns] /\ \A j \in Syncs \ {k} : run'[j] = run[j]
        /\ run'[k].op = run[k].op /\ run'[k].of = run[k].of
        /\ run'[k].config = run[k].config /\ run'[k].plan = Without(run[k].plan, s)
        /\ entries' \in Caches
    BY <1>21, SavesOne
  <2>2. OfItsSnapshot(run'[k])
    BY <1>1, <2>1 DEF OfItsSnapshot, Without
  <2>. QED
    BY <1>1, <1>2, <1>21, <2>1, <2>2
<1>22. ASSUME NEW k \in Syncs, NEW s \in McpServers,
              \/ run' = [run EXCEPT ![k].plan.discover = @ \ {s}]
              \/ run' = [run EXCEPT ![k].plan.deactivate = @ \ {s}],
              connections' \in [McpServers -> {Unset} \cup Settings],
              UNCHANGED <<mcpServers, entries, store, overlapped, lastSync>>
       PROVE  McpTypes'
  <2>1. /\ run' \in [Syncs -> SyncRuns] /\ \A j \in Syncs \ {k} : run'[j] = run[j]
        /\ run'[k].op = run[k].op /\ run'[k].of = run[k].of
        /\ run'[k].config = run[k].config
        /\ run'[k].plan.discover \subseteq run[k].plan.discover /\ run'[k].plan.reuse = run[k].plan.reuse
    BY <1>22, PlansLess
  <2>2. OfItsSnapshot(run'[k])
    BY <1>1, <2>1 DEF OfItsSnapshot
  <2>. QED
    BY <1>1, <1>2, <1>22, <2>1, <2>2
<1>23. ASSUME NEW k \in Syncs, NEW s \in McpServers, DropServer(k, s) PROVE McpTypes'
  BY <1>21, <1>23, Disconnects DEF DropServer
<1>24. ASSUME NEW k \in Syncs, NEW s \in McpServers, DeactivateServer(k, s) PROVE McpTypes'
  <2>1. connections' \in [McpServers -> {Unset} \cup Settings]
    BY <1>24, Disconnects DEF DeactivateServer
  <2>2. run[k].cached[s] # Unset => [run[k].cached[s] EXCEPT !.inactive = TRUE] \in CachedEntry
    <3>1. run[k].cached[s] \in {Unset} \cup CachedEntry
      BY <1>1 DEF SyncRuns, Caches
    <3>2. \A e \in CachedEntry : [e EXCEPT !.inactive = TRUE] \in CachedEntry
      BY DEF CachedEntry
    <3>. QED
      BY <3>1, <3>2
  <2>3. CASE run[k].cached[s] = Unset
    BY <1>22, <1>24, <2>1, <2>3 DEF DeactivateServer
  <2>4. CASE run[k].cached[s] # Unset
    BY <1>21, <1>24, <2>1, <2>2, <2>4 DEF DeactivateServer
  <2>. QED
    BY <2>3, <2>4
<1>25. ASSUME NEW k \in Syncs, NEW s \in McpServers, DiscoverServer(k, s) PROVE McpTypes'
  <2>1. run[k].config[s].with \in Settings
    BY <1>1, <1>25 DEF DiscoverServer, OfItsSnapshot, DesiredActive, SyncRuns, Configs
  <2>. DEFINE with == run[k].config[s].with
              openedWith == IF connections[s] = Unset THEN with ELSE connections[s]
  <2>2. Entry(with, Advertised[openedWith]) \in CachedEntry
        /\ [connections EXCEPT ![s] = openedWith] \in [McpServers -> {Unset} \cup Settings]
    BY <2>1, OpensWith, CachesOf
  <2>3. CASE connections' = [connections EXCEPT ![s] = openedWith] /\ Save(k, s, Entry(with, Advertised[openedWith]))
    BY <1>21, <1>25, <2>2, <2>3 DEF DiscoverServer
  <2>4. CASE run' = [run EXCEPT ![k].plan.discover = @ \ {s}] /\ UNCHANGED <<entries, connections>>
    BY <1>1, <1>22, <1>25, <2>4 DEF DiscoverServer
  <2>. QED
    BY <1>25, <2>3, <2>4 DEF DiscoverServer
<1>26. ASSUME NEW k \in Syncs, Publish(k) PROVE McpTypes'
  <2>1. PICK how \in {"empty", "published", "failed"} : EndsAs(k, how)
    BY <1>26 DEF Publish
  <2>2. run' \in [Syncs -> SyncRuns] /\ (\A j \in Syncs \ {k} : run'[j] = run[j])
        /\ run'[k] = Done /\ lastSync' # "none"
    BY <2>1, GoesOn
  <2>3. OfItsSnapshot(run'[k])
    BY <2>2 DEF OfItsSnapshot, Done, NoPlan
  <2>4. Reactivated(k) \in Caches
    BY CachesOf
  <2>5. entries' \in Caches
    BY <1>1, <1>26, <2>4 DEF Publish, Caches
  <2>6. Payload(k) \subseteq McpServers \X AllTools
    BY <2>4, CachesOf DEF Payload
  <2>7. store' = store \/ store' = [marker |-> RootMarker(run[k].config), tools |-> Payload(k)]
    BY <1>26 DEF Publish, ToolsSync
  <2>8. store' # Unset => store'.tools \subseteq McpServers \X AllTools
    BY <1>1, <2>6, <2>7
  <2>9. Unmoved
    BY <1>1, <1>26, <2>2, <2>5, <2>8 DEF Publish
  <2>. HIDE DEF Unmoved
  <2>. QED
    BY <1>2, <2>2, <2>3, <2>9
<1>. QED
  BY <1>10, <1>11, <1>12, <1>13, <1>14, <1>15, <1>16, <1>17, <1>18, <1>19, <1>20, <1>23, <1>24,
     <1>25, <1>26 DEF McpNext, SyncStep

(* Marking the entries a plan uses again keeps a tidy cache tidy.          *)
LEMMA ReactivatedIsTidy ==
  ASSUME McpTypes, NEW k \in Syncs, NEW s \in McpServers, Tidy(s, run[k].config, run[k].cached)
  PROVE  Tidy(s, run[k].config, Reactivated(k))
<1>1. run[k].cached \in Caches /\ run[k].plan.reuse \subseteq DesiredActive(run[k].config)
  BY DEF McpTypes, SyncRuns, OfItsSnapshot
<1>2. CASE s \in run[k].plan.reuse
  BY <1>1, <1>2 DEF Tidy, DesiredActive
<1>3. CASE s \notin run[k].plan.reuse
  BY <1>3 DEF Tidy, Reactivated
<1>. QED
  BY <1>2, <1>3

(* Seeding the cache keeps it tidy.                                        *)
LEMMA SeededIsTidy ==
  ASSUME NEW conf, NEW tools, NEW s \in McpServers, Tidy(s, conf, entries)
  PROVE  Tidy(s, conf, SeedCacheFromFlatTools(conf, tools))
<1>1. CASE s \in DesiredActive(conf)
  BY <1>1 DEF Tidy, DesiredActive
<1>2. CASE s \notin DesiredActive(conf)
  BY <1>2 DEF Tidy, SeedCacheFromFlatTools
<1>. QED
  BY <1>1, <1>2

(* A sync that is alone works with what is configured and leaves the cache *)
(* tidy.                                                                   *)
LEMMA AloneSyncStep == McpTypes /\ AloneSync /\ [McpNext]_mcpVars => AloneSync'
<1>. SUFFICES ASSUME McpTypes, AloneSync, [McpNext]_mcpVars, ~overlapped' PROVE AloneSync'
  BY DEF AloneSync
<1>. DEFINE Excused(s) == \/ \E k \in Syncs : run[k].at = "begin" /\ run[k].op = "toggle" /\ run[k].of = s
                          \/ \E k \in Syncs : run[k].at = "drop" /\ s \in run[k].plan.deactivate
            Works(k) == /\ run[k].config = mcpServers
                        /\ Known(entries) \subseteq Known(run[k].cached)
                        /\ \A s \in McpServers \ run[k].plan.deactivate :
                             Tidy(s, mcpServers, entries) /\ Tidy(s, mcpServers, run[k].cached)
            TidyAll == \A s \in McpServers : Tidy(s, mcpServers, entries)
<1>1. /\ mcpServers \in Configs /\ entries \in Caches /\ run \in [Syncs -> SyncRuns]
      /\ \A k \in Syncs : OfItsSnapshot(run[k])
      /\ lastSync = "none" => \A k \in Syncs : run[k].op = "none"
  BY DEF McpTypes
<1>2. ~overlapped
  <2>1. ASSUME NEW op, NEW s, Launch(op, s) PROVE ~overlapped
    BY <2>1 DEF Launch
  <2>2. CASE \E s \in McpServers : Add(s) \/ RemoveServer(s) \/ Toggle(s)
    BY <2>1, <2>2 DEF Add, RemoveServer, Toggle, CommandSync
  <2>3. CASE \E s \in McpServers : ListTools(s) \/ Expire(s)
    BY <2>3 DEF ListTools, Expire
  <2>4. CASE Refresh \/ Reconnect
    BY <2>1, <2>4 DEF Refresh, Reconnect, CommandSync
  <2>5. CASE \E k \in Syncs : SyncStep(k)
    <3>1. ASSUME NEW k \in Syncs, Begin(k) \/ CheckHits(k) \/ CheckMisses(k) \/ Publish(k)
          PROVE  ~overlapped
      BY <3>1 DEF Begin, CheckHits, CheckMisses, Publish
    <3>2. ASSUME NEW k \in Syncs, NEW s \in McpServers,
                 DropServer(k, s) \/ DeactivateServer(k, s) \/ DiscoverServer(k, s)
          PROVE  ~overlapped
      BY <3>2 DEF DropServer, DeactivateServer, DiscoverServer
    <3>. QED
      BY <2>5, <3>1, <3>2 DEF SyncStep
  <2>6. CASE UNCHANGED mcpVars
    BY <2>6 DEF mcpVars
  <2>. QED
    BY <2>2, <2>3, <2>4, <2>5, <2>6 DEF McpNext
<1>3. /\ \A j, k \in InFlight : j = k
      /\ \A k \in Syncs : run[k].at \in {"check", "drop"} => Works(k)
      /\ lastSync # "none" => \A s \in McpServers : Tidy(s, mcpServers, entries) \/ Excused(s)
  BY <1>2 DEF AloneSync
<1>4. ASSUME UNCHANGED <<mcpServers, entries, run, lastSync>> PROVE AloneSync'
  BY <1>3, <1>4 DEF AloneSync, InFlight
<1>5. ASSUME NEW op \in {"none", "add", "remove", "toggle", "refresh"},
             NEW s \in McpServers \cup {Unset}, Launch(op, s), UNCHANGED <<entries, lastSync>>,
             \A x \in McpServers : (op = "toggle" => x # s) =>
               (Tidy(x, mcpServers, entries) => Tidy(x, mcpServers', entries))
      PROVE  AloneSync'
  <2>1. PICK k \in Syncs \ InFlight :
          /\ run'[k] = [Done EXCEPT !.at = "begin", !.op = op, !.of = s]
          /\ \A j \in Syncs \ {k} : run'[j] = run[j]
    BY <1>5, LaunchesOne
  <2>2. \A j \in Syncs : run[j].at = "idle"
    BY <1>5, LaunchesOne DEF InFlight
  <2>3. run'[k].at = "begin" /\ run'[k].op = op /\ run'[k].of = s
    BY <2>1 DEF Done
  <2>4. lastSync # "none" => TidyAll
    BY <1>3, <2>2
  <2>5. \A i, j \in InFlight' : i = j
    BY <2>1, <2>2 DEF InFlight
  <2>6. \A j \in Syncs : run'[j].at \notin {"check", "drop"}
    BY <2>1, <2>2, <2>3
  <2>7. lastSync' # "none" => \A x \in McpServers : Tidy(x, mcpServers', entries') \/ Excused(x)'
    BY <1>5, <2>1, <2>3, <2>4
  <2>. QED
    BY <2>5, <2>6, <2>7 DEF AloneSync
<1>6. ASSUME NEW k \in Syncs, run[k].at # "idle"
      PROVE  \A j \in Syncs \ {k} : run[j].at = "idle"
  BY <1>3, <1>6 DEF InFlight
<1>7. ASSUME NEW k \in Syncs, run[k].at # "idle", \A j \in Syncs \ {k} : run'[j] = run[j],
             run'[k].at \in {"check", "drop"} => Works(k)',
             lastSync' # "none" => \A s \in McpServers :
               \/ Tidy(s, mcpServers', entries')
               \/ run'[k].at = "drop" /\ s \in run'[k].plan.deactivate
      PROVE  AloneSync'
  <2>1. \A j \in Syncs \ {k} : run'[j].at = "idle"
    BY <1>6, <1>7
  <2>2. \A i, j \in InFlight' : i = j
    BY <2>1 DEF InFlight
  <2>3. \A j \in Syncs : run'[j].at \in {"check", "drop"} => Works(j)'
    BY <1>7, <2>1
  <2>4. lastSync' # "none" => \A s \in McpServers : Tidy(s, mcpServers', entries') \/ Excused(s)'
    BY <1>7
  <2>. QED
    BY <2>2, <2>3, <2>4 DEF AloneSync
<1>10. CASE UNCHANGED mcpVars
  BY <1>4, <1>10 DEF mcpVars
<1>11. ASSUME NEW s \in McpServers, Add(s) PROVE AloneSync'
  <2>1. PICK settings \in Settings :
          /\ CommandSync("add", s)
          /\ mcpServers' = [mcpServers EXCEPT ![s] = [with |-> settings, enabled |-> TRUE]]
          /\ UNCHANGED <<entries, connections, toolRegistry, mcpTools, store, reconnects, lastSync>>
    BY <1>11 DEF Add
  <2>2. mcpServers'[s].enabled /\ \A x \in McpServers \ {s} : mcpServers'[x] = mcpServers[x]
    BY <1>1, <2>1 DEF Configs
  <2>3. \A x \in McpServers : Tidy(x, mcpServers, entries) => Tidy(x, mcpServers', entries)
    BY <2>2 DEF Tidy
  <2>. QED
    BY <1>5, <2>1, <2>3 DEF CommandSync
<1>12. ASSUME NEW s \in McpServers, RemoveServer(s) PROVE AloneSync'
  <2>1. mcpServers'[s] = Unset /\ \A x \in McpServers \ {s} : mcpServers'[x] = mcpServers[x]
    BY <1>1, <1>12 DEF RemoveServer, Configs
  <2>2. \A x \in McpServers : Tidy(x, mcpServers, entries) => Tidy(x, mcpServers', entries)
    BY <2>1 DEF Tidy
  <2>. QED
    BY <1>5, <1>12, <2>2 DEF RemoveServer, CommandSync
<1>13. ASSUME NEW s \in McpServers, Toggle(s) PROVE AloneSync'
  <2>1. \A x \in McpServers \ {s} : mcpServers'[x] = mcpServers[x]
    BY <1>1, <1>13 DEF Toggle, Configs
  <2>2. \A x \in McpServers : x # s => (Tidy(x, mcpServers, entries) => Tidy(x, mcpServers', entries))
    BY <2>1 DEF Tidy
  <2>. QED
    BY <1>5, <1>13, <2>2 DEF Toggle, CommandSync
<1>14. CASE Refresh
  BY <1>5, <1>14 DEF Refresh, CommandSync
<1>15. CASE Reconnect
  BY <1>5, <1>15 DEF Reconnect
<1>16. ASSUME NEW s \in McpServers, ListTools(s) PROVE AloneSync'
  BY <1>4, <1>16 DEF ListTools
<1>17. ASSUME NEW s \in McpServers, Expire(s) PROVE AloneSync'
  <2>1. entries[s] \in CachedEntry
    BY <1>1, <1>17 DEF Expire, Caches
  <2>2. entries'[s] = [entries[s] EXCEPT !.fresh = FALSE] /\ \A x \in McpServers \ {s} : entries'[x] = entries[x]
    BY <1>1, <1>17 DEF Expire, Caches
  <2>3. entries'[s].inactive = entries[s].inactive
    BY <2>1, <2>2 DEF CachedEntry
  <2>4. Known(entries') \subseteq Known(entries)
    BY <1>17, <2>2 DEF Known, Expire
  <2>5. \A x \in McpServers : Tidy(x, mcpServers, entries) => Tidy(x, mcpServers, entries')
    BY <1>17, <2>2, <2>3 DEF Tidy, Expire
  <2>6. UNCHANGED <<mcpServers, run, lastSync>>
    BY <1>17 DEF Expire
  <2>7. \A k \in Syncs : Works(k) => Works(k)'
    BY <2>4, <2>5, <2>6
  <2>8. \A x \in McpServers : Excused(x) => Excused(x)'
    BY <2>6
  <2>. HIDE DEF Works, Excused
  <2>9. /\ \A j, k \in InFlight' : j = k
        /\ \A k \in Syncs : run'[k].at \in {"check", "drop"} => Works(k)'
        /\ lastSync' # "none" => \A x \in McpServers : Tidy(x, mcpServers', entries') \/ Excused(x)'
    BY <1>3, <2>5, <2>6, <2>7, <2>8 DEF InFlight
  <2>. QED
    BY <2>9 DEF AloneSync, Works, Excused
<1>18. ASSUME NEW k \in Syncs, Begin(k) PROVE AloneSync'
  <2>. DEFINE plan == PlanFor(run[k].op, run[k].of, mcpServers, entries)
  <2>1. /\ \A j \in Syncs \ {k} : run'[j] = run[j]
        /\ run'[k].at \in {"check", "drop"} /\ (run'[k].at = "check" => run[k].op = "none")
        /\ run'[k].config = mcpServers /\ run'[k].cached = entries /\ run'[k].plan = plan
        /\ UNCHANGED <<mcpServers, entries, lastSync>> /\ run[k].at = "begin"
    BY <1>18, BeginsOne DEF Begin
  <2>2. /\ run[k].op \in {"none", "add", "remove", "toggle", "refresh"}
        /\ run[k].of \in McpServers \cup {Unset}
        /\ run[k].op \in {"add", "remove", "toggle"} => run[k].of \in McpServers
    BY <1>1 DEF SyncRuns, OfItsSnapshot
  <2>3. /\ run[k].op \in {"none", "refresh"} =>
             \A x \in McpServers \ plan.deactivate : Tidy(x, mcpServers, entries)
        /\ run[k].op = "toggle" => run[k].of \in plan.deactivate \/ Tidy(run[k].of, mcpServers, entries)
    BY <1>1, <2>2, PlanFits
  <2>. HIDE DEF plan
  <2>4. lastSync # "none" => \A x \in McpServers :
          Tidy(x, mcpServers, entries) \/ (run[k].op = "toggle" /\ run[k].of = x)
    BY <1>3, <1>6, <2>1
  <2>5. \A x \in McpServers \ plan.deactivate : Tidy(x, mcpServers, entries)
    <3>1. CASE run[k].op \in {"none", "refresh"}
      BY <2>3, <3>1
    <3>2. CASE run[k].op \in {"add", "remove", "toggle"}
      <4>1. lastSync # "none"
        BY <1>1, <3>2
      <4>. QED
        BY <2>3, <2>4, <3>2, <4>1
    <3>. QED
      BY <2>2, <3>1, <3>2
  <2>6. Works(k)'
    BY <2>1, <2>5
  <2>7. lastSync' # "none" => \A x \in McpServers :
          Tidy(x, mcpServers', entries') \/ (run'[k].at = "drop" /\ x \in run'[k].plan.deactivate)
    <3>1. CASE run'[k].at = "check"
      BY <2>1, <2>4, <3>1
    <3>2. CASE run'[k].at = "drop"
      BY <2>1, <2>5, <3>2
    <3>. QED
      BY <2>1, <3>1, <3>2
  <2>. HIDE DEF Works
  <2>. QED
    BY <1>7, <2>1, <2>6, <2>7
<1>19. ASSUME NEW k \in Syncs, CheckHits(k) PROVE AloneSync'
  <2>1. (\A j \in Syncs \ {k} : run'[j] = run[j]) /\ run'[k] = Done /\ run[k].at = "check"
    BY <1>19, GoesOn DEF CheckHits
  <2>2. lastSync # "none"
    BY <1>19 DEF CheckHits, SyncCheck, McpTypes
  <2>3. TidyAll
    BY <1>3, <1>6, <2>1, <2>2
  <2>4. entries' = SeedCacheFromFlatTools(mcpServers, store.tools) /\ mcpServers' = mcpServers
    BY <1>3, <1>19 DEF CheckHits
  <2>5. \A s \in McpServers : Tidy(s, mcpServers', entries')
    BY <2>3, <2>4, SeededIsTidy
  <2>6. run'[k].at = "idle"
    BY <2>1 DEF Done
  <2>. HIDE DEF Works
  <2>. QED
    BY <1>7, <2>1, <2>5, <2>6
<1>20. ASSUME NEW k \in Syncs, CheckMisses(k) PROVE AloneSync'
  <2>1. /\ \A j \in Syncs \ {k} : run'[j] = run[j]
        /\ run[k].at = "check" /\ run'[k].at = "drop"
        /\ run'[k].config = run[k].config /\ run'[k].cached = run[k].cached /\ run'[k].plan = run[k].plan
        /\ UNCHANGED <<mcpServers, entries, lastSync>>
    BY <1>20, GoesOn DEF CheckMisses
  <2>2. Works(k)
    BY <1>3, <2>1
  <2>3. Works(k)'
    BY <2>1, <2>2
  <2>4. \A x \in McpServers : Tidy(x, mcpServers', entries') \/ (run'[k].at = "drop" /\ x \in run'[k].plan.deactivate)
    BY <2>1, <2>2
  <2>. HIDE DEF Works
  <2>. QED
    BY <1>7, <2>1, <2>3, <2>4
<1>21. ASSUME NEW k \in Syncs, NEW s \in McpServers, NEW e \in {Unset} \cup CachedEntry, Save(k, s, e),
              run[k].at = "drop", UNCHANGED <<mcpServers, lastSync>>,
              e = Unset \/ e.inactive \/ s \in DesiredActive(run[k].config)
       PROVE  AloneSync'
  <2>1. /\ \A j \in Syncs \ {k} : run'[j] = run[j]
        /\ run'[k].at = "drop" /\ run'[k].config = run[k].config
        /\ run'[k].cached[s] = e /\ \A x \in McpServers \ {s} : run'[k].cached[x] = run[k].cached[x]
        /\ run'[k].plan.deactivate = run[k].plan.deactivate \ {s}
        /\ entries'[s] = e /\ \A x \in McpServers \ {s} : entries'[x] = entries[x]
    <3>1. /\ \A j \in Syncs \ {k} : run'[j] = run[j]
          /\ run'[k].at = "drop" /\ run'[k].config = run[k].config
          /\ run'[k].cached[s] = e /\ \A x \in McpServers \ {s} : run'[k].cached[x] = run[k].cached[x]
          /\ run'[k].plan = Without(run[k].plan, s)
          /\ entries'[s] = e /\ \A x \in McpServers \ {s} : entries'[x] = entries[x]
      BY <1>21, SavesOne
    <3>2. Without(run[k].plan, s).deactivate = run[k].plan.deactivate \ {s}
      BY DEF Without
    <3>. QED
      BY <3>1, <3>2
  <2>2. Works(k)
    BY <1>3, <1>21
  <2>3. Tidy(s, mcpServers, entries') /\ Tidy(s, mcpServers, run'[k].cached)
    BY <1>21, <2>1, <2>2 DEF Tidy, DesiredActive
  <2>4. \A x \in McpServers \ {s} : /\ Tidy(x, mcpServers, entries) => Tidy(x, mcpServers, entries')
                                    /\ Tidy(x, mcpServers, run[k].cached) => Tidy(x, mcpServers, run'[k].cached)
    BY <2>1 DEF Tidy
  <2>5. Known(entries') \subseteq Known(run'[k].cached)
    BY <2>1, <2>2 DEF Known
  <2>6. \A x \in McpServers \ run'[k].plan.deactivate :
          Tidy(x, mcpServers', entries') /\ Tidy(x, mcpServers', run'[k].cached)
    BY <1>21, <2>1, <2>2, <2>3, <2>4
  <2>7. Works(k)'
    BY <1>21, <2>1, <2>2, <2>5, <2>6
  <2>. HIDE DEF Works
  <2>. QED
    BY <1>7, <1>21, <2>1, <2>6, <2>7
<1>22. ASSUME NEW k \in Syncs, NEW s \in McpServers, run[k].at = "drop",
              \/ run' = [run EXCEPT ![k].plan.discover = @ \ {s}]
              \/ run' = [run EXCEPT ![k].plan.deactivate = @ \ {s}] /\ run[k].cached[s] = Unset,
              UNCHANGED <<mcpServers, entries, lastSync>>
       PROVE  AloneSync'
  <2>1. /\ \A j \in Syncs \ {k} : run'[j] = run[j]
        /\ run'[k].at = "drop" /\ run'[k].config = run[k].config /\ run'[k].cached = run[k].cached
        /\ run'[k].plan.deactivate \in {run[k].plan.deactivate, run[k].plan.deactivate \ {s}}
    BY <1>22, PlansLess
  <2>2. Works(k)
    BY <1>3, <1>22
  <2>3. run[k].cached[s] = Unset => Tidy(s, mcpServers, entries) /\ Tidy(s, mcpServers, run[k].cached)
    BY <2>2 DEF Known, Tidy
  <2>4. run[k].cached[s] # Unset => run'[k].plan.deactivate = run[k].plan.deactivate
    BY <1>1, <1>22 DEF SyncRuns, Plan
  <2>5. \A x \in McpServers \ run'[k].plan.deactivate :
          Tidy(x, mcpServers, entries) /\ Tidy(x, mcpServers, run[k].cached)
    BY <2>1, <2>2, <2>3, <2>4
  <2>6. Works(k)'
    BY <1>22, <2>1, <2>2, <2>5
  <2>. HIDE DEF Works
  <2>. QED
    BY <1>7, <1>22, <2>1, <2>5, <2>6
<1>23. ASSUME NEW k \in Syncs, NEW s \in McpServers, DropServer(k, s) PROVE AloneSync'
  BY <1>21, <1>23 DEF DropServer
<1>24. ASSUME NEW k \in Syncs, NEW s \in McpServers, DeactivateServer(k, s) PROVE AloneSync'
  <2>1. CASE run[k].cached[s] = Unset
    BY <1>22, <1>24, <2>1 DEF DeactivateServer
  <2>2. CASE run[k].cached[s] # Unset
    <3>. DEFINE e == [run[k].cached[s] EXCEPT !.inactive = TRUE]
    <3>1. run[k].cached[s] \in CachedEntry
      BY <1>1, <2>2 DEF SyncRuns, Caches
    <3>2. e \in CachedEntry /\ e.inactive
      BY <3>1 DEF CachedEntry
    <3>3. Save(k, s, e) /\ run[k].at = "drop" /\ UNCHANGED <<mcpServers, lastSync>>
      BY <1>24, <2>2 DEF DeactivateServer
    <3>. HIDE DEF e
    <3>. QED
      BY <1>21, <3>2, <3>3
  <2>. QED
    BY <2>1, <2>2
<1>25. ASSUME NEW k \in Syncs, NEW s \in McpServers, DiscoverServer(k, s) PROVE AloneSync'
  <2>1. s \in DesiredActive(run[k].config) /\ run[k].config[s].with \in Settings
    BY <1>1, <1>25 DEF DiscoverServer, OfItsSnapshot, DesiredActive, SyncRuns, Configs
  <2>. DEFINE with == run[k].config[s].with
              openedWith == IF connections[s] = Unset THEN with ELSE connections[s]
              e == Entry(with, Advertised[openedWith])
  <2>2. e \in CachedEntry
    BY <2>1, OpensWith, CachesOf
  <2>3. CASE Save(k, s, e)
    <3>. HIDE DEF e
    <3>. QED
      BY <1>21, <1>25, <2>1, <2>2, <2>3 DEF DiscoverServer
  <2>4. CASE run' = [run EXCEPT ![k].plan.discover = @ \ {s}] /\ UNCHANGED <<entries, connections>>
    BY <1>22, <1>25, <2>4 DEF DiscoverServer
  <2>. QED
    BY <1>25, <2>3, <2>4 DEF DiscoverServer
<1>26. ASSUME NEW k \in Syncs, Publish(k) PROVE AloneSync'
  <2>1. PICK how \in {"empty", "published", "failed"} : EndsAs(k, how)
    BY <1>26 DEF Publish
  <2>2. (\A j \in Syncs \ {k} : run'[j] = run[j]) /\ run'[k] = Done /\ run[k].at = "drop"
        /\ run[k].plan.deactivate = {} /\ mcpServers' = mcpServers
    BY <1>26, <2>1, GoesOn DEF Publish
  <2>3. Works(k)
    BY <1>3, <2>2
  <2>4. \A s \in McpServers : Tidy(s, mcpServers, entries) /\ Tidy(s, mcpServers, Reactivated(k))
    BY <2>2, <2>3, ReactivatedIsTidy
  <2>5. \A s \in McpServers : entries'[s] \in {entries[s], Reactivated(k)[s]}
    BY <1>26 DEF Publish
  <2>6. \A s \in McpServers : Tidy(s, mcpServers', entries')
    BY <2>2, <2>4, <2>5 DEF Tidy
  <2>7. run'[k].at = "idle"
    BY <2>2 DEF Done
  <2>. HIDE DEF Works
  <2>. QED
    BY <1>7, <2>2, <2>6, <2>7
<1>. QED
  BY <1>10, <1>11, <1>12, <1>13, <1>14, <1>15, <1>16, <1>17, <1>18, <1>19, <1>20, <1>23, <1>24,
     <1>25, <1>26 DEF McpNext, SyncStep

(* What a sync publishes, undisturbed, is enabled in the configuration.    *)
LEMMA PublishesEnabled ==
  ASSUME McpTypes, AloneSync, ~overlapped, NEW k \in Syncs, Publish(k)
  PROVE  /\ run[k].config = mcpServers
         /\ \A p \in Payload(k) : p[1] \in DesiredActive(mcpServers)
<1>1. /\ run[k].at = "drop" /\ run[k].plan.deactivate = {}
  BY DEF Publish
<1>2. /\ run[k].config = mcpServers
      /\ \A s \in McpServers : Tidy(s, mcpServers, run[k].cached)
  BY <1>1 DEF AloneSync
<1>3. \A s \in McpServers : Tidy(s, mcpServers, Reactivated(k))
  BY <1>2, ReactivatedIsTidy
<1>4. ASSUME NEW p \in Payload(k) PROVE p[1] \in DesiredActive(mcpServers)
  <2>1. PICK s \in McpServers : /\ s \in Known(Reactivated(k)) /\ ~Reactivated(k)[s].inactive
                                /\ p \in {s} \X Reactivated(k)[s].tools
    BY DEF Payload, ToolsOf, Known
  <2>2. p[1] = s /\ mcpServers[s] # Unset
    BY <1>2, <2>1 DEF Payload
  <2>. QED
    BY <1>3, <2>1, <2>2 DEF Tidy, Known, DesiredActive
<1>. QED
  BY <1>2, <1>4

(* The server keeps the tools of the servers its marker names, and offers  *)
(* what is configured and what the gate knows.                             *)
LEMMA OfferedStep ==
  /\ McpTypes /\ AloneSync /\ OfferedInv /\ OfferedIsConfigured /\ StoreIsOfItsMarker
  /\ [McpNext]_mcpVars
  => OfferedInv' /\ OfferedIsConfigured' /\ StoreIsOfItsMarker'
<1>. SUFFICES ASSUME McpTypes, AloneSync, OfferedInv, OfferedIsConfigured, StoreIsOfItsMarker,
                     [McpNext]_mcpVars
              PROVE  OfferedInv' /\ OfferedIsConfigured' /\ StoreIsOfItsMarker'
  OBVIOUS
<1>. DEFINE Offered == /\ OfferedIsConfigured'
                       /\ OfferedInv' /\ StoreIsOfItsMarker'
<1>1. run \in [Syncs -> SyncRuns] /\ mcpServers \in Configs
  BY DEF McpTypes
<1>2. ASSUME UNCHANGED <<store, lastSync>>, mcpTools' \subseteq mcpTools,
             toolRegistry \subseteq toolRegistry', overlapped => overlapped',
             \/ InFlight' # {}
             \/ UNCHANGED <<mcpServers, run>>
      PROVE  Offered
  <2>1. OfferedInv' /\ StoreIsOfItsMarker'
    BY <1>2 DEF OfferedInv, StoreIsOfItsMarker
  <2>2. OfferedIsConfigured'
    <3>1. CASE InFlight' # {}
      BY <3>1 DEF OfferedIsConfigured, Quiet
    <3>2. CASE UNCHANGED <<mcpServers, run>>
      BY <1>2, <3>2 DEF OfferedIsConfigured, Quiet, InFlight
    <3>. QED
      BY <1>2, <3>1, <3>2
  <2>. QED
    BY <2>1, <2>2
<1>3. ASSUME NEW op \in {"none", "add", "remove", "toggle", "refresh"},
             NEW s \in McpServers \cup {Unset}, Launch(op, s)
      PROVE  InFlight' # {} /\ (overlapped => overlapped')
  <2>1. PICK k \in Syncs \ InFlight :
          /\ run'[k] = [Done EXCEPT !.at = "begin", !.op = op, !.of = s]
          /\ \A j \in Syncs \ {k} : run'[j] = run[j]
    BY <1>3, LaunchesOne
  <2>2. run'[k].at = "begin"
    BY <2>1 DEF Done
  <2>. QED
    BY <1>3, <2>2 DEF InFlight, Launch
<1>4. CASE UNCHANGED mcpVars
  BY <1>2, <1>4 DEF mcpVars
<1>5. CASE \E s \in McpServers : Add(s) \/ RemoveServer(s) \/ Toggle(s)
  BY <1>2, <1>3, <1>5 DEF Add, RemoveServer, Toggle, CommandSync
<1>6. CASE Refresh
  BY <1>2, <1>3, <1>6 DEF Refresh, CommandSync
<1>7. CASE Reconnect
  BY <1>2, <1>3, <1>7 DEF Reconnect
<1>8. CASE \E s \in McpServers : ListTools(s) \/ Expire(s)
  BY <1>2, <1>8 DEF ListTools, Expire
<1>9. ASSUME NEW k \in Syncs, Begin(k) PROVE Offered
  <2>1. run'[k].at \in {"check", "drop"}
    BY <1>9, BeginsOne
  <2>2. InFlight' # {}
    BY <2>1 DEF InFlight
  <2>. QED
    BY <1>2, <1>9, <2>2 DEF Begin
<1>10. ASSUME NEW k \in Syncs, CheckMisses(k) PROVE Offered
  <2>1. run'[k].at = "drop"
    BY <1>10, GoesOn DEF CheckMisses
  <2>2. InFlight' # {}
    BY <2>1 DEF InFlight
  <2>. QED
    BY <1>2, <1>10, <2>2 DEF CheckMisses
<1>11. ASSUME NEW k \in Syncs, NEW s \in McpServers,
              DropServer(k, s) \/ DeactivateServer(k, s) \/ DiscoverServer(k, s)
       PROVE  Offered
  <2>1. run[k].at = "drop"
    BY <1>11 DEF DropServer, DeactivateServer, DiscoverServer
  <2>2. run'[k].at = run[k].at
    <3>1. ASSUME NEW e \in {Unset} \cup CachedEntry, Save(k, s, e) PROVE run'[k].at = run[k].at
      BY <3>1, SavesOne
    <3>2. CASE DropServer(k, s)
      BY <3>1, <3>2 DEF DropServer
    <3>3. CASE DeactivateServer(k, s)
      <4>1. run[k].cached[s] # Unset => [run[k].cached[s] EXCEPT !.inactive = TRUE] \in CachedEntry
        <5>1. run[k].cached[s] \in {Unset} \cup CachedEntry
          BY <1>1 DEF SyncRuns, Caches
        <5>2. \A e \in CachedEntry : [e EXCEPT !.inactive = TRUE] \in CachedEntry
          BY DEF CachedEntry
        <5>. QED
          BY <5>1, <5>2
      <4>2. CASE run[k].cached[s] = Unset
        BY <3>3, <4>2, PlansLess DEF DeactivateServer
      <4>3. CASE run[k].cached[s] # Unset
        BY <3>1, <3>3, <4>1, <4>3 DEF DeactivateServer
      <4>. QED
        BY <4>2, <4>3
    <3>4. CASE DiscoverServer(k, s)
      <4>1. run[k].config[s].with \in Settings
        BY <1>1, <3>4 DEF McpTypes, DiscoverServer, OfItsSnapshot, DesiredActive, SyncRuns, Configs
      <4>. DEFINE with == run[k].config[s].with
                  openedWith == IF connections[s] = Unset THEN with ELSE connections[s]
      <4>2. Entry(with, Advertised[openedWith]) \in CachedEntry
        BY <4>1, OpensWith, CachesOf
      <4>3. CASE Save(k, s, Entry(with, Advertised[openedWith]))
        BY <3>1, <4>2, <4>3
      <4>4. CASE run' = [run EXCEPT ![k].plan.discover = @ \ {s}]
        BY <4>4, PlansLess
      <4>. QED
        BY <3>4, <4>3, <4>4 DEF DiscoverServer
    <3>. QED
      BY <1>11, <3>2, <3>3, <3>4
  <2>3. InFlight' # {}
    BY <2>1, <2>2 DEF InFlight
  <2>4. UNCHANGED <<store, lastSync, mcpTools, overlapped>> /\ toolRegistry \subseteq toolRegistry'
    BY <1>11 DEF DropServer, DeactivateServer, DiscoverServer
  <2>. QED
    BY <1>2, <2>3, <2>4
<1>12. ASSUME NEW k \in Syncs, CheckHits(k) PROVE Offered
  <2>. DEFINE seeded == SeedCacheFromFlatTools(run[k].config, store.tools)
  <2>1. /\ store # Unset /\ store.marker = RootMarker(run[k].config) /\ mcpTools' = store.tools
        /\ toolRegistry' = ToolsOf(seeded) /\ lastSync' = "hit" /\ run[k].at = "check"
        /\ UNCHANGED <<mcpServers, store, overlapped>>
    BY <1>12 DEF CheckHits, SyncCheck, RebuildToolRegistry, EndsAs
  <2>2. StoreIsOfItsMarker'
    BY <2>1 DEF StoreIsOfItsMarker
  <2>3. ASSUME ~overlapped, NEW p \in store.tools
        PROVE  p[1] \in DesiredActive(run[k].config) /\ p = <<p[1], p[2]>> /\ p[2] \in AllTools
    <3>1. p \in McpServers \X AllTools
      BY <2>1 DEF McpTypes
    <3>2. RootMarker(run[k].config)[p[1]] # Unset
      BY <2>1, <2>3 DEF StoreIsOfItsMarker
    <3>3. p[1] \in DesiredActive(run[k].config)
      BY <3>1, <3>2 DEF RootMarker
    <3>. QED
      BY <3>1, <3>3
  <2>4. ASSUME ~overlapped, NEW p \in store.tools PROVE p \in ToolsOf(seeded)
    <3>. DEFINE s == p[1]
                own == {t \in UNION {Advertised[c] : c \in Settings} : <<s, t>> \in store.tools}
    <3>1. s \in DesiredActive(run[k].config) /\ p = <<s, p[2]>> /\ p[2] \in AllTools
      BY <2>3, <2>4
    <3>2. p[2] \in own
      BY <2>4, <3>1 DEF AllTools
    <3>3. s \in McpServers /\ run[k].config[s].with \in Settings
      BY <1>1, <3>1 DEF DesiredActive, SyncRuns, Configs
    <3>4. seeded[s] = Entry(run[k].config[s].with, own)
      BY <3>1, <3>2, <3>3 DEF SeedCacheFromFlatTools
    <3>5. own \in SUBSET AllTools
      BY DEF AllTools
    <3>. HIDE DEF own, seeded
    <3>6. Entry(run[k].config[s].with, own) \in CachedEntry
      BY <3>3, <3>5, CachesOf
    <3>7. seeded[s] # Unset /\ ~seeded[s].inactive /\ seeded[s].tools = own
      <4>1. Unset \notin CachedEntry
        BY McpAssumption
      <4>2. seeded[s] # Unset
        BY <3>4, <3>6, <4>1
      <4>3. \A with : ~Entry(with, own).inactive /\ Entry(with, own).tools = own
        BY DEF Entry
      <4>. QED
        BY <3>4, <4>2, <4>3
    <3>8. s \in {r \in Known(seeded) : ~seeded[r].inactive}
      BY <3>3, <3>7 DEF Known
    <3>9. p \in {s} \X seeded[s].tools
      BY <3>1, <3>2, <3>7
    <3>. QED
      BY <3>8, <3>9 DEF ToolsOf
  <2>5. OfferedInv'
    BY <2>1, <2>4 DEF OfferedInv
  <2>6. ~overlapped => run[k].config = mcpServers
    BY <2>1 DEF AloneSync
  <2>7. OfferedIsConfigured'
    BY <2>1, <2>3, <2>6 DEF OfferedIsConfigured, DesiredActive
  <2>. QED
    BY <2>2, <2>5, <2>7
<1>13. ASSUME NEW k \in Syncs, Publish(k) PROVE Offered
  <2>1. UNCHANGED <<mcpServers, overlapped>> /\ toolRegistry' = ToolsOf(Reactivated(k))
    BY <1>13 DEF Publish, RebuildToolRegistry
  <2>2. \/ lastSync' \in {"empty", "failed"} /\ store' = store
        \/ /\ lastSync' = "published" /\ mcpTools' = Payload(k)
           /\ store' = [marker |-> RootMarker(run[k].config), tools |-> Payload(k)]
    BY <1>13 DEF Publish, EndsAs, ToolsSync
  <2>3. CASE lastSync' \in {"empty", "failed"} /\ store' = store
    BY <2>1, <2>3 DEF OfferedInv, OfferedIsConfigured, StoreIsOfItsMarker
  <2>4. CASE /\ lastSync' = "published" /\ mcpTools' = Payload(k)
             /\ store' = [marker |-> RootMarker(run[k].config), tools |-> Payload(k)]
    <3>1. OfferedInv'
      BY <2>1, <2>4 DEF OfferedInv, Payload
    <3>2. ~overlapped => /\ run[k].config = mcpServers
                         /\ \A p \in Payload(k) : p[1] \in DesiredActive(mcpServers)
      BY <1>13, PublishesEnabled
    <3>3. OfferedIsConfigured'
      BY <2>1, <2>4, <3>2 DEF OfferedIsConfigured, DesiredActive
    <3>4. \A s \in DesiredActive(mcpServers) : RootMarker(mcpServers)[s] # Unset
      <4>1. \A s \in DesiredActive(mcpServers) : mcpServers[s].with \in Settings /\ s \in McpServers
        BY <1>1 DEF DesiredActive, Configs
      <4>. QED
        BY <4>1, McpAssumption DEF RootMarker
    <3>5. StoreIsOfItsMarker'
      BY <2>1, <2>4, <3>2, <3>4 DEF StoreIsOfItsMarker
    <3>. QED
      BY <3>1, <3>3, <3>5
  <2>. QED
    BY <2>2, <2>3, <2>4
<1>. QED
  BY <1>4, <1>5, <1>6, <1>7, <1>8, <1>9, <1>10, <1>11, <1>12, <1>13 DEF McpNext, SyncStep

(* What the syncs are proved to keep is what the run checks.               *)
LEMMA SyncsHold == SyncInv => McpInv
<1>. SUFFICES ASSUME SyncInv PROVE McpInv
  OBVIOUS
<1>1. McpTypes
  BY DEF SyncInv
<1>2. McpTypeOK
  <2>1. \A s \in McpServers : mcpServers[s] # Unset => mcpServers[s].with \in Settings
    BY <1>1 DEF McpTypes, Configs
  <2>2. \A s \in Known(entries) : entries[s].marker \in Settings
    BY <1>1 DEF McpTypes, Known, Caches, CachedEntry
  <2>3. \A k \in Syncs : run[k].plan \in Plan
    BY <1>1 DEF McpTypes, SyncRuns
  <2>. QED
    BY <2>1, <2>2, <2>3 DEF McpTypeOK
<1>3. OfferedIsCallable
  BY DEF SyncInv, OfferedInv, OfferedIsCallable
<1>. QED
  BY <1>2, <1>3 DEF SyncInv, McpInv

(* The invariant of the syncs is kept by every step.                       *)
LEMMA SyncsStep == SyncInv /\ [McpNext]_mcpVars => SyncInv'
BY McpTypesStep, AloneSyncStep, OfferedStep DEF SyncInv

(* After a sync the model is offered only tools that may be called and     *)
(* servers that are enabled.                                               *)
THEOREM SyncsAreSafe == McpInit /\ [][McpNext]_mcpVars => []McpInv
<1>1. McpInit /\ [][McpNext]_mcpVars => []SyncInv
  BY McpStart, SyncsStep, PTL
<1>. QED
  BY <1>1, SyncsHold, PTL

-----------------------------------------------------------------------------
(* The reasoning of a model: for any texts and tags, chunks of any length, *)
(* and commits at any time.  What the scanner holds back of a chunk is all *)
(* that a tag could still begin with, so the next chunk finds the tags     *)
(* that the whole text has there.                                          *)

(* A set of numbers that is not empty has a least one.                     *)
LEMMA LeastNumber ==
  ASSUME NEW S, S \subseteq Nat, S # {}
  PROVE  \E x \in S : \A y \in S : x <= y
<1>1. IsWellFoundedOn(OpToRel(<,Nat), Nat)
  BY NatLessThanWellFounded
<1>2. PICK x \in S : \A y \in S : ~ (<<y, x>> \in OpToRel(<,Nat))
  BY <1>1, WFMin
<1>3. \A y \in S : ~(y < x)
  BY <1>2 DEF OpToRel
<1>. QED
  BY <1>3

(* Induction over natural numbers, for sets of them: what is not in the    *)
(* set would have a least one.                                             *)
LEMMA NatInd ==
  ASSUME NEW S, 0 \in S, \A n \in Nat : n \in S => n + 1 \in S
  PROVE  Nat \subseteq S
<1>. SUFFICES ASSUME Nat \ S # {} PROVE FALSE
  OBVIOUS
<1>1. PICK x \in Nat \ S : \A y \in Nat \ S : x <= y
  <2>1. Nat \ S \subseteq Nat
    OBVIOUS
  <2>. QED
    BY <2>1, LeastNumber
<1>2. x # 0 /\ x - 1 \in Nat /\ ~(x <= x - 1)
  OBVIOUS
<1>. QED
  BY <1>1, <1>2

(* A part of a text.                                                       *)
LEMMA PartIs ==
  ASSUME NEW K, NEW t \in Seq(K), NEW m \in Nat \ {0}, NEW n \in 0..Len(t)
  PROVE  /\ SubSeq(t, m, n) \in Seq(K)
         /\ Len(SubSeq(t, m, n)) = IF m <= n THEN n - m + 1 ELSE 0
         /\ \A k \in 1..(n - m + 1) : SubSeq(t, m, n)[k] = t[m + k - 1]
<1>1. \A k \in m..n : t[k] \in K
  BY ElementOfSeq
<1>. QED
  BY <1>1, SubSeqProperties

(* Where a tag is, symbol by symbol.                                       *)
LEMMA AtIs ==
  ASSUME NEW K, NEW t \in Seq(K), NEW tag \in Seq(K), tag # <<>>, NEW i \in Nat \ {0}
  PROVE  IsAt(t, tag, i) <=> /\ i + Len(tag) - 1 <= Len(t)
                             /\ \A k \in 1..Len(tag) : t[i + k - 1] = tag[k]
<1>1. Len(tag) \in Nat \ {0} /\ Len(t) \in Nat
  BY EmptySeq, LenProperties
<1>2. CASE ~(i + Len(tag) - 1 <= Len(t))
  BY <1>2 DEF IsAt
<1>3. CASE i + Len(tag) - 1 <= Len(t)
  <2>1. PICK e \in 0..Len(t) : e = i + Len(tag) - 1
    <3>1. i + Len(tag) - 1 \in 0..Len(t)
      BY <1>1, <1>3
    <3>. QED
      BY <3>1
  <2>2. PICK p : p = SubSeq(t, i, e)
    OBVIOUS
  <2>3. p \in Seq(K) /\ Len(p) = Len(tag) /\ \A k \in 1..Len(tag) : p[k] = t[i + k - 1]
    <3>1. i <= e /\ e - i + 1 = Len(tag)
      BY <1>1, <2>1
    <3>. QED
      BY <2>2, <3>1, PartIs
  <2>4. p = tag <=> \A k \in 1..Len(tag) : p[k] = tag[k]
    BY <2>3, SeqEqual
  <2>. QED
    BY <1>3, <2>1, <2>2, <2>3, <2>4 DEF IsAt
<1>. QED
  BY <1>2, <1>3

(* The first place of a tag is where it is and not before.                 *)
LEMMA FindIs ==
  ASSUME NEW t, NEW tag, Len(t) \in Nat
  PROVE  \/ Find(t, tag) = 0 /\ \A i \in 1..Len(t) : ~IsAt(t, tag, i)
         \/ /\ Find(t, tag) \in 1..Len(t) /\ IsAt(t, tag, Find(t, tag))
            /\ \A j \in 1..(Find(t, tag) - 1) : ~IsAt(t, tag, j)
<1>1. CASE \A i \in 1..Len(t) : ~IsAt(t, tag, i)
  BY <1>1 DEF Find
<1>2. CASE \E i \in 1..Len(t) : IsAt(t, tag, i)
  <2>1. PICK S : S = {i \in 1..Len(t) : IsAt(t, tag, i)}
    OBVIOUS
  <2>2. PICK i \in S : \A j \in S : i <= j
    <3>1. S \subseteq Nat /\ S # {}
      BY <1>2, <2>1
    <3>. QED
      BY <3>1, LeastNumber
  <2>3. i \in 1..Len(t) /\ IsAt(t, tag, i)
    BY <2>1, <2>2
  <2>4. ASSUME NEW j \in 1..(i - 1) PROVE ~IsAt(t, tag, j)
    BY <2>1, <2>2, <2>3
  <2>5. \E k \in 1..Len(t) : IsAt(t, tag, k) /\ \A j \in 1..(k - 1) : ~IsAt(t, tag, j)
    BY <2>3, <2>4
  <2>. QED
    BY <1>2, <2>5 DEF Find
<1>. QED
  BY <1>1, <1>2

(* There is no other such place.                                           *)
LEMMA FindOnly ==
  ASSUME NEW t, NEW tag, Len(t) \in Nat, NEW i \in 1..Len(t), IsAt(t, tag, i),
         \A j \in 1..(i - 1) : ~IsAt(t, tag, j)
  PROVE  Find(t, tag) = i
<1>1. PICK f : f = Find(t, tag)
  OBVIOUS
<1>2. f \in 1..Len(t) /\ IsAt(t, tag, f) /\ \A j \in 1..(f - 1) : ~IsAt(t, tag, j)
  BY <1>1, FindIs
<1>3. ~(f < i) /\ ~(i < f)
  BY <1>2
<1>. QED
  BY <1>1, <1>2, <1>3

(* Parts of two texts, one behind the other.                               *)
LEMMA PartsOfTwo ==
  ASSUME NEW K, NEW t \in Seq(K), NEW c \in Seq(K)
  PROVE  /\ t \o c \in Seq(K) /\ Len(t \o c) = Len(t) + Len(c)
         /\ \A n \in 0..Len(t) : SubSeq(t \o c, 1, n) = SubSeq(t, 1, n)
         /\ \A n \in 0..Len(t) :
              SubSeq(t \o c, n + 1, Len(t) + Len(c)) = SubSeq(t, n + 1, Len(t)) \o c
         /\ \A n \in 0..Len(c) : SubSeq(t \o c, 1, Len(t) + n) = t \o SubSeq(c, 1, n)
         /\ \A n \in 0..Len(c) :
              SubSeq(t \o c, Len(t) + n + 1, Len(t) + Len(c)) = SubSeq(c, n + 1, Len(c))
<1>1. /\ t \o c \in Seq(K) /\ Len(t \o c) = Len(t) + Len(c) /\ Len(t) \in Nat /\ Len(c) \in Nat
      /\ \A i \in 1..(Len(t) + Len(c)) : (t \o c)[i] = IF i <= Len(t) THEN t[i] ELSE c[i - Len(t)]
  BY ConcatProperties, LenProperties
<1>2. PICK u : u = t \o c
  OBVIOUS
<1>3. PICK a \in Nat, b \in Nat : a = Len(t) /\ b = Len(c)
  BY <1>1
<1>4. /\ u \in Seq(K) /\ Len(u) = a + b
      /\ \A i \in 1..(a + b) : u[i] = IF i <= a THEN t[i] ELSE c[i - a]
  BY <1>1, <1>2, <1>3
<1>5. ASSUME NEW n \in 0..a PROVE SubSeq(u, 1, n) = SubSeq(t, 1, n)
  <2>1. PICK p, q : p = SubSeq(u, 1, n) /\ q = SubSeq(t, 1, n)
    OBVIOUS
  <2>2. n \in 0..Len(u) /\ n \in 0..Len(t) /\ n - 1 + 1 = n /\ (IF 1 <= n THEN n - 1 + 1 ELSE 0) = n
    BY <1>3, <1>4
  <2>3. p \in Seq(K) /\ Len(p) = n /\ \A k \in 1..n : p[k] = u[1 + k - 1]
    BY <1>4, <2>1, <2>2, PartIs
  <2>4. q \in Seq(K) /\ Len(q) = n /\ \A k \in 1..n : q[k] = t[1 + k - 1]
    BY <2>1, <2>2, PartIs
  <2>5. ASSUME NEW k \in 1..n PROVE p[k] = q[k]
    <3>1. k \in 1..(a + b) /\ k <= a /\ 1 + k - 1 = k
      OBVIOUS
    <3>. QED
      BY <1>4, <2>3, <2>4, <3>1
  <2>. QED
    BY <2>1, <2>3, <2>4, <2>5, SeqEqual
<1>6. ASSUME NEW n \in 0..a PROVE SubSeq(u, n + 1, a + b) = SubSeq(t, n + 1, a) \o c
  <2>1. PICK p, q : p = SubSeq(u, n + 1, a + b) /\ q = SubSeq(t, n + 1, a)
    OBVIOUS
  <2>2. PICK m \in Nat \ {0} : m = n + 1
    OBVIOUS
  <2>3. a + b \in 0..Len(u) /\ a \in 0..Len(t) /\ (IF m <= a + b THEN a + b - m + 1 ELSE 0) = a + b - n
        /\ (IF m <= a THEN a - m + 1 ELSE 0) = a - n /\ a + b - m + 1 = a + b - n /\ a - m + 1 = a - n
    BY <1>3, <1>4, <2>2
  <2>4. p \in Seq(K) /\ Len(p) = a + b - n /\ \A k \in 1..(a + b - n) : p[k] = u[m + k - 1]
    BY <1>4, <2>1, <2>2, <2>3, PartIs
  <2>5. q \in Seq(K) /\ Len(q) = a - n /\ \A k \in 1..(a - n) : q[k] = t[m + k - 1]
    <3>1. /\ SubSeq(t, m, a) \in Seq(K) /\ Len(SubSeq(t, m, a)) = IF m <= a THEN a - m + 1 ELSE 0
          /\ \A k \in 1..(a - m + 1) : SubSeq(t, m, a)[k] = t[m + k - 1]
      BY <2>3, PartIs
    <3>. QED
      BY <2>1, <2>2, <2>3, <3>1
  <2>6. /\ q \o c \in Seq(K) /\ Len(q \o c) = a + b - n
        /\ \A k \in 1..(a + b - n) : (q \o c)[k] = IF k <= a - n THEN q[k] ELSE c[k - (a - n)]
    <3>1. /\ q \o c \in Seq(K) /\ Len(q \o c) = Len(q) + Len(c)
          /\ \A k \in 1..(Len(q) + Len(c)) :
               (q \o c)[k] = IF k <= Len(q) THEN q[k] ELSE c[k - Len(q)]
      BY <2>5, ConcatProperties
    <3>2. Len(q) = a - n /\ Len(c) = b /\ a - n + b = a + b - n
      BY <1>3, <2>5
    <3>. QED
      BY <3>1, <3>2
  <2>7. ASSUME NEW k \in 1..(a + b - n) PROVE p[k] = (q \o c)[k]
    <3>1. PICK i \in 1..(a + b) : i = m + k - 1
      BY <2>2
    <3>2. CASE k <= a - n
      <4>1. i <= a /\ k \in 1..(a - n)
        BY <2>2, <3>1, <3>2
      <4>. QED
        BY <1>4, <2>4, <2>5, <2>6, <3>1, <3>2, <4>1
    <3>3. CASE ~(k <= a - n)
      <4>1. ~(i <= a) /\ i - a = k - (a - n)
        BY <2>2, <3>1, <3>3
      <4>. QED
        BY <1>4, <2>4, <2>6, <3>1, <3>3, <4>1
    <3>. QED
      BY <3>2, <3>3
  <2>8. p = q \o c
    BY <2>4, <2>6, <2>7, SeqEqual
  <2>. QED
    BY <2>1, <2>8
<1>7. ASSUME NEW n \in 0..b PROVE SubSeq(u, 1, a + n) = t \o SubSeq(c, 1, n)
  <2>1. PICK p, q : p = SubSeq(u, 1, a + n) /\ q = SubSeq(c, 1, n)
    OBVIOUS
  <2>2. a + n \in 0..Len(u) /\ n \in 0..Len(c) /\ (IF 1 <= a + n THEN a + n - 1 + 1 ELSE 0) = a + n
        /\ (IF 1 <= n THEN n - 1 + 1 ELSE 0) = n /\ n - 1 + 1 = n /\ a + n - 1 + 1 = a + n
    BY <1>3, <1>4
  <2>3. p \in Seq(K) /\ Len(p) = a + n /\ \A k \in 1..(a + n) : p[k] = u[1 + k - 1]
    BY <1>4, <2>1, <2>2, PartIs
  <2>4. q \in Seq(K) /\ Len(q) = n /\ \A k \in 1..n : q[k] = c[1 + k - 1]
    BY <2>1, <2>2, PartIs
  <2>5. /\ t \o q \in Seq(K) /\ Len(t \o q) = a + n
        /\ \A k \in 1..(a + n) : (t \o q)[k] = IF k <= a THEN t[k] ELSE q[k - a]
    BY <1>3, <2>4, ConcatProperties
  <2>6. ASSUME NEW k \in 1..(a + n) PROVE p[k] = (t \o q)[k]
    <3>1. k \in 1..(a + b) /\ 1 + k - 1 = k
      OBVIOUS
    <3>2. CASE k <= a
      BY <1>4, <2>3, <2>5, <3>1, <3>2
    <3>3. CASE ~(k <= a)
      <4>1. k - a \in 1..n /\ 1 + (k - a) - 1 = k - a
        BY <3>3
      <4>. QED
        BY <1>4, <2>3, <2>4, <2>5, <3>1, <3>3, <4>1
    <3>. QED
      BY <3>2, <3>3
  <2>7. p = t \o q
    BY <2>3, <2>5, <2>6, SeqEqual
  <2>. QED
    BY <2>1, <2>7
<1>8. ASSUME NEW n \in 0..b PROVE SubSeq(u, a + n + 1, a + b) = SubSeq(c, n + 1, b)
  <2>1. PICK p, q : p = SubSeq(u, a + n + 1, a + b) /\ q = SubSeq(c, n + 1, b)
    OBVIOUS
  <2>2. PICK m \in Nat \ {0}, l \in Nat \ {0} : m = n + 1 /\ l = a + n + 1
    OBVIOUS
  <2>3. a + b \in 0..Len(u) /\ b \in 0..Len(c) /\ (IF l <= a + b THEN a + b - l + 1 ELSE 0) = b - n
        /\ (IF m <= b THEN b - m + 1 ELSE 0) = b - n /\ a + b - l + 1 = b - n /\ b - m + 1 = b - n
    BY <1>3, <1>4, <2>2
  <2>4. p \in Seq(K) /\ Len(p) = b - n /\ \A k \in 1..(b - n) : p[k] = u[l + k - 1]
    BY <1>4, <2>1, <2>2, <2>3, PartIs
  <2>5. q \in Seq(K) /\ Len(q) = b - n /\ \A k \in 1..(b - n) : q[k] = c[m + k - 1]
    BY <1>3, <2>1, <2>2, <2>3, PartIs
  <2>6. ASSUME NEW k \in 1..(b - n) PROVE p[k] = q[k]
    <3>1. PICK i \in 1..(a + b) : i = l + k - 1 /\ ~(i <= a) /\ i - a = m + k - 1
      <4>1. l + k - 1 \in 1..(a + b) /\ ~(l + k - 1 <= a) /\ l + k - 1 - a = m + k - 1
        BY <2>2
      <4>. QED
        BY <4>1
    <3>. QED
      BY <1>4, <2>4, <2>5, <3>1
  <2>. QED
    BY <2>1, <2>4, <2>5, <2>6, SeqEqual
<1>. QED
  BY <1>1, <1>2, <1>3, <1>5, <1>6, <1>7, <1>8

(* A text is what stands before a place and what stands behind it.         *)
LEMMA PartsJoin ==
  ASSUME NEW K, NEW t \in Seq(K), NEW n \in 0..Len(t)
  PROVE  /\ SubSeq(t, 1, n) \in Seq(K) /\ Len(SubSeq(t, 1, n)) = n
         /\ SubSeq(t, n + 1, Len(t)) \in Seq(K) /\ Len(SubSeq(t, n + 1, Len(t))) = Len(t) - n
         /\ SubSeq(t, 1, n) \o SubSeq(t, n + 1, Len(t)) = t
<1>1. Len(t) \in Nat
  BY LenProperties
<1>2. PICK m \in Nat \ {0} : m = n + 1
  OBVIOUS
<1>3. (IF 1 <= n THEN n - 1 + 1 ELSE 0) = n /\ (IF m <= Len(t) THEN Len(t) - m + 1 ELSE 0) = Len(t) - n
  BY <1>1, <1>2
<1>4. SubSeq(t, 1, n) \in Seq(K) /\ Len(SubSeq(t, 1, n)) = n
  BY <1>3, PartIs
<1>5. SubSeq(t, m, Len(t)) \in Seq(K) /\ Len(SubSeq(t, m, Len(t))) = Len(t) - n
  <2>1. Len(t) \in 0..Len(t)
    BY <1>1
  <2>. QED
    BY <1>3, <2>1, PartIs
<1>6. SubSeq(t, 1, n) \o SubSeq(t, n + 1, Len(t)) = SubSeq(t, 1, Len(t))
  <2>1. 1 \in 1..(Len(t) + 1) /\ n \in (1 - 1)..Len(t) /\ Len(t) \in n..Len(t)
    BY <1>1
  <2>. QED
    BY <2>1, ConcatAdjacentSubSeq
<1>. QED
  BY <1>2, <1>4, <1>5, <1>6, SubSeqFull

(* A tag found in a text is found in the text with more behind it.         *)
LEMMA AtOfLonger ==
  ASSUME NEW K, NEW t \in Seq(K), NEW c \in Seq(K), NEW tag \in Seq(K), tag # <<>>,
         NEW i \in Nat \ {0}, i + Len(tag) - 1 <= Len(t)
  PROVE  IsAt(t \o c, tag, i) <=> IsAt(t, tag, i)
<1>1. Len(t) \in Nat /\ Len(c) \in Nat /\ Len(tag) \in Nat \ {0}
  BY EmptySeq, LenProperties
<1>2. PICK u : u = t \o c
  OBVIOUS
<1>3. /\ u \in Seq(K) /\ Len(u) = Len(t) + Len(c)
      /\ \A j \in 1..(Len(t) + Len(c)) : u[j] = IF j <= Len(t) THEN t[j] ELSE c[j - Len(t)]
  BY <1>2, ConcatProperties
<1>4. ASSUME NEW k \in 1..Len(tag) PROVE u[i + k - 1] = t[i + k - 1]
  <2>1. PICK j \in 1..(Len(t) + Len(c)) : j = i + k - 1 /\ j <= Len(t)
    <3>1. i + k - 1 \in 1..(Len(t) + Len(c)) /\ i + k - 1 <= Len(t)
      BY <1>1
    <3>. QED
      BY <3>1
  <2>. QED
    BY <1>3, <2>1
<1>5. i + Len(tag) - 1 <= Len(u)
  BY <1>1, <1>3
<1>6. IsAt(u, tag, i) <=> \A k \in 1..Len(tag) : u[i + k - 1] = tag[k]
  <2>1. u \in Seq(K)
    BY <1>3
  <2>2. IsAt(u, tag, i) <=> /\ i + Len(tag) - 1 <= Len(u)
                            /\ \A k \in 1..Len(tag) : u[i + k - 1] = tag[k]
    BY <2>1, AtIs
  <2>. QED
    BY <1>5, <2>2
<1>7. IsAt(t, tag, i) <=> \A k \in 1..Len(tag) : t[i + k - 1] = tag[k]
  BY AtIs
<1>. QED
  BY <1>2, <1>4, <1>6, <1>7

(* So the first place of it stays the first.                               *)
LEMMA FindOfLonger ==
  ASSUME NEW K, NEW t \in Seq(K), NEW c \in Seq(K), NEW tag \in Seq(K), tag # <<>>,
         Find(t, tag) # 0
  PROVE  Find(t \o c, tag) = Find(t, tag)
<1>1. Len(t) \in Nat /\ Len(c) \in Nat /\ Len(tag) \in Nat \ {0} /\ Len(t \o c) = Len(t) + Len(c)
  BY EmptySeq, LenProperties, ConcatProperties
<1>2. PICK i : i = Find(t, tag)
  OBVIOUS
<1>3. i \in 1..Len(t) /\ IsAt(t, tag, i) /\ \A j \in 1..(i - 1) : ~IsAt(t, tag, j)
  BY <1>1, <1>2, FindIs
<1>4. i + Len(tag) - 1 <= Len(t)
  BY <1>3 DEF IsAt
<1>5. IsAt(t \o c, tag, i)
  BY <1>3, <1>4, AtOfLonger
<1>6. ASSUME NEW j \in 1..(i - 1) PROVE ~IsAt(t \o c, tag, j)
  <2>1. j \in Nat \ {0} /\ j + Len(tag) - 1 <= Len(t)
    BY <1>1, <1>3, <1>4
  <2>. QED
    BY <1>3, <2>1, AtOfLonger
<1>7. i \in 1..Len(t \o c) /\ Len(t \o c) \in Nat
  BY <1>1, <1>3
<1>. QED
  BY <1>2, <1>5, <1>6, <1>7, FindOnly

(* What stands before a tag and behind it.                                 *)
LEMMA FoundParts ==
  ASSUME NEW K, NEW t \in Seq(K), NEW tag \in Seq(K), tag # <<>>,
         NEW i, i = Find(t, tag), i # 0
  PROVE  /\ SubSeq(t, 1, i - 1) \in Seq(K)
         /\ After(t, tag, i) \in Seq(K) /\ Len(After(t, tag, i)) < Len(t)
<1>1. Len(t) \in Nat /\ Len(tag) \in Nat \ {0}
  BY EmptySeq, LenProperties
<1>2. i \in 1..Len(t) /\ IsAt(t, tag, i)
  BY <1>1, FindIs
<1>3. PICK m \in 0..Len(t) : m = i + Len(tag) - 1
  <2>1. i + Len(tag) - 1 \in 0..Len(t)
    BY <1>1, <1>2 DEF IsAt
  <2>. QED
    BY <2>1
<1>4. PICK l \in 0..Len(t) : l = i - 1
  <2>1. i - 1 \in 0..Len(t)
    BY <1>1, <1>2
  <2>. QED
    BY <2>1
<1>5. m + 1 = i + Len(tag) /\ m > 0
  BY <1>1, <1>2, <1>3
<1>7. After(t, tag, i) = SubSeq(t, m + 1, Len(t))
  BY <1>5 DEF After
<1>8. SubSeq(t, m + 1, Len(t)) \in Seq(K) /\ Len(SubSeq(t, m + 1, Len(t))) = Len(t) - m
  BY PartsJoin
<1>9. Len(After(t, tag, i)) < Len(t)
  BY <1>1, <1>5, <1>7, <1>8
<1>10. SubSeq(t, 1, l) \in Seq(K)
  BY PartsJoin
<1>. QED
  BY <1>4, <1>7, <1>8, <1>9, <1>10

(* What a found tag leaves of a text that goes on.                         *)
LEMMA PartsOfFound ==
  ASSUME NEW K, NEW t \in Seq(K), NEW c \in Seq(K), NEW tag \in Seq(K), tag # <<>>,
         Find(t, tag) # 0
  PROVE  /\ SubSeq(t \o c, 1, Find(t, tag) - 1) = SubSeq(t, 1, Find(t, tag) - 1)
         /\ After(t \o c, tag, Find(t, tag)) = After(t, tag, Find(t, tag)) \o c
<1>0. PICK i : i = Find(t, tag)
  OBVIOUS
<1>1. Len(t) \in Nat /\ Len(tag) \in Nat \ {0} /\ Len(t \o c) = Len(t) + Len(c)
  BY EmptySeq, LenProperties, ConcatProperties
<1>2. i \in 1..Len(t) /\ IsAt(t, tag, i)
  BY <1>0, <1>1, FindIs
<1>3. PICK m \in 0..Len(t) : m = i + Len(tag) - 1
  <2>1. i + Len(tag) - 1 \in 0..Len(t)
    BY <1>1, <1>2 DEF IsAt
  <2>. QED
    BY <2>1
<1>4. PICK l \in 0..Len(t) : l = i - 1
  <2>1. i - 1 \in 0..Len(t)
    BY <1>1, <1>2
  <2>. QED
    BY <2>1
<1>5. m + 1 = i + Len(tag)
  BY <1>1, <1>2, <1>3
<1>6. After(t \o c, tag, i) = SubSeq(t \o c, m + 1, Len(t \o c))
  BY <1>5 DEF After
<1>7. After(t, tag, i) = SubSeq(t, m + 1, Len(t))
  BY <1>5 DEF After
<1>8. SubSeq(t \o c, 1, l) = SubSeq(t, 1, l)
  BY PartsOfTwo
<1>9. SubSeq(t \o c, m + 1, Len(t) + Len(c)) = SubSeq(t, m + 1, Len(t)) \o c
  BY PartsOfTwo
<1>. QED
  BY <1>0, <1>1, <1>4, <1>6, <1>7, <1>8, <1>9

(* A tag behind some text is where it is without it.                       *)
LEMMA AtBehind ==
  ASSUME NEW K, NEW d \in Seq(K), NEW u \in Seq(K), NEW tag \in Seq(K), tag # <<>>,
         NEW i \in Nat \ {0}
  PROVE  IsAt(d \o u, tag, Len(d) + i) <=> IsAt(u, tag, i)
<1>1. Len(d) \in Nat /\ Len(u) \in Nat /\ Len(tag) \in Nat \ {0}
  BY EmptySeq, LenProperties
<1>2. PICK w : w = d \o u
  OBVIOUS
<1>3. /\ w \in Seq(K) /\ Len(w) = Len(d) + Len(u)
      /\ \A j \in 1..(Len(d) + Len(u)) : w[j] = IF j <= Len(d) THEN d[j] ELSE u[j - Len(d)]
  BY <1>2, ConcatProperties
<1>4. PICK j \in Nat \ {0} : j = Len(d) + i
  <2>1. Len(d) + i \in Nat \ {0}
    BY <1>1
  <2>. QED
    BY <2>1
<1>5. IsAt(w, tag, j) <=> /\ j + Len(tag) - 1 <= Len(w)
                          /\ \A k \in 1..Len(tag) : w[j + k - 1] = tag[k]
  <2>1. w \in Seq(K)
    BY <1>3
  <2>. QED
    BY <2>1, AtIs
<1>6. IsAt(u, tag, i) <=> /\ i + Len(tag) - 1 <= Len(u)
                          /\ \A k \in 1..Len(tag) : u[i + k - 1] = tag[k]
  BY AtIs
<1>7. (j + Len(tag) - 1 <= Len(w)) <=> (i + Len(tag) - 1 <= Len(u))
  BY <1>1, <1>3, <1>4
<1>8. ASSUME i + Len(tag) - 1 <= Len(u), NEW k \in 1..Len(tag)
      PROVE  w[j + k - 1] = u[i + k - 1]
  <2>1. PICK l \in 1..(Len(d) + Len(u)) :
          l = j + k - 1 /\ ~(l <= Len(d)) /\ l - Len(d) = i + k - 1
    <3>1. /\ j + k - 1 \in 1..(Len(d) + Len(u)) /\ ~(j + k - 1 <= Len(d))
          /\ j + k - 1 - Len(d) = i + k - 1
      BY <1>1, <1>4, <1>8
    <3>. QED
      BY <3>1
  <2>. QED
    BY <1>3, <2>1
<1>. QED
  BY <1>2, <1>4, <1>5, <1>6, <1>7, <1>8

(* And its first place, if none reaches into the text before.              *)
LEMMA FindBehind ==
  ASSUME NEW K, NEW d \in Seq(K), NEW u \in Seq(K), NEW tag \in Seq(K), tag # <<>>,
         \A j \in 1..Len(d) : ~IsAt(d \o u, tag, j)
  PROVE  Find(d \o u, tag) = IF Find(u, tag) = 0 THEN 0 ELSE Len(d) + Find(u, tag)
<1>1. Len(d) \in Nat /\ Len(u) \in Nat /\ Len(d \o u) = Len(d) + Len(u)
  BY LenProperties, ConcatProperties
<1>2. ASSUME NEW j \in 1..Len(d \o u), IsAt(d \o u, tag, j)
      PROVE  j - Len(d) \in 1..Len(u) /\ IsAt(u, tag, j - Len(d))
  <2>1. ~(j <= Len(d))
    <3>1. j <= Len(d) => j \in 1..Len(d)
      BY <1>1
    <3>. QED
      BY <1>2, <3>1
  <2>2. PICK i \in Nat \ {0} : i = j - Len(d) /\ i \in 1..Len(u)
    <3>1. j - Len(d) \in Nat \ {0} /\ j - Len(d) \in 1..Len(u)
      BY <1>1, <2>1
    <3>. QED
      BY <3>1
  <2>3. Len(d) + i = j
    BY <1>1, <2>2
  <2>. QED
    BY <1>2, <2>2, <2>3, AtBehind
<1>3. CASE Find(u, tag) = 0
  <2>1. \A i \in 1..Len(u) : ~IsAt(u, tag, i)
    BY <1>1, <1>3, FindIs
  <2>2. \A j \in 1..Len(d \o u) : ~IsAt(d \o u, tag, j)
    BY <1>2, <2>1
  <2>. QED
    BY <1>3, <2>2 DEF Find
<1>4. CASE Find(u, tag) # 0
  <2>1. PICK i : i = Find(u, tag)
    OBVIOUS
  <2>2. i \in 1..Len(u) /\ IsAt(u, tag, i) /\ \A k \in 1..(i - 1) : ~IsAt(u, tag, k)
    BY <1>1, <1>4, <2>1, FindIs
  <2>3. PICK e \in 1..Len(d \o u) : e = Len(d) + i
    <3>1. Len(d) + i \in 1..Len(d \o u)
      BY <1>1, <2>2
    <3>. QED
      BY <3>1
  <2>4. IsAt(d \o u, tag, e)
    <3>1. i \in Nat \ {0}
      BY <2>2
    <3>. QED
      BY <2>2, <2>3, <3>1, AtBehind
  <2>5. ASSUME NEW j \in 1..(e - 1) PROVE ~IsAt(d \o u, tag, j)
    <3>1. SUFFICES ASSUME IsAt(d \o u, tag, j) PROVE FALSE
      OBVIOUS
    <3>2. j \in 1..Len(d \o u)
      BY <1>1, <2>3
    <3>3. j - Len(d) \in 1..Len(u) /\ IsAt(u, tag, j - Len(d))
      BY <1>2, <3>1, <3>2
    <3>4. j - Len(d) \in 1..(i - 1)
      BY <1>1, <2>2, <2>3, <3>3
    <3>. QED
      BY <2>2, <3>3, <3>4
  <2>6. Find(d \o u, tag) = e
    <3>1. Len(d \o u) \in Nat
      BY <1>1
    <3>. QED
      BY <2>3, <2>4, <2>5, <3>1, FindOnly
  <2>. QED
    BY <1>4, <2>1, <2>3, <2>6
<1>. QED
  BY <1>3, <1>4

(* What is held back of a text: its longest end that a tag begins with.    *)
Begins(t, n, tag) == \A k \in 1..n : t[Len(t) - n + k] = tag[k]
CouldBegin(t, n, tag) == n \in 0..Len(t) /\ n < Len(tag) /\ Begins(t, n, tag)

(* The beginning of a tag, symbol by symbol.                               *)
LEMMA BeginsIs ==
  ASSUME NEW K, NEW t \in Seq(K), NEW tag \in Seq(K), NEW n \in 0..Len(t), n < Len(tag)
  PROVE  IsPrefix(SubSeq(t, Len(t) - n + 1, Len(t)), tag) <=> Begins(t, n, tag)
<1>1. Len(t) \in Nat /\ Len(tag) \in Nat
  BY LenProperties
<1>2. PICK m \in Nat \ {0} : m = Len(t) - n + 1
  <2>1. Len(t) - n + 1 \in Nat \ {0}
    BY <1>1
  <2>. QED
    BY <2>1
<1>3. PICK p : p = SubSeq(t, m, Len(t))
  OBVIOUS
<1>4. p \in Seq(K) /\ Len(p) = n /\ \A k \in 1..n : p[k] = t[m + k - 1]
  <2>1. Len(t) \in 0..Len(t) /\ (IF m <= Len(t) THEN Len(t) - m + 1 ELSE 0) = n /\ Len(t) - m + 1 = n
    BY <1>1, <1>2
  <2>2. /\ SubSeq(t, m, Len(t)) \in Seq(K)
        /\ Len(SubSeq(t, m, Len(t))) = IF m <= Len(t) THEN Len(t) - m + 1 ELSE 0
        /\ \A k \in 1..(Len(t) - m + 1) : SubSeq(t, m, Len(t))[k] = t[m + k - 1]
    BY <2>1, PartIs
  <2>. QED
    BY <1>3, <2>1, <2>2
<1>5. PICK q : q = SubSeq(tag, 1, n)
  OBVIOUS
<1>6. q \in Seq(K) /\ Len(q) = n /\ \A k \in 1..n : q[k] = tag[k]
  <2>1. n \in 0..Len(tag) /\ (IF 1 <= n THEN n - 1 + 1 ELSE 0) = n /\ n - 1 + 1 = n
    BY <1>1
  <2>2. /\ SubSeq(tag, 1, n) \in Seq(K) /\ Len(SubSeq(tag, 1, n)) = IF 1 <= n THEN n - 1 + 1 ELSE 0
        /\ \A k \in 1..(n - 1 + 1) : SubSeq(tag, 1, n)[k] = tag[1 + k - 1]
    BY <2>1, PartIs
  <2>3. \A k \in 1..n : 1 + k - 1 = k
    OBVIOUS
  <2>. QED
    BY <1>5, <2>1, <2>2, <2>3
<1>7. SubSeq(p, 1, n) = p
  BY <1>4, SubSeqFull
<1>8. IsPrefix(p, tag) <=> p = q
  BY <1>1, <1>4, <1>5, <1>7 DEF IsPrefix
<1>9. p = q <=> \A k \in 1..n : p[k] = q[k]
  BY <1>4, <1>6, SeqEqual
<1>10. \A k \in 1..n : m + k - 1 = Len(t) - n + k
  BY <1>1, <1>2
<1>11. SubSeq(t, Len(t) - n + 1, Len(t)) = p
  BY <1>2, <1>3
<1>12. (\A k \in 1..n : p[k] = q[k]) <=> Begins(t, n, tag)
  <2>1. ASSUME NEW k \in 1..n PROVE p[k] = t[Len(t) - n + k] /\ q[k] = tag[k]
    BY <1>4, <1>6, <1>10
  <2>. QED
    BY <2>1 DEF Begins
<1>. QED
  BY <1>8, <1>9, <1>11, <1>12

(* It could begin a tag, and nothing longer could.                         *)
LEMMA HeldIs ==
  ASSUME NEW K, NEW t \in Seq(K), NEW tag \in Seq(K), tag # <<>>
  PROVE  /\ CouldBegin(t, Held(t, tag), tag)
         /\ \A m : CouldBegin(t, m, tag) => m <= Held(t, tag)
<1>1. Len(t) \in Nat /\ Len(tag) \in Nat \ {0}
  BY EmptySeq, LenProperties
<1>2. ASSUME NEW n \in 0..Len(t), n < Len(tag)
      PROVE  IsPrefix(SubSeq(t, Len(t) - n + 1, Len(t)), tag) <=> CouldBegin(t, n, tag)
  BY <1>2, BeginsIs DEF CouldBegin
<1>3. PICK S : S = {x \in Nat : \E n \in 0..Len(t) : x = Len(t) - n /\ CouldBegin(t, n, tag)}
  OBVIOUS
<1>4. CouldBegin(t, 0, tag)
  BY <1>1 DEF CouldBegin, Begins
<1>5. PICK x \in S : \A y \in S : x <= y
  <2>1. Len(t) \in S
    <3>1. 0 \in 0..Len(t) /\ Len(t) = Len(t) - 0
      BY <1>1
    <3>. QED
      BY <1>1, <1>3, <1>4, <3>1
  <2>2. S \subseteq Nat /\ S # {}
    BY <1>3, <2>1
  <2>. QED
    BY <2>2, LeastNumber
<1>6. PICK h \in 0..Len(t) : x = Len(t) - h /\ CouldBegin(t, h, tag)
  BY <1>3, <1>5
<1>7. ASSUME NEW m, CouldBegin(t, m, tag) PROVE m <= h
  <2>1. m \in 0..Len(t) /\ Len(t) - m \in Nat
    BY <1>1, <1>7 DEF CouldBegin
  <2>2. Len(t) - m \in S
    BY <1>3, <1>7, <2>1
  <2>3. x <= Len(t) - m
    BY <1>5, <2>2
  <2>. QED
    BY <1>1, <1>6, <2>1, <2>3
<1>8. PICK g : g = Held(t, tag)
  OBVIOUS
<1>9. /\ g \in 0..Len(t) /\ g < Len(tag) /\ IsPrefix(SubSeq(t, Len(t) - g + 1, Len(t)), tag)
      /\ \A m \in (g + 1)..Len(t) :
           m < Len(tag) => ~IsPrefix(SubSeq(t, Len(t) - m + 1, Len(t)), tag)
  <2>1. h < Len(tag) /\ IsPrefix(SubSeq(t, Len(t) - h + 1, Len(t)), tag)
    BY <1>2, <1>6 DEF CouldBegin
  <2>2. ASSUME NEW m \in (h + 1)..Len(t), m < Len(tag)
        PROVE  ~IsPrefix(SubSeq(t, Len(t) - m + 1, Len(t)), tag)
    <3>1. m \in 0..Len(t) /\ ~(m <= h)
      BY <1>1
    <3>. QED
      BY <1>2, <1>7, <2>2, <3>1
  <2>. QED
    BY <1>8, <2>1, <2>2 DEF Held
<1>10. CouldBegin(t, g, tag)
  BY <1>2, <1>9
<1>11. ASSUME NEW m, CouldBegin(t, m, tag) PROVE m <= g
  <2>1. m \in 0..Len(t) /\ m < Len(tag)
    BY <1>11 DEF CouldBegin
  <2>2. IsPrefix(SubSeq(t, Len(t) - m + 1, Len(t)), tag)
    BY <1>2, <1>11, <2>1
  <2>3. ~(m \in (g + 1)..Len(t))
    BY <1>9, <2>1, <2>2
  <2>. QED
    BY <1>1, <1>9, <2>1, <2>3
<1>. QED
  BY <1>8, <1>10, <1>11

(* There is only one such end.                                             *)
LEMMA HeldOnly ==
  ASSUME NEW K, NEW t \in Seq(K), NEW tag \in Seq(K), tag # <<>>, NEW n,
         CouldBegin(t, n, tag), \A m : CouldBegin(t, m, tag) => m <= n
  PROVE  Held(t, tag) = n
<1>1. PICK h : h = Held(t, tag)
  OBVIOUS
<1>2. CouldBegin(t, h, tag) /\ \A m : CouldBegin(t, m, tag) => m <= h
  BY <1>1, HeldIs
<1>3. h <= n /\ n <= h /\ h \in Nat /\ n \in Nat
  BY <1>2, LenProperties DEF CouldBegin
<1>. QED
  BY <1>1, <1>3

(* A text in which no tag was found, cut before the end that is held back: *)
(* a tag that comes with the next chunk begins in what was held back.      *)
LEMMA TagsAreHeld ==
  ASSUME NEW K, NEW t \in Seq(K), NEW c \in Seq(K), NEW tag \in Seq(K), tag # <<>>,
         Find(t, tag) = 0, NEW j \in 1..(Len(t) - Held(t, tag))
  PROVE  ~IsAt(t \o c, tag, j)
<1>1. Len(t) \in Nat /\ Len(c) \in Nat /\ Len(tag) \in Nat \ {0}
  BY EmptySeq, LenProperties
<1>2. PICK h : h = Held(t, tag)
  OBVIOUS
<1>3. h \in 0..Len(t) /\ \A m : CouldBegin(t, m, tag) => m <= h
  BY <1>2, HeldIs DEF CouldBegin
<1>4. j \in Nat \ {0} /\ j \in 1..Len(t) /\ j <= Len(t) - h
  BY <1>1, <1>2, <1>3
<1>5. SUFFICES ASSUME IsAt(t \o c, tag, j) PROVE FALSE
  OBVIOUS
<1>6. CASE j + Len(tag) - 1 <= Len(t)
  <2>1. IsAt(t, tag, j)
    BY <1>4, <1>5, <1>6, AtOfLonger
  <2>2. ~IsAt(t, tag, j)
    BY <1>1, <1>4, FindIs
  <2>. QED
    BY <2>1, <2>2
<1>7. CASE ~(j + Len(tag) - 1 <= Len(t))
  <2>1. PICK n \in 0..Len(t) : n = Len(t) - j + 1 /\ n < Len(tag) /\ n > h
    <3>1. /\ Len(t) - j + 1 \in 0..Len(t) /\ Len(t) - j + 1 < Len(tag) /\ Len(t) - j + 1 > h
      BY <1>1, <1>3, <1>4, <1>7
    <3>. QED
      BY <3>1
  <2>2. PICK u : u = t \o c
    OBVIOUS
  <2>3. /\ u \in Seq(K)
        /\ \A i \in 1..(Len(t) + Len(c)) : u[i] = IF i <= Len(t) THEN t[i] ELSE c[i - Len(t)]
    BY <2>2, ConcatProperties
  <2>4. \A k \in 1..Len(tag) : u[j + k - 1] = tag[k]
    <3>1. u \in Seq(K) /\ IsAt(u, tag, j)
      BY <1>5, <2>2, <2>3
    <3>. QED
      BY <1>4, <3>1, AtIs
  <2>5. ASSUME NEW k \in 1..n PROVE t[Len(t) - n + k] = tag[k]
    <3>1. PICK i \in 1..(Len(t) + Len(c)) : i = Len(t) - n + k /\ i = j + k - 1 /\ i <= Len(t)
      <4>1. /\ Len(t) - n + k \in 1..(Len(t) + Len(c)) /\ Len(t) - n + k = j + k - 1
            /\ Len(t) - n + k <= Len(t)
        BY <1>1, <1>4, <2>1
      <4>. QED
        BY <4>1
    <3>2. k \in 1..Len(tag)
      BY <1>1, <2>1
    <3>. QED
      BY <2>3, <2>4, <3>1, <3>2
  <2>6. CouldBegin(t, n, tag)
    BY <2>1, <2>5 DEF CouldBegin, Begins
  <2>. QED
    BY <1>3, <2>1, <2>6
<1>. QED
  BY <1>6, <1>7

(* With the next chunk, what was held back decides what is held back.      *)
LEMMA HeldBehind ==
  ASSUME NEW K, NEW d \in Seq(K), NEW e \in Seq(K), NEW c \in Seq(K), NEW tag \in Seq(K),
         tag # <<>>, Len(e) = Held(d \o e, tag)
  PROVE  Held(d \o (e \o c), tag) = Held(e \o c, tag)
<1>0. PICK t : t = d \o e
  OBVIOUS
<1>0a. t \in Seq(K) /\ Len(e) = Held(t, tag)
  BY <1>0, ConcatProperties
<1>1. /\ Len(t) \in Nat /\ Len(c) \in Nat /\ Len(tag) \in Nat \ {0} /\ Len(d) \in Nat
      /\ Len(e) \in Nat /\ Len(t) = Len(d) + Len(e)
  BY <1>0, EmptySeq, LenProperties, ConcatProperties
<1>2. PICK u : u = e \o c
  OBVIOUS
<1>3. PICK w : w = t \o c
  OBVIOUS
<1>4. u \in Seq(K) /\ Len(u) = Len(e) + Len(c)
  BY <1>2, ConcatProperties
<1>4a. w = d \o u
  <2>1. d \in Seq(K) /\ e \in Seq(K) /\ c \in Seq(K)
    OBVIOUS
  <2>2. (d \o e) \o c = d \o (e \o c)
    BY ONLY <2>1, ConcatAssociative
  <2>. QED
    BY <1>0, <1>2, <1>3, <2>2
<1>5. /\ w \in Seq(K) /\ Len(w) = Len(d) + Len(u)
      /\ \A i \in 1..(Len(d) + Len(u)) : w[i] = IF i <= Len(d) THEN d[i] ELSE u[i - Len(d)]
  <2>2. w = d \o u
    BY <1>4a
  <2>3. u \in Seq(K)
    BY <1>4
  <2>4. /\ d \o u \in Seq(K) /\ Len(d \o u) = Len(d) + Len(u)
        /\ \A i \in 1..(Len(d) + Len(u)) :
             (d \o u)[i] = IF i <= Len(d) THEN d[i] ELSE u[i - Len(d)]
    BY <2>3, ConcatProperties
  <2>. QED
    BY <2>2, <2>4
<1>6. /\ Len(w) = Len(t) + Len(c)
      /\ \A i \in 1..(Len(t) + Len(c)) : w[i] = IF i <= Len(t) THEN t[i] ELSE c[i - Len(t)]
  BY <1>3, <1>0a, ConcatProperties
<1>6a. /\ Len(u) \in Nat /\ Len(u) = Len(e) + Len(c) /\ Len(w) \in Nat /\ Len(w) = Len(d) + Len(u)
       /\ Len(w) = Len(t) + Len(c)
  BY <1>1, <1>4, <1>5, <1>6
<1>7. ASSUME NEW n \in 0..Len(u) PROVE Begins(w, n, tag) <=> Begins(u, n, tag)
  <2>1. ASSUME NEW k \in 1..n PROVE w[Len(w) - n + k] = u[Len(u) - n + k]
    <3>1. PICK i \in 1..(Len(d) + Len(u)) :
            i = Len(w) - n + k /\ ~(i <= Len(d)) /\ i - Len(d) = Len(u) - n + k
      <4>1. PICK a \in Nat, b \in Nat : a = Len(d) /\ b = Len(u) /\ Len(w) = a + b
        BY <1>1, <1>6a
      <4>2. n \in 0..b /\ k \in 1..n
        BY <4>1
      <4>3. PICK x \in 1..(a + b) : x = a + b - n + k
        BY <4>2
      <4>4. ~(x <= a) /\ x - a = b - n + k
        BY <4>2, <4>3
      <4>5. /\ x \in 1..(Len(d) + Len(u)) /\ x = Len(w) - n + k /\ ~(x <= Len(d))
            /\ x - Len(d) = Len(u) - n + k
        BY <4>1, <4>3, <4>4
      <4>. QED
        BY <4>5
    <3>. QED
      BY <1>5, <3>1
  <2>. QED
    BY <2>1 DEF Begins
<1>8. ASSUME NEW n, CouldBegin(w, n, tag) PROVE n \in 0..Len(u)
  <2>1. n \in 0..Len(w) /\ n < Len(tag) /\ Begins(w, n, tag)
    BY <1>8 DEF CouldBegin
  <2>2. SUFFICES ASSUME ~(n <= Len(u)) PROVE FALSE
    BY <2>1
  <2>3. PICK m \in 0..Len(t) : m = n - Len(c) /\ m > Len(e) /\ m < Len(tag)
    <3>1. n - Len(c) \in 0..Len(t) /\ n - Len(c) > Len(e) /\ n - Len(c) < Len(tag)
      BY <1>1, <1>4, <1>6, <2>1, <2>2
    <3>. QED
      BY <3>1
  <2>4. ASSUME NEW k \in 1..m PROVE t[Len(t) - m + k] = tag[k]
    <3>1. k \in 1..n
      BY <1>1, <2>1, <2>3
    <3>2. w[Len(w) - n + k] = tag[k]
      BY <2>1, <3>1 DEF Begins
    <3>3. PICK i \in 1..(Len(t) + Len(c)) :
            i = Len(w) - n + k /\ i <= Len(t) /\ i = Len(t) - m + k
      <4>1. PICK a \in Nat, b \in Nat : a = Len(t) /\ b = Len(c) /\ Len(w) = a + b
        BY <1>1, <1>6a
      <4>2. m \in 0..a /\ n = m + b /\ k \in 1..m
        BY <2>1, <2>3, <4>1
      <4>3. PICK x \in 1..(a + b) : x = a + b - n + k
        BY <4>2
      <4>4. x <= a /\ x = a - m + k
        BY <4>2, <4>3
      <4>5. /\ x \in 1..(Len(t) + Len(c)) /\ x = Len(w) - n + k /\ x <= Len(t)
            /\ x = Len(t) - m + k
        BY <4>1, <4>2, <4>3, <4>4
      <4>. QED
        BY <4>5
    <3>. QED
      BY <1>6, <3>2, <3>3
  <2>5. CouldBegin(t, m, tag)
    BY <2>3, <2>4 DEF CouldBegin, Begins
  <2>6. m <= Len(e)
    BY <1>0a, <2>5, HeldIs
  <2>. QED
    BY <1>1, <2>3, <2>6
<1>9. ASSUME NEW n PROVE CouldBegin(w, n, tag) <=> CouldBegin(u, n, tag)
  <2>1. n \in 0..Len(u) => n \in 0..Len(w)
    BY <1>1, <1>4, <1>5
  <2>2. CASE n \in 0..Len(u)
    BY <1>7, <2>1, <2>2 DEF CouldBegin
  <2>3. CASE n \notin 0..Len(u)
    BY <1>8, <2>3 DEF CouldBegin
  <2>. QED
    BY <2>2, <2>3
<1>10. PICK h : h = Held(u, tag)
  OBVIOUS
<1>11. CouldBegin(u, h, tag) /\ \A m : CouldBegin(u, m, tag) => m <= h
  BY <1>4, <1>10, HeldIs
<1>12. Held(w, tag) = h
  <2>1. CouldBegin(w, h, tag) /\ \A m : CouldBegin(w, m, tag) => m <= h
    BY <1>9, <1>11
  <2>2. w \in Seq(K)
    BY <1>5
  <2>. QED
    BY <2>1, <2>2, HeldOnly
<1>. QED
  BY <1>2, <1>10, <1>12, <1>4a

(* The rounds of a scan.                                                   *)
ScanOf(K) == [rest : Seq(K), inside : BOOLEAN, out : Seq(K)]
Stopped(s) == Find(s.rest, Tag(s.inside)) = 0
TagsOK(K) == OpenTag \in Seq(K) /\ CloseTag \in Seq(K) /\ OpenTag # <<>> /\ CloseTag # <<>>

(* The tag that a scan looks for.                                          *)
LEMMA TagIs ==
  ASSUME NEW K, TagsOK(K), NEW in \in BOOLEAN
  PROVE  Tag(in) \in Seq(K) /\ Tag(in) # <<>>
BY DEF TagsOK, Tag

(* A round takes a tag out of the text, or it is the last.                 *)
LEMMA StepShrinks ==
  ASSUME NEW K, TagsOK(K), NEW s \in ScanOf(K)
  PROVE  /\ Stopped(s) => ScanStep(s) = s
         /\ ~Stopped(s) => /\ ScanStep(s) \in ScanOf(K)
                           /\ Len(ScanStep(s).rest) < Len(s.rest)
<1>1. CASE Stopped(s)
  BY <1>1 DEF Stopped, ScanStep
<1>2. CASE ~Stopped(s)
  <2>1. PICK tag : tag = Tag(s.inside)
    OBVIOUS
  <2>2. PICK t \in Seq(K) : t = s.rest
    BY DEF ScanOf
  <2>3. tag \in Seq(K) /\ tag # <<>> /\ s.inside \in BOOLEAN /\ s.out \in Seq(K)
    BY <2>1, TagIs DEF ScanOf
  <2>4. PICK i : i = Find(t, tag)
    OBVIOUS
  <2>5. i # 0
    BY <1>2, <2>1, <2>2, <2>4 DEF Stopped
  <2>6. /\ SubSeq(t, 1, i - 1) \in Seq(K)
        /\ After(t, tag, i) \in Seq(K) /\ Len(After(t, tag, i)) < Len(t)
    BY <2>3, <2>4, <2>5, FoundParts
  <2>7. s.out \o SubSeq(t, 1, i - 1) \in Seq(K)
    BY <2>3, <2>6, ConcatProperties
  <2>8. ScanStep(s) = [rest |-> After(t, tag, i), inside |-> ~s.inside,
                       out |-> IF s.inside THEN s.out \o SubSeq(t, 1, i - 1) ELSE s.out]
    BY <2>1, <2>2, <2>4, <2>5 DEF ScanStep
  <2>9. ScanStep(s) \in ScanOf(K)
    BY <2>3, <2>6, <2>7, <2>8 DEF ScanOf
  <2>. QED
    BY <1>2, <2>2, <2>6, <2>8, <2>9
<1>. QED
  BY <1>1, <1>2

AreScans(f, s, m) == f = [k \in 0..m |-> IF k = 0 THEN s ELSE ScanStep(f[k - 1])]

(* The recursion of a scan has a solution.                                 *)
LEMMA ScansExist == ASSUME NEW s, NEW n \in Nat PROVE \E f : AreScans(f, s, n)
<1> DEFINE S == {m \in Nat : \E f : AreScans(f, s, m)}
<1>1. 0 \in S
  <2>1. PICK f : f = [k \in 0..0 |-> s]
    OBVIOUS
  <2>2. AreScans(f, s, 0)
    BY <2>1 DEF AreScans
  <2> QED BY <2>2
<1>2. ASSUME NEW m \in Nat, m \in S PROVE m + 1 \in S
  <2>1. PICK f : AreScans(f, s, m)
    BY <1>2
  <2>2. PICK g : g = [k \in 0..(m + 1) |-> IF k = m + 1 THEN ScanStep(f[m]) ELSE f[k]]
    OBVIOUS
  <2>3. \A k \in 0..m : g[k] = f[k] /\ k # m + 1
    BY <2>2
  <2>4. ASSUME NEW k \in 0..(m + 1)
        PROVE  g[k] = IF k = 0 THEN s ELSE ScanStep(g[k - 1])
    <3>1. CASE k = m + 1
      <4>1. g[k] = ScanStep(f[m])
        BY <2>2, <3>1
      <4>2. k - 1 = m /\ k # 0 /\ m \in 0..m
        BY <3>1
      <4>3. g[k - 1] = f[m]
        BY <2>3, <4>2
      <4> QED BY <4>1, <4>2, <4>3
    <3>2. CASE k = 0
      <4>1. 0 \in 0..m
        OBVIOUS
      <4>2. f[0] = s
        BY <2>1, <4>1 DEF AreScans
      <4> QED BY <2>3, <3>2, <4>1, <4>2
    <3>3. CASE k # 0 /\ k # m + 1
      <4>1. k \in 0..m /\ k - 1 \in 0..m
        BY <3>3
      <4>2. f[k] = ScanStep(f[k - 1])
        BY <2>1, <3>3, <4>1 DEF AreScans
      <4>3. g[k] = f[k] /\ g[k - 1] = f[k - 1]
        BY <2>3, <4>1
      <4> QED BY <3>3, <4>2, <4>3
    <3> QED BY <3>1, <3>2, <3>3
  <2>5. g = [k \in 0..(m + 1) |-> g[k]]
    BY <2>2
  <2>6. g = [k \in 0..(m + 1) |-> IF k = 0 THEN s ELSE ScanStep(g[k - 1])]
    BY <2>4, <2>5
  <2>7. AreScans(g, s, m + 1)
    BY <2>6 DEF AreScans
  <2> QED BY <2>7
<1> HIDE DEF S
<1>3. Nat \subseteq S
  BY <1>1, <1>2, NatInd
<1> QED BY <1>3 DEF S

(* It begins with the text, and each state is a round behind the last.     *)
LEMMA ScansAre ==
  ASSUME NEW s, NEW n \in Nat
  PROVE  Scans(s, n)[0] = s /\ \A k \in 1..n : Scans(s, n)[k] = ScanStep(Scans(s, n)[k - 1])
<1>1. PICK g : g = CHOOSE f : f = [k \in 0..n |-> IF k = 0 THEN s ELSE ScanStep(f[k - 1])]
  OBVIOUS
<1>2. g = [k \in 0..n |-> IF k = 0 THEN s ELSE ScanStep(g[k - 1])]
  BY <1>1, ScansExist DEF AreScans
<1>3. Scans(s, n) = g
  BY <1>1 DEF Scans
<1>4. \A k \in 0..n : g[k] = IF k = 0 THEN s ELSE ScanStep(g[k - 1])
  BY <1>2
<1>5. 0 \in 0..n /\ \A k \in 1..n : k \in 0..n /\ k # 0
  OBVIOUS
<1>6. g[0] = s /\ \A k \in 1..n : g[k] = ScanStep(g[k - 1])
  BY <1>4, <1>5
<1>. QED
  BY <1>3, <1>6

(* Each round leaves a state of a scan, and as many symbols fewer.         *)
LEMMA ScansShrink ==
  ASSUME NEW K, TagsOK(K), NEW s \in ScanOf(K), NEW n \in Nat, NEW k \in 0..n
  PROVE  /\ Scans(s, n)[k] \in ScanOf(K)
         /\ Stopped(Scans(s, n)[k]) \/ Len(Scans(s, n)[k].rest) + k <= Len(s.rest)
<1>1. PICK f : f = Scans(s, n)
  OBVIOUS
<1>2. f[0] = s /\ \A j \in 1..n : f[j] = ScanStep(f[j - 1])
  BY <1>1, ScansAre
<1> DEFINE P(j) == /\ f[j] \in ScanOf(K)
                   /\ Stopped(f[j]) \/ Len(f[j].rest) + j <= Len(s.rest)
           T == {j \in Nat : j <= n => P(j)}
<1>3. \A u \in ScanOf(K) : Len(u.rest) \in Nat
  BY LenProperties DEF ScanOf
<1>4. P(0)
  BY <1>2, <1>3
<1>5. ASSUME NEW j \in Nat, j \in T PROVE j + 1 \in T
  <2> HIDE DEF P
  <2>1. SUFFICES ASSUME j + 1 <= n PROVE P(j + 1)
    OBVIOUS
  <2> USE DEF P
  <2>2. PICK m \in 1..n : m = j + 1 /\ m - 1 = j
    <3>1. j + 1 \in 1..n /\ j + 1 - 1 = j
      BY <2>1
    <3>. QED
      BY <3>1
  <2>3. PICK u : u = f[j]
    OBVIOUS
  <2>4. u \in ScanOf(K) /\ (Stopped(u) \/ Len(u.rest) + j <= Len(s.rest))
    BY <1>5, <2>1, <2>3
  <2>5. f[m] = ScanStep(u)
    BY <1>2, <2>2, <2>3
  <2>6. CASE Stopped(u)
    <3>1. f[m] = u
      BY <2>4, <2>5, <2>6, StepShrinks
    <3>. QED
      BY <2>2, <2>4, <2>6, <3>1
  <2>7. CASE ~Stopped(u)
    <3>1. PICK v : v = ScanStep(u)
      OBVIOUS
    <3>2. v \in ScanOf(K) /\ Len(v.rest) < Len(u.rest)
      BY <2>4, <2>7, <3>1, StepShrinks
    <3>3. Len(v.rest) \in Nat /\ Len(u.rest) \in Nat /\ Len(s.rest) \in Nat
      BY <1>3, <2>4, <3>2
    <3>4. PICK a \in Nat, b \in Nat, c \in Nat :
            a = Len(v.rest) /\ b = Len(u.rest) /\ c = Len(s.rest)
      BY <3>3
    <3>5. a < b /\ b + j <= c
      BY <2>4, <2>7, <3>2, <3>4
    <3>6. a + (j + 1) <= c
      <4> HIDE DEF T, P
      <4>1. a + 1 <= b
        BY <3>5
      <4>2. a + (j + 1) <= b + j
        BY <4>1
      <4>3. b + j <= c
        BY <3>5
      <4>. QED
        BY <4>2, <4>3
    <3>7. Len(v.rest) + (j + 1) <= Len(s.rest)
      BY <3>4, <3>6
    <3>. QED
      BY <2>2, <2>5, <3>1, <3>2, <3>7
  <2>. QED
    BY <2>6, <2>7
<1> HIDE DEF P
<1>6. 0 \in T
  BY <1>4
<1> HIDE DEF T
<1>7. Nat \subseteq T
  BY <1>5, <1>6, NatInd
<1>8. k \in T /\ k <= n
  BY <1>7
<1>. QED
  BY <1>1, <1>8 DEF T, P

(* The rounds from the second on are those of what the first left.         *)
LEMMA ScansAhead ==
  ASSUME NEW s, NEW n \in Nat, NEW m \in Nat, NEW k \in 0..m, k + 1 <= n
  PROVE  Scans(ScanStep(s), m)[k] = Scans(s, n)[k + 1]
<1>1. PICK f, u : f = Scans(s, n) /\ u = ScanStep(s)
  OBVIOUS
<1>2. PICK g : g = Scans(u, m)
  OBVIOUS
<1>3. f[0] = s /\ \A j \in 1..n : f[j] = ScanStep(f[j - 1])
  BY <1>1, ScansAre
<1>4. g[0] = u /\ \A j \in 1..m : g[j] = ScanStep(g[j - 1])
  BY <1>2, ScansAre
<1> DEFINE T == {j \in Nat : j <= m /\ j + 1 <= n => g[j] = f[j + 1]}
<1>5. 0 \in T
  <2>1. SUFFICES ASSUME 1 <= n PROVE g[0] = f[1]
    OBVIOUS
  <2>2. 1 \in 1..n /\ 1 - 1 = 0
    BY <2>1
  <2>. QED
    BY <1>1, <1>3, <1>4, <2>2
<1>6. ASSUME NEW j \in Nat, j \in T PROVE j + 1 \in T
  <2>1. SUFFICES ASSUME j + 1 <= m, j + 1 + 1 <= n PROVE g[j + 1] = f[j + 1 + 1]
    OBVIOUS
  <2>2. g[j] = f[j + 1]
    BY <1>6, <2>1
  <2>3. PICK a \in 1..m : a = j + 1 /\ a - 1 = j
    <3>1. j + 1 \in 1..m /\ j + 1 - 1 = j
      BY <2>1
    <3>. QED
      BY <3>1
  <2>4. PICK b \in 1..n : b = j + 1 + 1 /\ b - 1 = j + 1
    <3>1. j + 1 + 1 \in 1..n /\ j + 1 + 1 - 1 = j + 1
      BY <2>1
    <3>. QED
      BY <3>1
  <2>5. g[a] = ScanStep(g[j])
    BY <1>4, <2>3
  <2>6. f[b] = ScanStep(f[j + 1])
    BY <1>3, <2>4
  <2>. QED
    BY <2>2, <2>3, <2>4, <2>5, <2>6
<1> HIDE DEF T
<1>7. Nat \subseteq T
  BY <1>5, <1>6, NatInd
<1>8. k \in T /\ k <= m
  BY <1>7
<1>. QED
  BY <1>1, <1>2, <1>8 DEF T

(* Once no tag is found, the rounds that are left change nothing.          *)
LEMMA ScansStay ==
  ASSUME NEW K, TagsOK(K), NEW s \in ScanOf(K), NEW n \in Nat, NEW j \in 0..n,
         Stopped(Scans(s, n)[j])
  PROVE  Scans(s, n)[n] = Scans(s, n)[j]
<1>1. PICK f : f = Scans(s, n)
  OBVIOUS
<1>2. f[0] = s /\ \A i \in 1..n : f[i] = ScanStep(f[i - 1])
  BY <1>1, ScansAre
<1>3. f[j] \in ScanOf(K) /\ Stopped(f[j])
  BY <1>1, ScansShrink
<1>4. ScanStep(f[j]) = f[j]
  BY <1>3, StepShrinks
<1> DEFINE T == {i \in Nat : j <= i /\ i <= n => f[i] = f[j]}
<1>5. 0 \in T
  OBVIOUS
<1>6. ASSUME NEW i \in Nat, i \in T PROVE i + 1 \in T
  <2>1. SUFFICES ASSUME j <= i + 1, i + 1 <= n, j # i + 1 PROVE f[i + 1] = f[j]
    OBVIOUS
  <2>2. j <= i /\ i <= n
    BY <2>1
  <2>3. f[i] = f[j]
    BY <1>6, <2>2
  <2>4. PICK a \in 1..n : a = i + 1 /\ a - 1 = i
    <3>1. i + 1 \in 1..n /\ i + 1 - 1 = i
      BY <2>1
    <3>. QED
      BY <3>1
  <2>5. f[a] = ScanStep(f[i])
    BY <1>2, <2>4
  <2>. QED
    BY <1>4, <2>3, <2>4, <2>5
<1> HIDE DEF T
<1>7. Nat \subseteq T
  BY <1>5, <1>6, NatInd
<1>8. n \in T /\ j <= n /\ n <= n
  BY <1>7
<1>. QED
  BY <1>1, <1>8 DEF T

(* A scan ends where no tag is found, and it may begin a round later.      *)
LEMMA ScanIs ==
  ASSUME NEW K, TagsOK(K), NEW s \in ScanOf(K)
  PROVE  /\ Scan(s) \in ScanOf(K) /\ Stopped(Scan(s))
         /\ Stopped(s) => Scan(s) = s
         /\ ~Stopped(s) => Scan(s) = Scan(ScanStep(s))
<1>1. ASSUME NEW u \in ScanOf(K)
      PROVE  /\ Len(u.rest) \in Nat /\ Scan(u) \in ScanOf(K) /\ Stopped(Scan(u))
             /\ Scan(u) = Scans(u, Len(u.rest))[Len(u.rest)]
  <2>1. PICK n \in Nat : n = Len(u.rest)
    BY LenProperties DEF ScanOf
  <2>2. PICK v : v = Scans(u, n)[n]
    OBVIOUS
  <2>3. v \in ScanOf(K) /\ (Stopped(v) \/ Len(v.rest) + n <= Len(u.rest))
    <3>1. n \in 0..n
      OBVIOUS
    <3>. QED
      BY <2>2, <3>1, ScansShrink
  <2>4. Stopped(v)
    <3>1. v.rest \in Seq(K) /\ v.inside \in BOOLEAN /\ Len(v.rest) \in Nat
      BY <2>3, LenProperties DEF ScanOf
    <3>2. SUFFICES ASSUME Len(v.rest) + n <= Len(u.rest) PROVE Stopped(v)
      BY <2>3
    <3>3. PICK a \in Nat : a = Len(v.rest)
      BY <3>1
    <3>4. a + n <= n
      BY <2>1, <3>2, <3>3
    <3>5. a = 0
      BY <3>3, <3>4
    <3>6. 1..Len(v.rest) = {}
      BY <3>3, <3>5
    <3>. QED
      BY <3>6 DEF Stopped, Find
  <2>. QED
    BY <2>1, <2>2, <2>3, <2>4 DEF Scan
<1>2. ASSUME Stopped(s) PROVE Scan(s) = s
  <2>1. PICK n \in Nat : n = Len(s.rest)
    BY <1>1
  <2>2. Scans(s, n)[0] = s /\ 0 \in 0..n
    BY ScansAre
  <2>3. Scans(s, n)[n] = Scans(s, n)[0]
    BY <1>2, <2>2, ScansStay
  <2>. QED
    BY <1>1, <2>1, <2>2, <2>3
<1>3. ASSUME ~Stopped(s) PROVE Scan(s) = Scan(ScanStep(s))
  <2>1. PICK u : u = ScanStep(s)
    OBVIOUS
  <2>2. u \in ScanOf(K) /\ Len(u.rest) < Len(s.rest)
    BY <1>3, <2>1, StepShrinks
  <2>3. PICK n \in Nat, m \in Nat : n = Len(s.rest) /\ m = Len(u.rest) /\ m + 1 <= n
    <3>1. Len(s.rest) \in Nat /\ Len(u.rest) \in Nat
      BY <1>1, <2>2
    <3>2. Len(u.rest) + 1 <= Len(s.rest)
      BY <2>2, <3>1
    <3>. QED
      BY <3>1, <3>2
  <2>4. PICK f, g : f = Scans(s, n) /\ g = Scans(u, m)
    OBVIOUS
  <2>5. g[m] = f[m + 1]
    <3>1. m \in 0..m
      OBVIOUS
    <3>. QED
      BY <2>1, <2>3, <2>4, <3>1, ScansAhead
  <2>6. Scan(u) = g[m] /\ Stopped(g[m])
    BY <1>1, <2>2, <2>3, <2>4
  <2>7. PICK j \in 0..n : j = m + 1
    <3>1. m + 1 \in 0..n
      BY <2>3
    <3>. QED
      BY <3>1
  <2>8. f[n] = f[j]
    BY <2>4, <2>5, <2>6, <2>7, ScansStay
  <2>9. Scan(s) = f[n]
    BY <1>1, <2>3, <2>4
  <2>. QED
    BY <2>1, <2>5, <2>6, <2>7, <2>8, <2>9
<1>. QED
  BY <1>1, <1>2, <1>3

(* What holds of a scan that stops, and of one when of the next round, is  *)
(* so of every scan.                                                       *)
LEMMA ByRounds ==
  ASSUME NEW K, TagsOK(K), NEW X,
         \A s \in ScanOf(K) : Stopped(s) \/ ScanStep(s) \in X => s \in X
  PROVE  ScanOf(K) \subseteq X
<1>. SUFFICES ASSUME NEW s0 \in ScanOf(K), s0 \notin X PROVE FALSE
  OBVIOUS
<1>1. \A u \in ScanOf(K) : Len(u.rest) \in Nat
  BY LenProperties DEF ScanOf
<1>2. PICK S : S = {n \in Nat : \E u \in ScanOf(K) : u \notin X /\ n = Len(u.rest)}
  OBVIOUS
<1>3. S \subseteq Nat /\ S # {}
  <2>1. Len(s0.rest) \in S
    BY <1>1, <1>2
  <2>. QED
    BY <1>2, <2>1
<1>4. PICK n \in S : \A m \in S : n <= m
  BY <1>3, LeastNumber
<1>5. PICK u \in ScanOf(K) : u \notin X /\ n = Len(u.rest)
  BY <1>2
<1>6. ~Stopped(u) /\ ScanStep(u) \notin X
  BY <1>5
<1>7. ScanStep(u) \in ScanOf(K) /\ Len(ScanStep(u).rest) < Len(u.rest)
  BY <1>6, StepShrinks
<1>8. PICK m \in Nat : m = Len(ScanStep(u).rest)
  BY <1>1, <1>7
<1>9. m \in S /\ m < n
  BY <1>2, <1>5, <1>6, <1>7, <1>8
<1>. QED
  BY <1>3, <1>4, <1>9

(* A scan of a text that goes on, and one that gave something out before.  *)
Longer(s, c) == [rest |-> s.rest \o c, inside |-> s.inside, out |-> s.out]
Giving(s, x) == [rest |-> s.rest, inside |-> s.inside, out |-> x \o s.out]

(* Both are scans, and a round of either is the round of the scan itself.  *)
LEMMA RoundsOfBoth ==
  ASSUME NEW K, TagsOK(K), NEW s \in ScanOf(K), NEW c \in Seq(K)
  PROVE  /\ Longer(s, c) \in ScanOf(K) /\ Giving(s, c) \in ScanOf(K)
         /\ Stopped(Giving(s, c)) = Stopped(s)
         /\ ~Stopped(s) => /\ ~Stopped(Longer(s, c))
                           /\ ScanStep(Longer(s, c)) = Longer(ScanStep(s), c)
                           /\ ScanStep(Giving(s, c)) = Giving(ScanStep(s), c)
<1>0. PICK in : in = s.inside
  OBVIOUS
<1>1. PICK t \in Seq(K), o \in Seq(K) : in \in BOOLEAN /\ s = [rest |-> t, inside |-> in, out |-> o]
  <2>1. s.rest \in Seq(K) /\ s.inside \in BOOLEAN /\ s.out \in Seq(K)
        /\ s = [rest |-> s.rest, inside |-> s.inside, out |-> s.out]
    BY DEF ScanOf
  <2>. QED
    BY <1>0, <2>1
<1>2. /\ t \in Seq(K) /\ o \in Seq(K) /\ in \in BOOLEAN
      /\ t \o c \in Seq(K) /\ c \o o \in Seq(K)
  <2>1. t \in Seq(K) /\ o \in Seq(K) /\ in \in BOOLEAN
    BY <1>1
  <2>. QED
    BY <2>1, ConcatProperties
<1>3. Longer(s, c) = [rest |-> t \o c, inside |-> in, out |-> o]
  BY <1>1 DEF Longer
<1>4. Giving(s, c) = [rest |-> t, inside |-> in, out |-> c \o o]
  BY <1>1 DEF Giving
<1>5. Longer(s, c) \in ScanOf(K) /\ Giving(s, c) \in ScanOf(K)
  BY <1>2, <1>3, <1>4 DEF ScanOf
<1>6. Stopped(Giving(s, c)) = Stopped(s)
  BY <1>1, <1>4 DEF Stopped
<1>7. ASSUME ~Stopped(s)
      PROVE  /\ ~Stopped(Longer(s, c))
             /\ ScanStep(Longer(s, c)) = Longer(ScanStep(s), c)
             /\ ScanStep(Giving(s, c)) = Giving(ScanStep(s), c)
  <2>1. PICK tag \in Seq(K) : tag = Tag(in) /\ tag # <<>>
    BY <1>2, TagIs
  <2>2. PICK i : i = Find(t, tag)
    OBVIOUS
  <2>3. i # 0
    BY <1>1, <1>7, <2>1, <2>2 DEF Stopped
  <2>4. Find(t \o c, tag) = i
    BY <2>1, <2>2, <2>3, FindOfLonger
  <2>5. /\ SubSeq(t, 1, i - 1) \in Seq(K)
        /\ SubSeq(t \o c, 1, i - 1) = SubSeq(t, 1, i - 1)
        /\ After(t \o c, tag, i) = After(t, tag, i) \o c
    <3>1. t \in Seq(K) /\ tag \in Seq(K) /\ tag # <<>> /\ i = Find(t, tag) /\ i # 0
      BY <1>2, <2>1, <2>2, <2>3
    <3>2. SubSeq(t, 1, i - 1) \in Seq(K)
      BY <3>1, FoundParts
    <3>3. After(t \o c, tag, i) = After(t, tag, i) \o c
      BY <3>1, PartsOfFound
    <3>4. SubSeq(t \o c, 1, i - 1) = SubSeq(t, 1, i - 1)
      BY <3>1, PartsOfFound
    <3>. QED
      BY <3>2, <3>3, <3>4
  <2>6. PICK p \in Seq(K) : p = SubSeq(t, 1, i - 1)
    BY <2>5
  <2>7. PICK a : a = After(t, tag, i)
    OBVIOUS
  <2>8. ScanStep(s) = [rest |-> a, inside |-> ~in, out |-> IF in THEN o \o p ELSE o]
    BY <1>1, <2>1, <2>2, <2>3, <2>6, <2>7 DEF ScanStep
  <2>9. ScanStep(Longer(s, c)) = [rest |-> a \o c, inside |-> ~in, out |-> IF in THEN o \o p ELSE o]
    <3>1. PICK r : r = Longer(s, c)
      OBVIOUS
    <3>2. r.rest = t \o c /\ r.inside = in /\ r.out = o
      BY <1>3, <3>1
    <3>3. Find(r.rest, Tag(r.inside)) = i /\ After(r.rest, Tag(r.inside), i) = a \o c
          /\ SubSeq(r.rest, 1, i - 1) = p
      BY <2>1, <2>4, <2>5, <2>6, <2>7, <3>2
    <3>4. ScanStep(r) = [rest |-> a \o c, inside |-> ~in, out |-> IF in THEN o \o p ELSE o]
      BY <2>3, <3>2, <3>3 DEF ScanStep
    <3>. QED
      BY <3>1, <3>4
  <2>10. ScanStep(Giving(s, c)) = [rest |-> a, inside |-> ~in,
                                   out |-> IF in THEN (c \o o) \o p ELSE c \o o]
    <3>1. PICK r : r = Giving(s, c)
      OBVIOUS
    <3>2. r.rest = t /\ r.inside = in /\ r.out = c \o o
      BY <1>4, <3>1
    <3>3. Find(r.rest, Tag(r.inside)) = i /\ After(r.rest, Tag(r.inside), i) = a
          /\ SubSeq(r.rest, 1, i - 1) = p
      BY <2>1, <2>2, <2>6, <2>7, <3>2
    <3>4. ScanStep(r) = [rest |-> a, inside |-> ~in, out |-> IF in THEN (c \o o) \o p ELSE c \o o]
      BY <2>3, <3>2, <3>3 DEF ScanStep
    <3>. QED
      BY <3>1, <3>4
  <2>11. (c \o o) \o p = c \o (o \o p)
    <3>1. c \in Seq(K) /\ o \in Seq(K) /\ p \in Seq(K)
      BY <1>2, <2>6
    <3>. QED
      BY <3>1, ConcatAssociative
  <2>12. ScanStep(Longer(s, c)) = Longer(ScanStep(s), c)
    <3>1. PICK r : r = ScanStep(s)
      OBVIOUS
    <3>2. r.rest = a /\ r.inside = ~in /\ r.out = IF in THEN o \o p ELSE o
      BY <2>8, <3>1
    <3>3. Longer(r, c) = [rest |-> a \o c, inside |-> ~in, out |-> IF in THEN o \o p ELSE o]
      BY <3>2 DEF Longer
    <3>. QED
      BY <2>9, <3>1, <3>3
  <2>13. ScanStep(Giving(s, c)) = Giving(ScanStep(s), c)
    <3>1. PICK r : r = ScanStep(s)
      OBVIOUS
    <3>2. r.rest = a /\ r.inside = ~in /\ r.out = IF in THEN o \o p ELSE o
      BY <2>8, <3>1
    <3>3. Giving(r, c) = [rest |-> a, inside |-> ~in, out |-> c \o (IF in THEN o \o p ELSE o)]
      BY <3>2 DEF Giving
    <3>. QED
      BY <2>10, <2>11, <3>1, <3>3
  <2>14. ~Stopped(Longer(s, c))
    BY <1>3, <2>1, <2>3, <2>4 DEF Stopped
  <2>. QED
    BY <2>12, <2>13, <2>14
<1>. QED
  BY <1>5, <1>6, <1>7

(* To scan a text that goes on is to scan it and go on from there.         *)
LEMMA ScanGoesOn ==
  ASSUME NEW K, TagsOK(K), NEW s \in ScanOf(K), NEW c \in Seq(K)
  PROVE  Scan(Longer(s, c)) = Scan(Longer(Scan(s), c))
<1> DEFINE X == {u \in ScanOf(K) : Scan(Longer(u, c)) = Scan(Longer(Scan(u), c))}
<1>1. ASSUME NEW u \in ScanOf(K), Stopped(u) \/ ScanStep(u) \in X PROVE u \in X
  <2>1. CASE Stopped(u)
    BY <2>1, ScanIs
  <2>2. CASE ~Stopped(u)
    <3>1. ScanStep(u) \in ScanOf(K)
          /\ Scan(Longer(ScanStep(u), c)) = Scan(Longer(Scan(ScanStep(u)), c))
      BY <1>1, <2>2
    <3>2. Scan(u) = Scan(ScanStep(u))
      BY <2>2, ScanIs
    <3>3. /\ Longer(u, c) \in ScanOf(K) /\ ~Stopped(Longer(u, c))
          /\ ScanStep(Longer(u, c)) = Longer(ScanStep(u), c)
      BY <2>2, RoundsOfBoth
    <3>4. Scan(Longer(u, c)) = Scan(ScanStep(Longer(u, c)))
      BY <3>3, ScanIs
    <3>. QED
      BY <3>1, <3>2, <3>3, <3>4
  <2>. QED
    BY <2>1, <2>2
<1> HIDE DEF X
<1>2. ScanOf(K) \subseteq X
  BY <1>1, ByRounds
<1>. QED
  BY <1>2 DEF X

(* What was given out before stays in front.                               *)
LEMMA ScanGivesMore ==
  ASSUME NEW K, TagsOK(K), NEW s \in ScanOf(K), NEW x \in Seq(K)
  PROVE  Scan(Giving(s, x)) = Giving(Scan(s), x)
<1> DEFINE X == {u \in ScanOf(K) : Scan(Giving(u, x)) = Giving(Scan(u), x)}
<1>1. ASSUME NEW u \in ScanOf(K), Stopped(u) \/ ScanStep(u) \in X PROVE u \in X
  <2>1. Giving(u, x) \in ScanOf(K) /\ Stopped(Giving(u, x)) = Stopped(u)
    BY RoundsOfBoth
  <2>2. CASE Stopped(u)
    <3>1. Scan(u) = u
      BY <2>2, ScanIs
    <3>2. Scan(Giving(u, x)) = Giving(u, x)
      BY <2>1, <2>2, ScanIs
    <3>. QED
      BY <3>1, <3>2
  <2>3. CASE ~Stopped(u)
    <3>1. Scan(Giving(ScanStep(u), x)) = Giving(Scan(ScanStep(u)), x)
      BY <1>1, <2>3
    <3>2. Scan(u) = Scan(ScanStep(u))
      BY <2>3, ScanIs
    <3>3. ScanStep(Giving(u, x)) = Giving(ScanStep(u), x)
      BY <2>3, RoundsOfBoth
    <3>4. Scan(Giving(u, x)) = Scan(ScanStep(Giving(u, x)))
      BY <2>1, <2>3, ScanIs
    <3>. QED
      BY <3>1, <3>2, <3>3, <3>4
  <2>. QED
    BY <2>2, <2>3
<1> HIDE DEF X
<1>2. ScanOf(K) \subseteq X
  BY <1>1, ByRounds
<1>. QED
  BY <1>2 DEF X

(* What a tag found behind a text leaves of the two.                       *)
LEMMA PartsBehind ==
  ASSUME NEW K, NEW d \in Seq(K), NEW u \in Seq(K), NEW tag \in Seq(K), tag # <<>>,
         NEW i \in 1..Len(u), IsAt(u, tag, i)
  PROVE  /\ SubSeq(d \o u, 1, Len(d) + i - 1) = d \o SubSeq(u, 1, i - 1)
         /\ After(d \o u, tag, Len(d) + i) = After(u, tag, i)
<1>0. PICK j : j = Len(d) + i
  OBVIOUS
<1>1. Len(d) \in Nat /\ Len(u) \in Nat /\ Len(tag) \in Nat \ {0} /\ Len(d \o u) = Len(d) + Len(u)
  BY EmptySeq, LenProperties, ConcatProperties
<1>2. PICK m \in 0..Len(u) : m = i + Len(tag) - 1
  <2>1. i + Len(tag) - 1 \in 0..Len(u)
    BY <1>1 DEF IsAt
  <2>. QED
    BY <2>1
<1>3. PICK l \in 0..Len(u) : l = i - 1
  <2>1. i - 1 \in 0..Len(u)
    BY <1>1
  <2>. QED
    BY <2>1
<1>4. j - 1 = Len(d) + l /\ j + Len(tag) = Len(d) + m + 1 /\ i + Len(tag) = m + 1
  BY <1>0, <1>1, <1>2, <1>3
<1>5. SubSeq(d \o u, 1, Len(d) + l) = d \o SubSeq(u, 1, l)
  BY PartsOfTwo
<1>6. SubSeq(d \o u, Len(d) + m + 1, Len(d) + Len(u)) = SubSeq(u, m + 1, Len(u))
  BY PartsOfTwo
<1>7. After(d \o u, tag, j) = SubSeq(d \o u, j + Len(tag), Len(d \o u))
  BY DEF After
<1>8. After(u, tag, i) = SubSeq(u, i + Len(tag), Len(u))
  BY DEF After
<1>9. After(d \o u, tag, j) = After(u, tag, i)
  BY <1>1, <1>4, <1>6, <1>7, <1>8
<1>10. SubSeq(d \o u, 1, j - 1) = d \o SubSeq(u, 1, i - 1)
  BY <1>3, <1>4, <1>5
<1>. QED
  BY <1>0, <1>9, <1>10

(* What a scan that stopped has given out and may give out, and what it    *)
(* holds back.                                                             *)
Free(s) == SubSeq(s.rest, 1, Len(s.rest) - Kept(s))
Back(s) == Ending(s.rest, Kept(s))
Given(s) == IF s.inside THEN s.out \o Free(s) ELSE s.out
Resumed(s, c) == [rest |-> Back(s) \o c, inside |-> s.inside, out |-> <<>>]

(* The two parts of what no tag was found in.                              *)
LEMMA HeldParts ==
  ASSUME NEW K, TagsOK(K), NEW s \in ScanOf(K)
  PROVE  /\ Kept(s) \in 0..Len(s.rest) /\ Free(s) \in Seq(K) /\ Back(s) \in Seq(K)
         /\ s.rest = Free(s) \o Back(s) /\ Len(Back(s)) = Kept(s)
         /\ Len(Free(s)) = Len(s.rest) - Kept(s) /\ Given(s) \in Seq(K)
<1>1. PICK t \in Seq(K) : t = s.rest
  BY DEF ScanOf
<1>2. s.inside \in BOOLEAN /\ s.out \in Seq(K)
  BY DEF ScanOf
<1>3. PICK tag \in Seq(K) : tag = Tag(s.inside) /\ tag # <<>>
  BY <1>2, TagIs
<1>4. PICK h : h = Held(t, tag)
  OBVIOUS
<1>5. h \in 0..Len(t) /\ Kept(s) = h
  BY <1>1, <1>3, <1>4, HeldIs DEF CouldBegin, Kept
<1>6. PICK n \in 0..Len(t) : n = Len(t) - h /\ h = Len(t) - n /\ Len(t) \in Nat
  <2>1. Len(t) \in Nat
    BY LenProperties
  <2>2. Len(t) - h \in 0..Len(t) /\ h = Len(t) - (Len(t) - h)
    BY <1>5, <2>1
  <2>. QED
    BY <2>1, <2>2
<1>7. /\ SubSeq(t, 1, n) \in Seq(K) /\ Len(SubSeq(t, 1, n)) = n
      /\ SubSeq(t, n + 1, Len(t)) \in Seq(K) /\ Len(SubSeq(t, n + 1, Len(t))) = Len(t) - n
      /\ SubSeq(t, 1, n) \o SubSeq(t, n + 1, Len(t)) = t
  BY PartsJoin
<1>8. Free(s) = SubSeq(t, 1, n)
  BY <1>1, <1>5, <1>6 DEF Free
<1>9. Back(s) = SubSeq(t, n + 1, Len(t))
  BY <1>1, <1>5, <1>6 DEF Back, Ending
<1>10. Free(s) \in Seq(K) /\ s.out \o Free(s) \in Seq(K)
  <2>1. Free(s) \in Seq(K)
    BY <1>7, <1>8
  <2>. QED
    BY <1>2, <2>1, ConcatProperties
<1>11. Given(s) \in Seq(K)
  BY <1>2, <1>10 DEF Given
<1>. QED
  BY <1>1, <1>5, <1>6, <1>7, <1>8, <1>9, <1>11

(* A stopped scan resumes with what it held back: no tag, and nothing of   *)
(* the text between two, is lost with the rest of it.                      *)
LEMMA HoldingBackIsEnough ==
  ASSUME NEW K, TagsOK(K), NEW s \in ScanOf(K), Stopped(s), NEW c \in Seq(K)
  PROVE  LET a == Scan(Longer(s, c))
             b == Scan(Resumed(s, c))
         IN  /\ b \in ScanOf(K) /\ a.inside = b.inside /\ Back(a) = Back(b)
             /\ Given(a) = Given(s) \o Given(b)
<1>0. PICK in : in = s.inside
  OBVIOUS
<1>1. PICK o : o = s.out
  OBVIOUS
<1>2. PICK t : t = s.rest
  OBVIOUS
<1>3. in \in BOOLEAN /\ o \in Seq(K) /\ t \in Seq(K) /\ s = [rest |-> t, inside |-> in, out |-> o]
  BY <1>0, <1>1, <1>2 DEF ScanOf
<1>4. PICK tag : tag = Tag(in)
  OBVIOUS
<1>5. tag \in Seq(K) /\ tag # <<>>
  BY <1>3, <1>4, TagIs
<1>6. PICK d : d \in Seq(K) /\ d = Free(s)
  BY HeldParts
<1>7. PICK e : e \in Seq(K) /\ e = Back(s)
  BY HeldParts
<1>8. t = d \o e /\ Len(e) = Held(t, tag) /\ Len(d) = Len(t) - Held(t, tag)
  <2>1. Kept(s) = Held(t, tag)
    BY <1>0, <1>2, <1>4 DEF Kept
  <2>2. s.rest = Free(s) \o Back(s) /\ Len(Back(s)) = Kept(s) /\ Len(Free(s)) = Len(s.rest) - Kept(s)
    BY HeldParts
  <2>. QED
    BY <1>2, <1>6, <1>7, <2>1, <2>2
<1>9. PICK u : u \in Seq(K) /\ u = e \o c
  <2>1. e \o c \in Seq(K)
    BY <1>7, ConcatProperties
  <2>. QED
    BY <2>1
<1>10. t \o c = d \o u
  <2>1. d \in Seq(K) /\ e \in Seq(K) /\ c \in Seq(K)
    BY <1>6, <1>7
  <2>2. (d \o e) \o c = d \o (e \o c)
    BY <2>1, ConcatAssociative
  <2>. QED
    BY <1>8, <1>9, <2>2
<1>11. Find(t, tag) = 0
  BY <1>0, <1>2, <1>4 DEF Stopped
<1>12. \A j \in 1..Len(d) : ~IsAt(d \o u, tag, j)
  <2>1. \A j \in 1..(Len(t) - Held(t, tag)) : ~IsAt(t \o c, tag, j)
    BY <1>3, <1>5, <1>11, TagsAreHeld
  <2>. QED
    BY <1>8, <1>10, <2>1
<1>13. Find(d \o u, tag) = IF Find(u, tag) = 0 THEN 0 ELSE Len(d) + Find(u, tag)
  <2>1. d \in Seq(K) /\ u \in Seq(K) /\ tag \in Seq(K) /\ tag # <<>>
    BY <1>5, <1>6, <1>9
  <2>. QED
    BY <1>12, <2>1, FindBehind
<1>14. PICK x : x = Given(s)
  OBVIOUS
<1>15. x = (IF in THEN o \o d ELSE o) /\ x \in Seq(K)
  BY <1>0, <1>1, <1>6, <1>14, HeldParts DEF Given
<1>16. PICK l : l = [rest |-> d \o u, inside |-> in, out |-> o]
  OBVIOUS
<1>17. PICK r : r = [rest |-> u, inside |-> in, out |-> <<>>]
  OBVIOUS
<1>18. l = Longer(s, c) /\ r = Resumed(s, c)
  BY <1>0, <1>1, <1>2, <1>7, <1>9, <1>10, <1>16, <1>17 DEF Longer, Resumed
<1>19. l \in ScanOf(K) /\ r \in ScanOf(K)
  <2>1. <<>> \in Seq(K)
    OBVIOUS
  <2>2. d \o u \in Seq(K)
    BY <1>6, <1>9, ConcatProperties
  <2>. QED
    BY <1>3, <1>9, <1>16, <1>17, <2>1, <2>2 DEF ScanOf
<1>20. PICK a, b : a = Scan(l) /\ b = Scan(r)
  OBVIOUS
<1>21. b \in ScanOf(K)
  BY <1>19, <1>20, ScanIs
<1>22. CASE Find(u, tag) = 0
  <2>1. Stopped(l) /\ Stopped(r)
    <3>1. Find(d \o u, tag) = 0
      BY <1>13, <1>22
    <3>. QED
      BY <1>4, <1>16, <1>17, <1>22, <3>1 DEF Stopped
  <2>2. a = l /\ b = r
    BY <1>19, <1>20, <2>1, ScanIs
  <2>3. PICK k : k = Held(u, tag)
    OBVIOUS
  <2>4. Held(d \o u, tag) = k
    <3>1. t \in Seq(K) /\ c \in Seq(K) /\ tag \in Seq(K) /\ tag # <<>> /\ d \in Seq(K) /\ e \in Seq(K)
      BY <1>3, <1>5, <1>6, <1>7
    <3>2. Len(e) = Held(d \o e, tag)
      BY <1>8
    <3>3. Held(d \o (e \o c), tag) = Held(e \o c, tag)
      BY <3>1, <3>2, HeldBehind
    <3>. QED
      BY <1>9, <2>3, <3>3
  <2>5. Kept(l) = k /\ Kept(r) = k
    BY <1>4, <1>16, <1>17, <2>3, <2>4 DEF Kept
  <2>6. /\ Len(u) \in Nat /\ Len(d) \in Nat /\ Len(d \o u) = Len(d) + Len(u)
    BY <1>6, <1>9, LenProperties, ConcatProperties
  <2>7. k \in 0..Len(u)
    BY <1>5, <1>9, <2>3, HeldIs DEF CouldBegin
  <2>8. PICK n : n \in 0..Len(u) /\ n = Len(u) - k
    <3>1. Len(u) - k \in 0..Len(u)
      BY <2>6, <2>7
    <3>. QED
      BY <3>1
  <2>9. Len(d) + Len(u) - k = Len(d) + n /\ Len(d) + Len(u) - k + 1 = Len(d) + n + 1
    BY <2>6, <2>7, <2>8
  <2>10. SubSeq(d \o u, 1, Len(d) + n) = d \o SubSeq(u, 1, n)
         /\ SubSeq(d \o u, Len(d) + n + 1, Len(d) + Len(u)) = SubSeq(u, n + 1, Len(u))
    <3>1. d \in Seq(K) /\ u \in Seq(K) /\ n \in 0..Len(u)
      BY <1>6, <1>9, <2>8
    <3>. QED
      BY <3>1, PartsOfTwo
  <2>11. Back(l) = SubSeq(d \o u, Len(d) + n + 1, Len(d) + Len(u))
    <3>1. l.rest = d \o u
      BY <1>16
    <3>2. Len(d \o u) - k + 1 = Len(d) + n + 1
      BY <2>6, <2>7, <2>9
    <3>. QED
      BY <2>5, <2>6, <3>1, <3>2 DEF Back, Ending
  <2>12. Back(r) = SubSeq(u, n + 1, Len(u))
    <3>1. r.rest = u
      BY <1>17
    <3>2. Len(u) - k + 1 = n + 1
      BY <2>6, <2>7, <2>8
    <3>. QED
      BY <2>5, <3>1, <3>2 DEF Back, Ending
  <2>13. Free(l) = d \o SubSeq(u, 1, n)
    <3>1. l.rest = d \o u
      BY <1>16
    <3>2. Len(d \o u) - k = Len(d) + n
      BY <2>6, <2>7, <2>9
    <3>. QED
      BY <2>5, <2>10, <3>1, <3>2 DEF Free
  <2>14. Free(r) = SubSeq(u, 1, n)
    BY <1>17, <2>5, <2>8 DEF Free
  <2>15. PICK p : p \in Seq(K) /\ p = SubSeq(u, 1, n)
    <3>1. SubSeq(u, 1, n) \in Seq(K)
      BY <1>9, <2>8, PartsJoin
    <3>. QED
      BY <3>1
  <2>16. Given(l) = IF in THEN o \o (d \o p) ELSE o
    BY <1>16, <2>13, <2>15 DEF Given
  <2>17. Given(r) = IF in THEN p ELSE <<>>
    <3>1. <<>> \o p = p
      BY <2>15, ConcatSimplifications
    <3>. QED
      BY <1>17, <2>14, <2>15, <3>1 DEF Given
  <2>18. o \o (d \o p) = (o \o d) \o p
    <3>1. o \in Seq(K) /\ d \in Seq(K) /\ p \in Seq(K)
      BY <1>3, <1>6, <2>15
    <3>. QED
      BY <3>1, ConcatAssociative
  <2>19. o \o <<>> = o
    BY <1>3, ConcatSimplifications
  <2>20. Given(l) = x \o Given(r)
    BY <1>15, <2>16, <2>17, <2>18, <2>19
  <2>21. l.inside = r.inside
    BY <1>16, <1>17
  <2>. QED
    BY <1>14, <1>18, <1>20, <1>21, <2>2, <2>10, <2>11, <2>12, <2>20, <2>21
<1>23. CASE Find(u, tag) # 0
  <2>1. PICK i : i = Find(u, tag)
    OBVIOUS
  <2>2. i \in 1..Len(u) /\ IsAt(u, tag, i)
    BY <1>9, <1>23, <2>1, FindIs, LenProperties
  <2>3. Len(d) \in Nat /\ Len(u) \in Nat
    BY <1>6, <1>9, LenProperties
  <2>4. PICK j : j = Len(d) + i
    OBVIOUS
  <2>5. Find(d \o u, tag) = j /\ j # 0
    BY <1>13, <1>23, <2>1, <2>2, <2>3, <2>4
  <2>6. /\ SubSeq(d \o u, 1, j - 1) = d \o SubSeq(u, 1, i - 1)
        /\ After(d \o u, tag, j) = After(u, tag, i)
    <3>1. d \in Seq(K) /\ u \in Seq(K) /\ tag \in Seq(K) /\ tag # <<>>
      BY <1>5, <1>6, <1>9
    <3>2. /\ SubSeq(d \o u, 1, Len(d) + i - 1) = d \o SubSeq(u, 1, i - 1)
          /\ After(d \o u, tag, Len(d) + i) = After(u, tag, i)
      BY <2>2, <3>1, PartsBehind, SMTT(60)
    <3>. QED
      BY <2>2, <2>3, <2>4, <3>2
  <2>7. PICK p : p = SubSeq(u, 1, i - 1)
    OBVIOUS
  <2>8. p \in Seq(K)
    BY <1>5, <1>9, <1>23, <2>1, <2>7, FoundParts
  <2>9. PICK q : q = After(u, tag, i)
    OBVIOUS
  <2>10. ~Stopped(l) /\ ~Stopped(r)
    BY <1>4, <1>16, <1>17, <1>23, <2>5 DEF Stopped
  <2>11. ScanStep(l) = [rest |-> q, inside |-> ~in, out |-> IF in THEN o \o (d \o p) ELSE o]
    <3>1. l.rest = d \o u /\ l.inside = in /\ l.out = o
      BY <1>16
    <3>2. Find(l.rest, Tag(l.inside)) = j /\ After(l.rest, Tag(l.inside), j) = q
          /\ SubSeq(l.rest, 1, j - 1) = d \o p
      BY <1>4, <2>5, <2>6, <2>7, <2>9, <3>1
    <3>. QED
      BY <2>5, <3>1, <3>2 DEF ScanStep
  <2>12. ScanStep(r) = [rest |-> q, inside |-> ~in, out |-> IF in THEN p ELSE <<>>]
    <3>1. r.rest = u /\ r.inside = in /\ r.out = <<>>
      BY <1>17
    <3>2. Find(r.rest, Tag(r.inside)) = i /\ After(r.rest, Tag(r.inside), i) = q
          /\ SubSeq(r.rest, 1, i - 1) = p
      BY <1>4, <2>1, <2>7, <2>9, <3>1
    <3>3. <<>> \o p = p /\ i # 0
      BY <1>23, <2>1, <2>8, ConcatSimplifications
    <3>. QED
      BY <3>1, <3>2, <3>3 DEF ScanStep
  <2>13. o \o (d \o p) = (o \o d) \o p
    <3>1. o \in Seq(K) /\ d \in Seq(K) /\ p \in Seq(K)
      BY <1>3, <1>6, <2>8
    <3>. QED
      BY <3>1, ConcatAssociative
  <2>14. o \o <<>> = o
    BY <1>3, ConcatSimplifications
  <2>15. ScanStep(l) = Giving(ScanStep(r), x)
    <3>1. PICK z : z = ScanStep(r)
      OBVIOUS
    <3>2. z.rest = q /\ z.inside = ~in /\ z.out = IF in THEN p ELSE <<>>
      BY <2>12, <3>1
    <3>3. x \o z.out = IF in THEN o \o (d \o p) ELSE o
      BY <1>15, <2>13, <2>14, <3>2
    <3>4. Giving(z, x) = [rest |-> q, inside |-> ~in, out |-> x \o z.out]
      BY <3>2 DEF Giving
    <3>. QED
      BY <2>11, <3>1, <3>3, <3>4
  <2>16. ScanStep(r) \in ScanOf(K)
    BY <1>19, <2>10, StepShrinks
  <2>17. a = Scan(ScanStep(l)) /\ b = Scan(ScanStep(r))
    BY <1>19, <1>20, <2>10, ScanIs
  <2>18. a = Giving(b, x)
    BY <1>15, <2>15, <2>16, <2>17, ScanGivesMore
  <2>19. a.rest = b.rest /\ a.inside = b.inside /\ a.out = x \o b.out
    BY <2>18 DEF Giving
  <2>20. Kept(a) = Kept(b)
    BY <2>19 DEF Kept
  <2>21. Back(a) = Back(b) /\ Free(a) = Free(b)
    BY <2>19, <2>20 DEF Back, Free
  <2>22. (x \o b.out) \o Free(b) = x \o (b.out \o Free(b))
    <3>1. PICK f, g : f = b.out /\ g = Free(b)
      OBVIOUS
    <3>2. x \in Seq(K) /\ f \in Seq(K) /\ g \in Seq(K)
      BY <1>15, <1>21, <3>1, HeldParts DEF ScanOf
    <3>3. (x \o f) \o g = x \o (f \o g)
      BY <3>2, ConcatAssociative
    <3>. QED
      BY <3>1, <3>3
  <2>23. Given(a) = x \o Given(b)
    BY <2>19, <2>21, <2>22 DEF Given
  <2>. QED
    BY <1>14, <1>18, <1>20, <1>21, <2>19, <2>21, <2>23
<1>. QED
  BY <1>22, <1>23

(* The scan of a beginning of the response.                                *)
Scanned(p) == Scan(ScanFrom(p, FALSE))

(* push goes on where the scan of what came before stopped.                *)
LEMMA PushGoesOn ==
  ASSUME NEW K, TagsOK(K), NEW p \in Seq(K), NEW c \in Seq(K)
  PROVE  LET s == Scanned(p)
             z == Scanned(p \o c)
             q == Push(Back(s) \o c, s.inside)
         IN  /\ q.buffer = Back(z) /\ q.inside = z.inside /\ q.out \in Seq(K)
             /\ Given(z) = Given(s) \o q.out
<1>1. PICK f : f = ScanFrom(p, FALSE)
  OBVIOUS
<1>2. f = [rest |-> p, inside |-> FALSE, out |-> <<>>]
  BY <1>1 DEF ScanFrom
<1>3. f \in ScanOf(K)
  <2>1. <<>> \in Seq(K)
    OBVIOUS
  <2>. QED
    BY <1>2, <2>1 DEF ScanOf
<1>4. PICK s : s = Scanned(p)
  OBVIOUS
<1>5. s \in ScanOf(K) /\ Stopped(s) /\ s = Scan(f)
  BY <1>1, <1>3, <1>4, ScanIs DEF Scanned
<1>6. Scanned(p \o c) = Scan(Longer(s, c))
  <2>1. ScanFrom(p \o c, FALSE) = Longer(f, c)
    BY <1>2 DEF ScanFrom, Longer
  <2>2. Scan(Longer(f, c)) = Scan(Longer(Scan(f), c))
    BY <1>3, ScanGoesOn
  <2>. QED
    BY <1>5, <2>1, <2>2 DEF Scanned
<1>7. PICK b : b = Scan(Resumed(s, c))
  OBVIOUS
<1>8. PICK a : a = Scan(Longer(s, c))
  OBVIOUS
<1>9. b \in ScanOf(K) /\ a.inside = b.inside /\ Back(a) = Back(b) /\ Given(a) = Given(s) \o Given(b)
  BY <1>5, <1>7, <1>8, HoldingBackIsEnough
<1>10. ScanFrom(Back(s) \o c, s.inside) = Resumed(s, c)
  BY DEF ScanFrom, Resumed
<1>11. PICK q : q = Push(Back(s) \o c, s.inside)
  OBVIOUS
<1>12. q = [buffer |-> Back(b), inside |-> b.inside, out |-> Given(b)]
  BY <1>7, <1>10, <1>11 DEF Push, Back, Given, Free
<1>13. Given(b) \in Seq(K)
  BY <1>9, HeldParts
<1>14. q.buffer = Back(b) /\ q.inside = b.inside /\ q.out = Given(b)
  BY <1>12
<1>. QED
  BY <1>4, <1>6, <1>8, <1>9, <1>11, <1>13, <1>14

(* Nothing has been scanned, given out or held back before the first chunk.*)
LEMMA NothingScanned ==
  ASSUME NEW K, TagsOK(K)
  PROVE  LET s == Scanned(<<>>) IN s.inside = FALSE /\ Back(s) = <<>> /\ Given(s) = <<>>
<1>1. PICK s : s = ScanFrom(<<>>, FALSE)
  OBVIOUS
<1>2. s = [rest |-> <<>>, inside |-> FALSE, out |-> <<>>]
  BY <1>1 DEF ScanFrom
<1>3. s \in ScanOf(K) /\ s.rest = <<>> /\ s.inside = FALSE /\ s.out = <<>>
  <2>1. <<>> \in Seq(K)
    OBVIOUS
  <2>. QED
    BY <1>2, <2>1 DEF ScanOf
<1>4. Stopped(s)
  <2>1. 1..Len(<<>>) = {}
    OBVIOUS
  <2>. QED
    BY <1>3, <2>1 DEF Stopped, Find
<1>5. Scanned(<<>>) = s
  BY <1>1, <1>3, <1>4, ScanIs DEF Scanned
<1>6. Back(s) \in Seq(K) /\ Len(Back(s)) = 0
  <2>1. Len(s.rest) = 0
    BY <1>3
  <2>2. Kept(s) \in 0..0 /\ Back(s) \in Seq(K) /\ Len(Back(s)) = Kept(s)
    BY <1>3, <2>1, HeldParts
  <2>. QED
    BY <2>2
<1>7. Back(s) = <<>>
  BY <1>6, EmptySeq
<1>8. Given(s) = <<>>
  BY <1>3 DEF Given
<1>. QED
  BY <1>3, <1>5, <1>7, <1>8

(* What lies between the tags is what was given out and, between them,     *)
(* what is held back.                                                      *)
LEMMA BetweenIs ==
  ASSUME NEW K, TagsOK(K), NEW p \in Seq(K)
  PROVE  LET s == Scanned(p)
         IN  /\ Between(p) = Given(s) \o (IF s.inside THEN Back(s) ELSE <<>>)
             /\ Given(s) \in Seq(K) /\ Back(s) \in Seq(K) /\ s.inside \in BOOLEAN
<1>1. PICK s : s = Scanned(p)
  OBVIOUS
<1>2. s \in ScanOf(K)
  <2>1. ScanFrom(p, FALSE) \in ScanOf(K)
    <3>1. <<>> \in Seq(K)
      OBVIOUS
    <3>. QED
      BY <3>1 DEF ScanOf, ScanFrom
  <2>. QED
    BY <1>1, <2>1, ScanIs DEF Scanned
<1>3. PICK o, f, b : o = s.out /\ f = Free(s) /\ b = Back(s)
  OBVIOUS
<1>4. o \in Seq(K) /\ f \in Seq(K) /\ b \in Seq(K) /\ s.rest = f \o b /\ Given(s) \in Seq(K)
  BY <1>2, <1>3, HeldParts DEF ScanOf
<1>5. (o \o f) \o b = o \o (f \o b) /\ o \o <<>> = o
  <2>1. o \in Seq(K) /\ f \in Seq(K) /\ b \in Seq(K)
    BY <1>4
  <2>2. (o \o f) \o b = o \o (f \o b)
    BY ONLY <2>1, ConcatAssociative
  <2>3. o \o <<>> = o
    BY <2>1, ConcatSimplifications
  <2>. QED
    BY <2>2, <2>3
<1>6. Between(p) = IF s.inside THEN o \o s.rest ELSE o
  BY <1>1, <1>3 DEF Between, Scanned
<1>7. Given(s) = IF s.inside THEN o \o f ELSE o
  BY <1>3 DEF Given
<1>8. Between(p) = Given(s) \o (IF s.inside THEN Back(s) ELSE <<>>)
  BY <1>3, <1>4, <1>5, <1>6, <1>7
<1>. QED
  BY <1>1, <1>2, <1>3, <1>4, <1>8 DEF ScanOf

(* The first block is where what lies between the tags begins.             *)
LEMMA FirstBlockIs ==
  ASSUME NEW K, TagsOK(K), NEW p \in Seq(K)
  PROVE  /\ FirstBlock(p) \in Seq(K)
         /\ \E y \in Seq(K) : Between(p) = FirstBlock(p) \o y
<1>1. PICK f : f = ScanFrom(p, FALSE)
  OBVIOUS
<1>2. f = [rest |-> p, inside |-> FALSE, out |-> <<>>] /\ <<>> \in Seq(K)
  BY <1>1 DEF ScanFrom
<1>3. f \in ScanOf(K) /\ f.inside = FALSE /\ f.out = <<>>
  BY <1>2 DEF ScanOf
<1>4. PICK g, h : g = ScanStep(f) /\ h = ScanStep(g)
  OBVIOUS
<1>5. FirstBlock(p) = IF h.inside THEN <<>> ELSE h.out
  BY <1>1, <1>4 DEF FirstBlock, NoText
<1>6. PICK e : e = Between(p)
  OBVIOUS
<1>7. e \in Seq(K)
  <2>1. PICK s : s = Scanned(p)
    OBVIOUS
  <2>2. PICK x, y : x = Given(s) /\ y = IF s.inside THEN Back(s) ELSE <<>>
    OBVIOUS
  <2>3. e = x \o y /\ x \in Seq(K) /\ y \in Seq(K)
    BY <1>2, <1>6, <2>1, <2>2, BetweenIs
  <2>. QED
    BY <2>3, ConcatProperties
<1>8. ASSUME FirstBlock(p) = <<>>
      PROVE  FirstBlock(p) \in Seq(K) /\ \E y \in Seq(K) : Between(p) = FirstBlock(p) \o y
  <2>1. <<>> \o e = e
    BY <1>7, ConcatSimplifications
  <2>. QED
    BY <1>2, <1>6, <1>7, <1>8, <2>1
<1>9. CASE Stopped(f)
  <2>1. g = f /\ h = f
    BY <1>3, <1>4, <1>9, StepShrinks
  <2>2. FirstBlock(p) = <<>>
    BY <1>3, <1>5, <2>1
  <2>. QED
    BY <1>8, <2>2
<1>10. CASE ~Stopped(f)
  <2>1. g \in ScanOf(K) /\ g.inside = TRUE /\ g.out = <<>> /\ Scan(f) = Scan(g)
    <3>1. g \in ScanOf(K) /\ Scan(f) = Scan(g)
      BY <1>3, <1>4, <1>10, StepShrinks, ScanIs
    <3>2. Find(f.rest, Tag(f.inside)) # 0
      BY <1>10 DEF Stopped
    <3>3. g.inside = TRUE /\ g.out = <<>>
      BY <1>3, <1>4, <3>2 DEF ScanStep
    <3>. QED
      BY <3>1, <3>3
  <2>2. CASE Stopped(g)
    <3>1. h = g
      BY <1>4, <2>1, <2>2, StepShrinks
    <3>2. FirstBlock(p) = <<>>
      BY <1>5, <2>1, <3>1
    <3>. QED
      BY <1>8, <3>2
  <2>3. CASE ~Stopped(g)
    <3>1. h \in ScanOf(K) /\ h.inside = FALSE /\ Scan(f) = Scan(h)
      <4>1. h \in ScanOf(K) /\ Scan(f) = Scan(h)
        BY <1>4, <2>1, <2>3, StepShrinks, ScanIs
      <4>2. Find(g.rest, Tag(g.inside)) # 0
        BY <2>3 DEF Stopped
      <4>3. h.inside = FALSE
        BY <1>4, <2>1, <4>2 DEF ScanStep
      <4>. QED
        BY <4>1, <4>3
    <3>2. PICK x : x = h.out
      OBVIOUS
    <3>3. x \in Seq(K) /\ FirstBlock(p) = x
      BY <1>5, <3>1, <3>2 DEF ScanOf
    <3>4. PICK u : u = [rest |-> h.rest, inside |-> FALSE, out |-> <<>>]
      OBVIOUS
    <3>5. u \in ScanOf(K)
      BY <1>2, <3>1, <3>4 DEF ScanOf
    <3>6. Giving(u, x) = h
      <4>1. x \o <<>> = x
        BY <3>3, ConcatSimplifications
      <4>2. h = [rest |-> h.rest, inside |-> h.inside, out |-> h.out]
        BY <3>1 DEF ScanOf
      <4>. QED
        BY <3>1, <3>2, <3>4, <4>1, <4>2 DEF Giving
    <3>7. PICK b : b = Scan(u)
      OBVIOUS
    <3>8. b \in ScanOf(K)
      BY <3>5, <3>7, ScanIs
    <3>9. Scan(f) = Giving(b, x)
      BY <3>1, <3>3, <3>5, <3>6, <3>7, ScanGivesMore
    <3>10. PICK o, t : o = b.out /\ t = b.rest
      OBVIOUS
    <3>11. o \in Seq(K) /\ t \in Seq(K) /\ b.inside \in BOOLEAN
      BY <3>8, <3>10 DEF ScanOf
    <3>12. Between(p) = IF b.inside THEN (x \o o) \o t ELSE x \o o
      <4>1. PICK a : a = Giving(b, x)
        OBVIOUS
      <4>2. a.out = x \o o /\ a.rest = t /\ a.inside = b.inside
        BY <3>10, <4>1 DEF Giving
      <4>3. Between(p) = IF a.inside THEN a.out \o a.rest ELSE a.out
        BY <1>1, <3>9, <4>1 DEF Between
      <4>. QED
        BY <4>2, <4>3
    <3>13. (x \o o) \o t = x \o (o \o t) /\ o \o t \in Seq(K)
      BY <3>3, <3>11, ConcatAssociative, ConcatProperties
    <3>. QED
      BY <3>3, <3>11, <3>12, <3>13
  <2>. QED
    BY <2>2, <2>3
<1>. QED
  BY <1>9, <1>10

(* A chunk behind what arrived.                                            *)
LEMMA Onward ==
  ASSUME NEW K, NEW t \in Seq(K), NEW a \in 0..Len(t), NEW b \in 0..Len(t), a <= b
  PROVE  /\ SubSeq(t, 1, a) \in Seq(K) /\ SubSeq(t, a + 1, b) \in Seq(K)
         /\ SubSeq(t, 1, a) \o SubSeq(t, a + 1, b) = SubSeq(t, 1, b)
<1>1. PICK m \in Nat \ {0} : m = a + 1
  OBVIOUS
<1>2. Len(t) \in Nat /\ a \in Nat /\ b \in Nat
  BY LenProperties
<1>3. PICK p : p = SubSeq(t, 1, a)
  OBVIOUS
<1>4. PICK q : q = SubSeq(t, m, b)
  OBVIOUS
<1>5. PICK r : r = SubSeq(t, 1, b)
  OBVIOUS
<1>6. /\ p \in Seq(K) /\ Len(p) = a /\ \A k \in 1..a : p[k] = t[k]
  <2>1. /\ SubSeq(t, 1, a) \in Seq(K)
        /\ Len(SubSeq(t, 1, a)) = IF 1 <= a THEN a - 1 + 1 ELSE 0
        /\ \A k \in 1..(a - 1 + 1) : SubSeq(t, 1, a)[k] = t[1 + k - 1]
    BY PartIs
  <2>2. (IF 1 <= a THEN a - 1 + 1 ELSE 0) = a /\ a - 1 + 1 = a
    BY <1>2
  <2>3. \A k \in 1..a : 1 + k - 1 = k
    OBVIOUS
  <2>. QED
    BY <1>3, <2>1, <2>2, <2>3
<1>7. /\ r \in Seq(K) /\ Len(r) = b /\ \A k \in 1..b : r[k] = t[k]
  <2>1. /\ SubSeq(t, 1, b) \in Seq(K)
        /\ Len(SubSeq(t, 1, b)) = IF 1 <= b THEN b - 1 + 1 ELSE 0
        /\ \A k \in 1..(b - 1 + 1) : SubSeq(t, 1, b)[k] = t[1 + k - 1]
    BY PartIs
  <2>2. (IF 1 <= b THEN b - 1 + 1 ELSE 0) = b /\ b - 1 + 1 = b
    BY <1>2
  <2>3. \A k \in 1..b : 1 + k - 1 = k
    OBVIOUS
  <2>. QED
    BY <1>5, <2>1, <2>2, <2>3
<1>8. /\ q \in Seq(K) /\ Len(q) = b - a /\ \A k \in 1..(b - a) : q[k] = t[a + k]
  <2>1. /\ SubSeq(t, m, b) \in Seq(K)
        /\ Len(SubSeq(t, m, b)) = IF m <= b THEN b - m + 1 ELSE 0
        /\ \A k \in 1..(b - m + 1) : SubSeq(t, m, b)[k] = t[m + k - 1]
    BY PartIs
  <2>2. (IF m <= b THEN b - m + 1 ELSE 0) = b - a /\ b - m + 1 = b - a
    BY <1>1, <1>2
  <2>3. \A k \in 1..(b - a) : m + k - 1 = a + k
    BY <1>1, <1>2
  <2>. QED
    BY <1>4, <2>1, <2>2, <2>3
<1>9. /\ p \o q \in Seq(K) /\ Len(p \o q) = a + (b - a)
      /\ \A k \in 1..(a + (b - a)) : (p \o q)[k] = IF k <= a THEN p[k] ELSE q[k - a]
  BY <1>6, <1>8, ConcatProperties
<1>10. a + (b - a) = b
  BY <1>2
<1>11. ASSUME NEW k \in 1..b PROVE (p \o q)[k] = r[k]
  <2>1. CASE k <= a
    BY <1>2, <1>6, <1>7, <1>9, <1>10, <2>1
  <2>2. CASE ~(k <= a)
    <3>1. PICK l \in 1..(b - a) : l = k - a /\ a + l = k
      <4>1. k - a \in 1..(b - a) /\ a + (k - a) = k
        BY <1>2, <2>2
      <4>. QED
        BY <4>1
    <3>2. (p \o q)[k] = q[l]
      BY <1>9, <1>10, <2>2, <3>1
    <3>. QED
      BY <1>7, <1>8, <3>1, <3>2
  <2>. QED
    BY <2>1, <2>2
<1>12. p \o q = r
  BY <1>7, <1>9, <1>10, <1>11, SeqEqual
<1>. QED
  BY <1>1, <1>3, <1>4, <1>5, <1>6, <1>8, <1>12

(* The frames a stream may have on its way, those that end it with a text  *)
(* of D, and the piece of the reasoning that each brings.                  *)
StartFrame == [kind |-> "start"]
FramesOf(K, D) == {StartFrame} \cup {Delta(t) : t \in Seq(K)} \cup {End(t) : t \in D}
Piece(f) == IF f.kind = "delta" THEN f.text ELSE <<>>

(* The way of a stream whose client has handled the piece x of the         *)
(* reasoning e and whose server has yet to send the piece p of it: o says  *)
(* if the client has the stream open, l if the server has.  What is left   *)
(* of the reasoning before each frame is its piece and what is left behind.*)
Lefts(K, w, p, left) ==
  /\ left \in [0..Len(w) -> Seq(K)] /\ left[Len(w)] = p
  /\ \A k \in 1..Len(w) : left[k - 1] = Piece(w[k]) \o left[k]
Framed(w, o, l) ==
  /\ \A i \in 1..Len(w) :
       (w[i].kind = "start") = ~(IF i = 1 THEN o ELSE w[i - 1].kind # "end")
  /\ \A i \in 1..Len(w) : w[i].kind = "end" => i = Len(w)
  /\ l = IF w = <<>> THEN o ELSE w[Len(w)].kind # "end"
OnItsWay(K, D, w, o, l, p, x, e) ==
  /\ w \in Seq(FramesOf(K, D)) /\ o \in BOOLEAN /\ l \in BOOLEAN /\ Framed(w, o, l)
  /\ p \in Seq(K) /\ x \in Seq(K)
  /\ \E left : Lefts(K, w, p, left) /\ x \o left[0] = e

(* What a frame is.                                                        *)
LEMMA FramesAre ==
  ASSUME NEW K, NEW D, NEW f \in FramesOf(K, D)
  PROVE  /\ f.kind \in {"start", "delta", "end"} /\ Piece(f) \in Seq(K)
         /\ f.kind = "start" => f = StartFrame
         /\ f.kind = "delta" => f.text \in Seq(K)
         /\ f.kind = "end" => f.text \in D
<1>0. <<>> \in Seq(K)
  OBVIOUS
<1>1. CASE f = StartFrame
  BY <1>0, <1>1 DEF StartFrame, Piece
<1>2. ASSUME NEW t \in Seq(K), f = Delta(t)
      PROVE  f.kind = "delta" /\ f.text \in Seq(K) /\ Piece(f) \in Seq(K)
  BY <1>2 DEF Delta, Piece
<1>3. ASSUME NEW t \in D, f = End(t)
      PROVE  f.kind = "end" /\ f.text \in D /\ Piece(f) \in Seq(K)
  BY <1>0, <1>3 DEF End, Piece
<1>. QED
  BY <1>1, <1>2, <1>3 DEF FramesOf

(* A frame is sent: it is what the stream expects, and takes its piece off *)
(* what is yet to be sent.                                                 *)
LEMMA FrameSent ==
  ASSUME NEW K, NEW D, NEW w, NEW o, NEW l, NEW p, NEW x, NEW e, NEW f \in FramesOf(K, D),
         NEW q \in Seq(K), OnItsWay(K, D, w, o, l, p, x, e), l \/ w = <<>>,
         (f.kind = "start") = ~l, p = Piece(f) \o q
  PROVE  OnItsWay(K, D, Append(w, f), o, f.kind # "end", q, x, e)
<1>1. /\ w \in Seq(FramesOf(K, D)) /\ o \in BOOLEAN /\ l \in BOOLEAN /\ x \in Seq(K)
      /\ Len(w) \in Nat
  BY LenProperties DEF OnItsWay
<1>2. Framed(w, o, l)
  BY DEF OnItsWay
<1>3. PICK n \in Nat : n = Len(w)
  BY <1>1
<1>4. PICK v : v = Append(w, f)
  OBVIOUS
<1>5. /\ v \in Seq(FramesOf(K, D)) /\ Len(v) = n + 1
      /\ \A i \in 1..n : v[i] = w[i]
      /\ v[n + 1] = f
  BY <1>1, <1>3, <1>4, AppendProperties
<1>6. n = 0 <=> w = <<>>
  BY <1>1, <1>3, EmptySeq
<1>7. Framed(v, o, f.kind # "end")
  <2>1. ASSUME NEW i \in 1..(n + 1)
        PROVE  (v[i].kind = "start") = ~(IF i = 1 THEN o ELSE v[i - 1].kind # "end")
    <3>1. CASE i # n + 1
      <4>1. i \in 1..n
        BY <3>1
      <4>2. (w[i].kind = "start") = ~(IF i = 1 THEN o ELSE w[i - 1].kind # "end")
        BY <1>2, <1>3, <4>1 DEF Framed
      <4>3. i # 1 => i - 1 \in 1..n
        BY <4>1
      <4>. QED
        BY <1>5, <4>1, <4>2, <4>3
    <3>2. CASE i = n + 1 /\ n = 0
      <4>1. l = o /\ v[i] = f /\ i = 1
        BY <1>2, <1>5, <1>6, <3>2 DEF Framed
      <4>. QED
        BY <4>1
    <3>3. CASE i = n + 1 /\ n # 0
      <4>1. l = (w[n].kind # "end") /\ v[i] = f
        BY <1>2, <1>3, <1>5, <1>6, <3>3 DEF Framed
      <4>2. i # 1 /\ i - 1 = n /\ n \in 1..n
        BY <3>3
      <4>3. v[i - 1] = w[n]
        BY <1>5, <4>2
      <4>. QED
        BY <4>1, <4>2, <4>3
    <3>. QED
      BY <3>1, <3>2, <3>3
  <2>2. ASSUME NEW i \in 1..(n + 1), v[i].kind = "end" PROVE i = n + 1
    <3>1. SUFFICES ASSUME i # n + 1 PROVE FALSE
      OBVIOUS
    <3>2. i \in 1..n
      BY <3>1
    <3>3. w[i].kind = "end" /\ i = n
      BY <1>2, <1>3, <1>5, <2>2, <3>2 DEF Framed
    <3>4. w # <<>> /\ l
      BY <1>6, <3>2
    <3>. QED
      BY <1>2, <1>3, <3>3, <3>4 DEF Framed
  <2>3. v # <<>> /\ v[Len(v)] = f
    BY <1>3, <1>5, EmptySeq
  <2>. QED
    BY <1>5, <2>1, <2>2, <2>3 DEF Framed
<1>8. PICK left : Lefts(K, w, p, left) /\ x \o left[0] = e
  BY DEF OnItsWay
<1>9. PICK more : more = [k \in 0..(n + 1) |-> IF k = n + 1 THEN q ELSE left[k]]
  OBVIOUS
<1>10. left \in [0..n -> Seq(K)] /\ left[n] = p /\ \A k \in 1..n : left[k - 1] = Piece(w[k]) \o left[k]
  BY <1>3, <1>8 DEF Lefts
<1>11. /\ more \in [0..(n + 1) -> Seq(K)] /\ more[n + 1] = q
       /\ \A k \in 0..n : more[k] = left[k]
  BY <1>9, <1>10
<1>12. ASSUME NEW k \in 1..(n + 1) PROVE more[k - 1] = Piece(v[k]) \o more[k]
  <2>1. k - 1 \in 0..n
    OBVIOUS
  <2>2. CASE k = n + 1
    <3>1. k - 1 = n
      BY <2>2
    <3>. QED
      BY <1>5, <1>10, <1>11, <2>1, <2>2, <3>1
  <2>3. CASE k # n + 1
    <3>1. k \in 1..n /\ k \in 0..n
      BY <2>3
    <3>. QED
      BY <1>5, <1>10, <1>11, <2>1, <3>1
  <2>. QED
    BY <2>2, <2>3
<1>13. Lefts(K, v, q, more)
  BY <1>5, <1>11, <1>12 DEF Lefts
<1>14. x \o more[0] = e
  <2>1. 0 \in 0..n
    OBVIOUS
  <2>. QED
    BY <1>8, <1>11, <2>1
<1>. QED
  BY <1>1, <1>4, <1>5, <1>7, <1>13, <1>14 DEF OnItsWay

(* More of the reasoning comes to be sent.                                 *)
LEMMA MoreToSend ==
  ASSUME NEW K, NEW D, NEW w, NEW o, NEW l, NEW p, NEW x, NEW e, NEW y \in Seq(K),
         OnItsWay(K, D, w, o, l, p, x, e)
  PROVE  OnItsWay(K, D, w, o, l, p \o y, x, e \o y)
<1>1. PICK left : Lefts(K, w, p, left) /\ x \o left[0] = e
  BY DEF OnItsWay
<1>2. w \in Seq(FramesOf(K, D)) /\ x \in Seq(K) /\ p \in Seq(K)
  BY DEF OnItsWay
<1>3. PICK n \in Nat : n = Len(w)
  BY <1>2, LenProperties
<1>4. left \in [0..n -> Seq(K)] /\ left[n] = p /\ \A k \in 1..n : left[k - 1] = Piece(w[k]) \o left[k]
  BY <1>1, <1>3 DEF Lefts
<1>5. PICK more : more = [k \in 0..n |-> left[k] \o y]
  OBVIOUS
<1>6. more \in [0..n -> Seq(K)] /\ \A k \in 0..n : more[k] = left[k] \o y
  <2>1. \A k \in 0..n : left[k] \o y \in Seq(K)
    BY <1>4, ConcatProperties
  <2>. QED
    BY <1>5, <2>1
<1>7. ASSUME NEW k \in 1..n PROVE more[k - 1] = Piece(w[k]) \o more[k]
  <2>1. k - 1 \in 0..n /\ k \in 0..n
    OBVIOUS
  <2>2. PICK a, b : a = Piece(w[k]) /\ b = left[k]
    OBVIOUS
  <2>3. a \in Seq(K) /\ b \in Seq(K)
    <3>1. w[k] \in FramesOf(K, D)
      BY <1>2, <1>3, ElementOfSeq
    <3>. QED
      BY <1>4, <2>1, <2>2, <3>1, FramesAre
  <2>4. (a \o b) \o y = a \o (b \o y)
    BY <2>3, ConcatAssociative
  <2>. QED
    BY <1>4, <1>6, <2>1, <2>2, <2>4
<1>8. Lefts(K, w, p \o y, more)
  <2>1. n \in 0..n
    OBVIOUS
  <2>. QED
    BY <1>3, <1>4, <1>6, <1>7, <2>1 DEF Lefts
<1>9. x \o more[0] = e \o y
  <2>1. 0 \in 0..n
    OBVIOUS
  <2>2. PICK b : b = left[0]
    OBVIOUS
  <2>3. b \in Seq(K)
    BY <1>4, <2>1, <2>2
  <2>4. (x \o b) \o y = x \o (b \o y)
    BY <1>2, <2>3, ConcatAssociative
  <2>. QED
    BY <1>1, <1>6, <2>1, <2>2, <2>4
<1>10. p \o y \in Seq(K)
  BY <1>2, ConcatProperties
<1>. QED
  BY <1>8, <1>9, <1>10 DEF OnItsWay

(* The client takes the next frame, which is the one it expects.           *)
LEMMA FrameTaken ==
  ASSUME NEW K, NEW D, NEW w, NEW o, NEW l, NEW p, NEW x, NEW e,
         OnItsWay(K, D, w, o, l, p, x, e), w # <<>>
  PROVE  /\ Head(w) \in FramesOf(K, D) /\ (Head(w).kind = "start") = ~o
         /\ Head(w).kind = "end" => Tail(w) = <<>> /\ ~l
         /\ OnItsWay(K, D, Tail(w), Head(w).kind # "end", l, p, x \o Piece(Head(w)), e)
<1>1. PICK left : Lefts(K, w, p, left) /\ x \o left[0] = e
  BY DEF OnItsWay
<1>2. w \in Seq(FramesOf(K, D)) /\ x \in Seq(K) /\ l \in BOOLEAN /\ p \in Seq(K) /\ Framed(w, o, l)
  BY DEF OnItsWay
<1>3. PICK n \in Nat : n + 1 = Len(w)
  <2>1. Len(w) \in Nat \ {0}
    BY <1>2, EmptySeq, LenProperties
  <2>2. Len(w) - 1 \in Nat /\ Len(w) - 1 + 1 = Len(w)
    BY <2>1
  <2>. QED
    BY <2>2
<1>4. PICK v : v = Tail(w)
  OBVIOUS
<1>5. /\ v \in Seq(FramesOf(K, D)) /\ Len(v) = n
      /\ \A i \in 1..n : v[i] = w[i + 1]
  <2>1. /\ Tail(w) \in Seq(FramesOf(K, D)) /\ Len(Tail(w)) = Len(w) - 1
        /\ \A i \in 1..(Len(w) - 1) : Tail(w)[i] = w[i + 1]
    BY <1>2, HeadTailProperties
  <2>2. Len(w) - 1 = n
    BY <1>3
  <2>. QED
    BY <1>4, <2>1, <2>2
<1>6. PICK f : f = Head(w)
  OBVIOUS
<1>7. f = w[1] /\ f \in FramesOf(K, D)
  BY <1>2, <1>6, HeadTailProperties
<1>8. 1 \in 1..(n + 1) /\ 1 \in 0..(n + 1) /\ 0 \in 0..(n + 1)
  OBVIOUS
<1>9. (f.kind = "start") = ~o
  BY <1>2, <1>3, <1>7, <1>8 DEF Framed
<1>10. ASSUME f.kind = "end" PROVE v = <<>> /\ ~l
  <2>1. 1 = n + 1
    BY <1>2, <1>3, <1>7, <1>8, <1>10 DEF Framed
  <2>2. ~l
    BY <1>2, <1>3, <1>7, <1>10, <2>1 DEF Framed
  <2>3. Len(v) = 0
    BY <1>5, <2>1
  <2>. QED
    BY <1>5, <2>2, <2>3, EmptySeq
<1>11. Framed(v, f.kind # "end", l)
  <2>1. ASSUME NEW i \in 1..n
        PROVE  (v[i].kind = "start") = ~(IF i = 1 THEN f.kind # "end" ELSE v[i - 1].kind # "end")
    <3>1. PICK j \in 1..(n + 1) : j = i + 1 /\ j - 1 = i /\ j # 1
      <4>1. i + 1 \in 1..(n + 1) /\ i + 1 - 1 = i /\ i + 1 # 1
        OBVIOUS
      <4>. QED
        BY <4>1
    <3>2. (w[j].kind = "start") = ~(w[i].kind # "end")
      BY <1>2, <1>3, <3>1 DEF Framed
    <3>3. v[i] = w[j]
      BY <1>5, <3>1
    <3>4. CASE i = 1
      BY <1>7, <3>2, <3>3, <3>4
    <3>5. CASE i # 1
      <4>1. i - 1 \in 1..n /\ i - 1 + 1 = i
        BY <3>5
      <4>2. v[i - 1] = w[i]
        BY <1>5, <4>1
      <4>. QED
        BY <3>2, <3>3, <3>5, <4>2
    <3>. QED
      BY <3>4, <3>5
  <2>2. ASSUME NEW i \in 1..n, v[i].kind = "end" PROVE i = n
    <3>1. PICK j \in 1..(n + 1) : j = i + 1
      <4>1. i + 1 \in 1..(n + 1)
        OBVIOUS
      <4>. QED
        BY <4>1
    <3>2. w[j].kind = "end"
      BY <1>5, <2>2, <3>1
    <3>3. j = n + 1
      BY <1>2, <1>3, <3>2 DEF Framed
    <3>. QED
      BY <3>1, <3>3
  <2>3. l = (w[n + 1].kind # "end")
    BY <1>2, <1>3 DEF Framed
  <2>4. l = IF v = <<>> THEN f.kind # "end" ELSE v[Len(v)].kind # "end"
    <3>1. CASE n = 0
      <4>1. v = <<>> /\ n + 1 = 1
        BY <1>5, <3>1, EmptySeq
      <4>. QED
        BY <1>7, <2>3, <4>1
    <3>2. CASE n # 0
      <4>1. n \in 1..n
        BY <3>2
      <4>2. v # <<>> /\ v[Len(v)] = w[n + 1]
        BY <1>5, <3>2, <4>1, EmptySeq
      <4>. QED
        BY <2>3, <4>2
    <3>. QED
      BY <3>1, <3>2
  <2>. QED
    BY <1>5, <2>1, <2>2, <2>4 DEF Framed
<1>12. /\ left \in [0..(n + 1) -> Seq(K)] /\ left[n + 1] = p
       /\ \A k \in 1..(n + 1) : left[k - 1] = Piece(w[k]) \o left[k]
  BY <1>1, <1>3 DEF Lefts
<1>13. PICK more : more = [k \in 0..n |-> left[k + 1]]
  OBVIOUS
<1>14. \A k \in 0..n : k + 1 \in 0..(n + 1) /\ k + 1 \in 1..(n + 1)
  OBVIOUS
<1>15. more \in [0..n -> Seq(K)] /\ \A k \in 0..n : more[k] = left[k + 1]
  BY <1>12, <1>13, <1>14
<1>16. ASSUME NEW k \in 1..n PROVE more[k - 1] = Piece(v[k]) \o more[k]
  <2>1. k - 1 \in 0..n /\ k - 1 + 1 = k /\ k \in 0..n
    OBVIOUS
  <2>2. PICK j \in 1..(n + 1) : j = k + 1 /\ j - 1 = k
    <3>1. k + 1 \in 1..(n + 1) /\ k + 1 - 1 = k
      OBVIOUS
    <3>. QED
      BY <3>1
  <2>3. left[k] = Piece(w[j]) \o left[j]
    BY <1>12, <2>2
  <2>4. more[k - 1] = left[k] /\ more[k] = left[j] /\ v[k] = w[j]
    BY <1>5, <1>15, <2>1, <2>2
  <2>. QED
    BY <2>3, <2>4
<1>17. Lefts(K, v, p, more)
  <2>1. n \in 0..n
    OBVIOUS
  <2>. QED
    BY <1>5, <1>12, <1>15, <1>16, <2>1 DEF Lefts
<1>18. PICK g : g = Piece(f)
  OBVIOUS
<1>19. g \in Seq(K)
  BY <1>7, <1>18, FramesAre
<1>20. x \o g \in Seq(K)
  BY <1>2, <1>19, ConcatProperties
<1>21. (x \o g) \o more[0] = e
  <2>1. left[0] = g \o left[1]
    <3>1. 1 - 1 = 0
      OBVIOUS
    <3>. QED
      BY <1>7, <1>8, <1>12, <1>18, <3>1
  <2>2. PICK b : b = left[1]
    OBVIOUS
  <2>3. b \in Seq(K) /\ more[0] = b
    <3>1. 0 \in 0..n /\ 0 + 1 = 1
      OBVIOUS
    <3>. QED
      BY <1>8, <1>12, <1>15, <2>2, <3>1
  <2>4. (x \o g) \o b = x \o (g \o b)
    BY <1>2, <1>19, <2>3, ConcatAssociative
  <2>. QED
    BY <1>1, <2>1, <2>2, <2>3, <2>4
<1>22. (f.kind # "end") \in BOOLEAN
  OBVIOUS
<1>23. OnItsWay(K, D, v, f.kind # "end", l, p, x \o g, e)
  BY <1>2, <1>5, <1>11, <1>17, <1>20, <1>21 DEF OnItsWay
<1>. QED
  BY <1>4, <1>6, <1>7, <1>9, <1>10, <1>18, <1>23

(* More texts may end the stream.                                          *)
LEMMA MoreMayEnd ==
  ASSUME NEW K, NEW D, NEW D2, D \subseteq D2, NEW w, NEW o, NEW l, NEW p, NEW x, NEW e,
         OnItsWay(K, D, w, o, l, p, x, e)
  PROVE  OnItsWay(K, D2, w, o, l, p, x, e)
<1>1. FramesOf(K, D) \subseteq FramesOf(K, D2)
  BY DEF FramesOf
<1>2. w \in Seq(FramesOf(K, D2))
  BY <1>1 DEF OnItsWay
<1>. QED
  BY <1>2 DEF OnItsWay

(* The first part of a text begins it.                                     *)
LEMMA PrefixOfJoined ==
  ASSUME NEW K, NEW x \in Seq(K), NEW y \in Seq(K)
  PROVE  IsPrefix(x, x \o y)
<1>1. Len(x) \in Nat /\ Len(y) \in Nat /\ Len(x \o y) = Len(x) + Len(y)
  BY LenProperties, ConcatProperties
<1>2. Len(x) \in 0..Len(x) /\ Len(x) <= Len(x) + Len(y)
  BY <1>1
<1>3. SubSeq(x \o y, 1, Len(x)) = SubSeq(x, 1, Len(x))
  BY <1>2, PartsOfTwo
<1>. QED
  BY <1>1, <1>2, <1>3 DEF IsPrefix

(* Nothing of an empty way is left but what is yet to be sent.             *)
LEMMA EmptyWay ==
  ASSUME NEW K, NEW D, NEW o, NEW l, NEW p, NEW x, NEW e
  PROVE  /\ OnItsWay(K, D, <<>>, o, l, p, x, e) => o = l /\ e = x \o p
         /\ /\ o \in BOOLEAN /\ l = o /\ p \in Seq(K) /\ x \in Seq(K) /\ e = x \o p
            => OnItsWay(K, D, <<>>, o, l, p, x, e)
<1>1. Len(<<>>) = 0 /\ 1..0 = {} /\ 0..0 = {0} /\ <<>> \in Seq(FramesOf(K, D))
  OBVIOUS
<1>2. ASSUME OnItsWay(K, D, <<>>, o, l, p, x, e) PROVE o = l /\ e = x \o p
  <2>1. o = l
    BY <1>2 DEF OnItsWay, Framed
  <2>2. PICK left : Lefts(K, <<>>, p, left) /\ x \o left[0] = e
    BY <1>2 DEF OnItsWay
  <2>3. left[0] = p
    BY <1>1, <2>2 DEF Lefts
  <2>. QED
    BY <2>1, <2>2, <2>3
<1>3. ASSUME o \in BOOLEAN, l = o, p \in Seq(K), x \in Seq(K), e = x \o p
      PROVE  OnItsWay(K, D, <<>>, o, l, p, x, e)
  <2>1. PICK left : left = [k \in 0..0 |-> p]
    OBVIOUS
  <2>2. left \in [0..0 -> Seq(K)] /\ left[0] = p
    BY <1>3, <2>1
  <2>3. Lefts(K, <<>>, p, left)
    BY <1>1, <2>2 DEF Lefts
  <2>4. Framed(<<>>, o, l)
    BY <1>1, <1>3 DEF Framed
  <2>. QED
    BY <1>1, <1>3, <2>2, <2>3, <2>4 DEF OnItsWay
<1>. QED
  BY <1>2, <1>3

(* What may end the stream as it stands, what of its reasoning there is to *)
(* show, and what the client has of it. All of it is on the screen or on   *)
(* its way there, unless a first block has taken its place.                *)
Arrived == SubSeq(text, 1, at)
Finals ==
  IF ~finished THEN {}
  ELSE IF at = Len(text) /\ ~agent THEN {NoText, FirstBlock(text)} ELSE {NoText}
Reasoning == IF finished THEN Between(Arrived) ELSE Given(Scanned(Arrived))
OnScreen == shown \o Uncommitted

BlockShown ==
  /\ finished /\ wire = <<>> /\ live = FALSE /\ entry = NoEntry /\ ~agent /\ at = Len(text)
  /\ shown = FirstBlock(text)
Underway == OnItsWay(Symbols, Finals, wire, entry.open, live, pending, OnScreen, Reasoning)

EntryOK ==
  /\ entry \in [open : BOOLEAN, got : Seq(Symbols), committed : Nat]
  /\ entry.committed <= Len(entry.got)
  /\ ~entry.open => entry = NoEntry
ScannerOK ==
  /\ text \in Texts /\ at \in 0..Len(text) /\ commits \in 0..MaxCommits
  /\ agent \in BOOLEAN /\ inside \in BOOLEAN /\ finished \in BOOLEAN
  /\ finished => pending = <<>> /\ ~live
  /\ ~finished => inside = Scanned(Arrived).inside /\ buffer = Back(Scanned(Arrived))
StreamInv ==
  /\ EntryOK /\ ScannerOK /\ shown \in Seq(Symbols)
  /\ entry.committed = 0 => shown = <<>> \/ (finished /\ wire = <<>>)
  /\ BlockShown \/ Underway

(* Until a first block is shown, nothing is lost.                          *)
LEMMA NothingLost ==
  ASSUME StreamInv, ~finished \/ wire # <<>> \/ entry.open
  PROVE  OnItsWay(Symbols, Finals, wire, entry.open, live, pending, OnScreen, Reasoning)
BY DEF StreamInv, BlockShown, Underway, NoEntry

(* The tags and the responses are texts of the same symbols.               *)
LEMMA TagsAre == TagsOK(Symbols) /\ \A t \in Texts : t \in Seq(Symbols)
BY ThinkAssumption DEF TagsOK

(* What the client has not committed.                                      *)
LEMMA UncommittedIs ==
  ASSUME EntryOK
  PROVE  /\ Uncommitted \in Seq(Symbols) /\ entry.got \in Seq(Symbols)
         /\ entry.committed \in 0..Len(entry.got)
         /\ ~entry.open => Uncommitted = <<>>
<1>1. PICK g \in Seq(Symbols) : g = entry.got
  BY DEF EntryOK
<1>2. PICK n \in 0..Len(g) : n = entry.committed
  <2>1. Len(g) \in Nat
    BY LenProperties
  <2>. QED
    BY <1>1, <2>1 DEF EntryOK
<1>3. SubSeq(g, n + 1, Len(g)) \in Seq(Symbols)
  BY PartsJoin
<1>4. ASSUME ~entry.open PROVE Uncommitted = <<>>
  <2>1. entry = NoEntry
    BY <1>4 DEF EntryOK
  <2>2. entry.got = <<>> /\ entry.committed = 0
    BY <2>1 DEF NoEntry
  <2>3. SubSeq(<<>>, 0 + 1, 0) = <<>>
    OBVIOUS
  <2>. QED
    BY <2>2, <2>3 DEF Uncommitted
<1>. QED
  BY <1>1, <1>2, <1>3, <1>4 DEF Uncommitted

(* Before the response ended no frame ends the stream, and what is not     *)
(* open has sent nothing.                                                  *)
LEMMA OpenOrEmpty ==
  ASSUME StreamInv, ~finished
  PROVE  live \/ wire = <<>>
<1>1. SUFFICES ASSUME ~live, wire # <<>> PROVE FALSE
  OBVIOUS
<1>2. wire \in Seq(FramesOf(Symbols, {})) /\ Framed(wire, entry.open, live)
  BY NothingLost DEF OnItsWay, Finals
<1>3. Len(wire) \in 1..Len(wire)
  BY <1>1, <1>2, EmptySeq, LenProperties
<1>4. wire[Len(wire)] \in FramesOf(Symbols, {})
  BY <1>2, <1>3, ElementOfSeq
<1>5. wire[Len(wire)].kind = "end"
  BY <1>1, <1>2 DEF Framed
<1>. QED
  BY <1>4, <1>5, FramesAre

(* The frame that opens the stream is sent when it has to be.              *)
LEMMA OpenedIs ==
  ASSUME NEW K, NEW D, NEW o, NEW p, NEW x, NEW e,
         OnItsWay(K, D, wire, o, live, p, x, e), live \/ wire = <<>>
  PROVE  OnItsWay(K, D, Opened(wire), o, TRUE, p, x, e)
<1>1. live \in BOOLEAN
  BY DEF OnItsWay
<1>2. CASE live
  <2>1. live = TRUE /\ Opened(wire) = wire
    BY <1>1, <1>2 DEF Opened
  <2>. QED
    BY <2>1
<1>3. CASE ~live
  <2>1. PICK f : f = StartFrame
    OBVIOUS
  <2>2. f \in FramesOf(K, D) /\ f.kind = "start" /\ Piece(f) = <<>>
    BY <2>1 DEF FramesOf, StartFrame, Piece
  <2>3. p \in Seq(K) /\ <<>> \o p = p
    BY ConcatSimplifications DEF OnItsWay
  <2>4. (f.kind = "start") = ~live /\ p = Piece(f) \o p /\ (f.kind # "end") = TRUE
    BY <1>3, <2>2, <2>3
  <2>5. OnItsWay(K, D, Append(wire, f), o, f.kind # "end", p, x, e)
    BY <2>2, <2>3, <2>4, FrameSent
  <2>6. Opened(wire) = Append(wire, f)
    BY <1>3, <2>1 DEF Opened, StartFrame
  <2>. QED
    BY <2>4, <2>5, <2>6
<1>. QED
  BY <1>2, <1>3

(* A delta with all that is to be sent, and the frame that ends a stream.  *)
LEMMA DeltaSent ==
  ASSUME NEW K, NEW D, NEW w, NEW o, NEW p, NEW x, NEW e, OnItsWay(K, D, w, o, TRUE, p, x, e)
  PROVE  OnItsWay(K, D, Append(w, Delta(p)), o, TRUE, <<>>, x, e)
<1>1. p \in Seq(K) /\ p \o <<>> = p
  BY ConcatSimplifications DEF OnItsWay
<1>2. <<>> \in Seq(K)
  OBVIOUS
<1>3. PICK f : f = Delta(p)
  OBVIOUS
<1>4. f \in FramesOf(K, D) /\ f.kind = "delta" /\ Piece(f) = p
  BY <1>1, <1>3 DEF FramesOf, Delta, Piece
<1>5. (f.kind = "start") = ~TRUE /\ p = Piece(f) \o <<>> /\ (f.kind # "end") = TRUE
  BY <1>1, <1>4
<1>6. OnItsWay(K, D, Append(w, f), o, f.kind # "end", <<>>, x, e)
  BY <1>2, <1>4, <1>5, FrameSent
<1>. QED
  BY <1>3, <1>5, <1>6

(* A stream ends with a text it may end with.                              *)
LEMMA EndSent ==
  ASSUME NEW K, NEW D, NEW w, NEW o, NEW x, NEW e, NEW t \in D,
         OnItsWay(K, D, w, o, TRUE, <<>>, x, e)
  PROVE  OnItsWay(K, D, Append(w, End(t)), o, FALSE, <<>>, x, e)
<1>1. <<>> \in Seq(K) /\ <<>> \o <<>> = <<>>
  OBVIOUS
<1>2. PICK f : f = End(t)
  OBVIOUS
<1>3. f \in FramesOf(K, D) /\ f.kind = "end" /\ Piece(f) = <<>>
  BY <1>2 DEF FramesOf, End, Piece
<1>4. (f.kind = "start") = ~TRUE /\ <<>> = Piece(f) \o <<>> /\ (f.kind # "end") = FALSE
  BY <1>1, <1>3
<1>5. OnItsWay(K, D, Append(w, f), o, f.kind # "end", <<>>, x, e)
  BY <1>1, <1>3, <1>4, FrameSent
<1>. QED
  BY <1>2, <1>4, <1>5

(* A chunk: the scan goes on, and what it gives out is to be sent.         *)
LEMMA ChunkKeepsStream ==
  ASSUME StreamInv, NEW n \in 1..MaxChunk, ChunkArrives(n)
  PROVE  StreamInv'
<1>1. /\ ~finished /\ at + n <= Len(text) /\ at' = at + n
      /\ UNCHANGED <<agent, text, entry, shown, commits, finished>>
  BY DEF ChunkArrives
<1>2. PICK t \in Seq(Symbols) : t = text
  BY TagsAre DEF StreamInv, ScannerOK
<1>3. PICK a \in 0..Len(t), b \in 0..Len(t) : a = at /\ b = at + n /\ a <= b
  <2>1. Len(t) \in Nat /\ n \in Nat
    BY LenProperties, ThinkAssumption
  <2>2. at \in 0..Len(t) /\ at + n \in 0..Len(t) /\ at <= at + n
    BY <1>1, <1>2, <2>1 DEF StreamInv, ScannerOK
  <2>. QED
    BY <2>2
<1>4. PICK p : p = SubSeq(t, 1, a)
  OBVIOUS
<1>5. PICK c : c = SubSeq(t, a + 1, b)
  OBVIOUS
<1>6. p \in Seq(Symbols) /\ c \in Seq(Symbols) /\ p \o c = SubSeq(t, 1, b)
  BY <1>3, <1>4, <1>5, Onward
<1>7. Arrived = p /\ Arrived' = p \o c
  BY <1>1, <1>2, <1>3, <1>4, <1>6 DEF Arrived
<1>8. PICK s, z, q : s = Scanned(p) /\ z = Scanned(p \o c) /\ q = Push(Back(s) \o c, s.inside)
  OBVIOUS
<1>9. /\ q.buffer = Back(z) /\ q.inside = z.inside /\ q.out \in Seq(Symbols)
      /\ Given(z) = Given(s) \o q.out
  BY <1>6, <1>8, TagsAre, PushGoesOn
<1>10. z.inside \in BOOLEAN
  <2>1. p \o c \in Seq(Symbols)
    BY <1>6, ConcatProperties
  <2>. QED
    BY <1>8, <2>1, TagsAre, BetweenIs
<1>11. buffer = Back(s) /\ inside = s.inside
  BY <1>1, <1>7, <1>8 DEF StreamInv, ScannerOK
<1>12. q = Push(buffer \o SubSeq(text, at + 1, at + n), inside)
  BY <1>2, <1>3, <1>5, <1>8, <1>11
<1>13. PICK d : d = pending \o q.out
  OBVIOUS
<1>14. /\ buffer' = q.buffer /\ inside' = q.inside
       /\ IF Len(d) >= Coalesce
          THEN wire' = Append(Opened(wire), Delta(d)) /\ live' = TRUE /\ pending' = <<>>
          ELSE pending' = d /\ UNCHANGED <<wire, live>>
  BY <1>12, <1>13 DEF ChunkArrives
<1>15. OnItsWay(Symbols, {}, wire, entry.open, live, d, OnScreen, Given(z))
  <2>1. OnItsWay(Symbols, {}, wire, entry.open, live, pending, OnScreen, Given(s))
    BY <1>1, <1>7, <1>8, NothingLost DEF Finals, Reasoning
  <2>. QED
    BY <1>9, <1>13, <2>1, MoreToSend
<1>16. OnItsWay(Symbols, {}, wire', entry.open, live', pending', OnScreen, Given(z))
  <2>1. CASE Len(d) >= Coalesce
    <3>1. OnItsWay(Symbols, {}, Opened(wire), entry.open, TRUE, d, OnScreen, Given(z))
      BY <1>1, <1>15, OpenOrEmpty, OpenedIs
    <3>2. OnItsWay(Symbols, {}, Append(Opened(wire), Delta(d)), entry.open, TRUE, <<>>, OnScreen,
                   Given(z))
      BY <3>1, DeltaSent
    <3>. QED
      BY <1>14, <2>1, <3>2
  <2>2. CASE ~(Len(d) >= Coalesce)
    BY <1>14, <1>15, <2>2
  <2>. QED
    BY <2>1, <2>2
<1>17. Finals' = {} /\ Reasoning' = Given(z) /\ OnScreen' = OnScreen
  BY <1>1, <1>7, <1>8 DEF Finals, Reasoning, OnScreen, Uncommitted
<1>18. OnItsWay(Symbols, Finals, wire, entry.open, live, pending, OnScreen, Reasoning)'
  BY <1>1, <1>16, <1>17
<1>19. EntryOK' /\ shown' \in Seq(Symbols)
  BY <1>1 DEF StreamInv, EntryOK
<1>20. ScannerOK'
  <2>1. at' \in 0..Len(text') /\ text' \in Texts /\ commits' \in 0..MaxCommits /\ ~finished'
        /\ finished' \in BOOLEAN
    BY <1>1, <1>2, <1>3 DEF StreamInv, ScannerOK
  <2>2. inside' = z.inside /\ buffer' = Back(z)
    BY <1>9, <1>14
  <2>3. Scanned(Arrived)' = z
    BY <1>7, <1>8
  <2>4. agent' \in BOOLEAN
    BY <1>1 DEF StreamInv, ScannerOK
  <2>. QED
    BY <1>10, <2>1, <2>2, <2>3, <2>4 DEF ScannerOK
<1>21. entry'.committed = 0 => shown' = <<>> \/ (finished' /\ wire' = <<>>)
  BY <1>1 DEF StreamInv
<1>. QED
  BY <1>18, <1>19, <1>20, <1>21 DEF StreamInv, Underway

(* The end of the response: what is left is sent, and the stream ends.     *)
LEMMA EndKeepsStream ==
  ASSUME StreamInv, ResponseEnds
  PROVE  StreamInv'
<1>1. PICK final \in {NoText, FirstBlock(text)} :
        /\ final # NoText => at = Len(text) /\ ~agent
        /\ LET begun == live \/ Flushed # <<>> \/ final # NoText
               sent == IF Flushed = <<>> THEN <<>> ELSE <<Delta(Flushed)>>
           IN wire' = IF begun THEN Opened(wire) \o sent \o <<End(final)>> ELSE wire
  BY DEF ResponseEnds
<1>2. /\ ~finished /\ finished' = TRUE /\ pending' = <<>> /\ live' = FALSE /\ inside' = FALSE
      /\ UNCHANGED <<agent, text, at, entry, shown, commits>>
  BY DEF ResponseEnds
<1>3. Arrived \in Seq(Symbols) /\ Arrived' = Arrived
  <2>1. text \in Seq(Symbols) /\ at \in 0..Len(text)
    BY TagsAre DEF StreamInv, ScannerOK
  <2>2. SubSeq(text, 1, at) \in Seq(Symbols)
    BY <2>1, PartsJoin
  <2>. QED
    BY <1>2, <2>2 DEF Arrived
<1>4. PICK s : s = Scanned(Arrived)
  OBVIOUS
<1>5. PICK y : y = IF inside THEN buffer ELSE <<>>
  OBVIOUS
<1>6. Between(Arrived) = Given(s) \o y /\ y \in Seq(Symbols)
  <2>1. inside = s.inside /\ buffer = Back(s)
    BY <1>2, <1>4 DEF StreamInv, ScannerOK
  <2>2. /\ Between(Arrived) = Given(s) \o (IF s.inside THEN Back(s) ELSE <<>>)
        /\ Back(s) \in Seq(Symbols)
    BY <1>3, <1>4, TagsAre, BetweenIs
  <2>3. <<>> \in Seq(Symbols)
    OBVIOUS
  <2>. QED
    BY <1>5, <2>1, <2>2, <2>3
<1>7. Flushed = pending \o y
  BY <1>5 DEF Flushed
<1>8. PICK e : e = Between(Arrived)
  OBVIOUS
<1>9. PICK D : D = Finals'
  OBVIOUS
<1>10. final \in D /\ {} \subseteq D
  BY <1>1, <1>2, <1>9 DEF Finals
<1>11. PICK u : u = Flushed
  OBVIOUS
<1>12. OnItsWay(Symbols, D, wire, entry.open, live, u, OnScreen, e)
  <2>1. OnItsWay(Symbols, {}, wire, entry.open, live, pending, OnScreen, Given(s))
    BY <1>2, <1>4, NothingLost DEF Finals, Reasoning
  <2>2. OnItsWay(Symbols, {}, wire, entry.open, live, u, OnScreen, e)
    BY <1>6, <1>7, <1>8, <1>11, <2>1, MoreToSend
  <2>. QED
    BY <1>10, <2>2, MoreMayEnd
<1>13. OnItsWay(Symbols, D, wire', entry.open, FALSE, <<>>, OnScreen, e)
  <2>1. CASE live \/ u # <<>> \/ final # NoText
    <3>1. PICK v : v = Opened(wire)
      OBVIOUS
    <3>2. OnItsWay(Symbols, D, v, entry.open, TRUE, u, OnScreen, e)
      BY <1>2, <1>12, <3>1, OpenOrEmpty, OpenedIs
    <3>3. v \in Seq(FramesOf(Symbols, D))
      BY <3>2 DEF OnItsWay
    <3>4. CASE u = <<>>
      <4>1. OnItsWay(Symbols, D, Append(v, End(final)), entry.open, FALSE, <<>>, OnScreen, e)
        BY <1>10, <3>2, <3>4, EndSent
      <4>2. wire' = v \o <<>> \o <<End(final)>>
        BY <1>1, <1>11, <2>1, <3>1, <3>4
      <4>3. v \o <<>> = v
        BY <3>3, ConcatSimplifications
      <4>4. v \o <<End(final)>> = Append(v, End(final))
        BY <3>3, AppendIsConcat
      <4>. QED
        BY <4>1, <4>2, <4>3, <4>4
    <3>5. CASE u # <<>>
      <4>1. PICK x : x = Append(v, Delta(u))
        OBVIOUS
      <4>2. OnItsWay(Symbols, D, x, entry.open, TRUE, <<>>, OnScreen, e)
        BY <3>2, <4>1, DeltaSent
      <4>3. OnItsWay(Symbols, D, Append(x, End(final)), entry.open, FALSE, <<>>, OnScreen, e)
        BY <1>10, <4>2, EndSent
      <4>4. wire' = v \o <<Delta(u)>> \o <<End(final)>>
        BY <1>1, <1>11, <2>1, <3>1, <3>5
      <4>5. v \o <<Delta(u)>> = x
        BY <3>3, <4>1, AppendIsConcat
      <4>6. x \o <<End(final)>> = Append(x, End(final))
        <5>1. x \in Seq(FramesOf(Symbols, D))
          BY <4>2 DEF OnItsWay
        <5>. QED
          BY <5>1, AppendIsConcat
      <4>. QED
        BY <4>3, <4>4, <4>5, <4>6
    <3>. QED
      BY <3>4, <3>5
  <2>2. CASE ~live /\ u = <<>> /\ final = NoText
    <3>1. wire' = wire
      BY <1>1, <1>11, <2>2
    <3>2. live = FALSE
      BY <1>12, <2>2 DEF OnItsWay
    <3>. QED
      BY <1>12, <2>2, <3>1, <3>2
  <2>. QED
    BY <2>1, <2>2
<1>14. Reasoning' = e /\ OnScreen' = OnScreen
  BY <1>2, <1>3, <1>8 DEF Reasoning, OnScreen, Uncommitted
<1>15. OnItsWay(Symbols, Finals, wire, entry.open, live, pending, OnScreen, Reasoning)'
  BY <1>2, <1>9, <1>13, <1>14
<1>16. EntryOK' /\ shown' \in Seq(Symbols)
  BY <1>2 DEF StreamInv, EntryOK
<1>17. ScannerOK'
  BY <1>2 DEF StreamInv, ScannerOK
<1>18. entry'.committed = 0 => shown' = <<>> \/ (finished' /\ wire' = <<>>)
  BY <1>2 DEF StreamInv
<1>. QED
  BY <1>15, <1>16, <1>17, <1>18 DEF StreamInv, Underway

(* The client commits what it has: nothing of it is shown twice.           *)
LEMMA CommitKeepsStream ==
  ASSUME StreamInv, CommitLiveThinks
  PROVE  StreamInv'
<1>1. /\ entry.open /\ commits < MaxCommits /\ shown' = shown \o Uncommitted
      /\ entry' = [entry EXCEPT !.committed = Len(entry.got)] /\ commits' = commits + 1
      /\ UNCHANGED <<agent, text, at, buffer, inside, pending, live, wire, finished>>
  BY DEF CommitLiveThinks, CommittedLength
<1>2. /\ Uncommitted \in Seq(Symbols) /\ entry.got \in Seq(Symbols) /\ shown \in Seq(Symbols)
      /\ entry.committed \in 0..Len(entry.got) /\ EntryOK
  BY UncommittedIs DEF StreamInv
<1>3. PICK g \in Seq(Symbols) : g = entry.got
  BY <1>2
<1>4. PICK n \in Nat : n = Len(g)
  BY LenProperties
<1>5. entry' = [open |-> TRUE, got |-> g, committed |-> n]
  <2>1. entry \in [open : BOOLEAN, got : Seq(Symbols), committed : Nat]
    BY <1>2 DEF EntryOK
  <2>2. entry.open = TRUE
    BY <1>1, <2>1
  <2>. QED
    BY <1>1, <1>3, <1>4, <2>1, <2>2
<1>6. entry'.open = TRUE /\ entry'.got = g /\ entry'.committed = n
  BY <1>5
<1>7. EntryOK'
  BY <1>4, <1>5, <1>6 DEF EntryOK
<1>8. Uncommitted' = <<>>
  <2>1. SubSeq(g, n + 1, n) = <<>>
    BY <1>4
  <2>. QED
    BY <1>4, <1>6, <2>1 DEF Uncommitted
<1>9. shown' \in Seq(Symbols)
  BY <1>1, <1>2, ConcatProperties
<1>10. OnScreen' = OnScreen
  <2>1. shown' \o <<>> = shown'
    BY <1>9, ConcatSimplifications
  <2>. QED
    BY <1>1, <1>8, <2>1 DEF OnScreen
<1>11. Finals' = Finals /\ Reasoning' = Reasoning /\ Arrived' = Arrived
  BY <1>1 DEF Finals, Reasoning, Arrived
<1>12. entry.open = TRUE
  BY <1>1, <1>2 DEF EntryOK
<1>13. OnItsWay(Symbols, Finals, wire, entry.open, live, pending, OnScreen, Reasoning)'
  BY <1>1, <1>6, <1>10, <1>11, <1>12, NothingLost
<1>14. ScannerOK'
  <2>1. commits' \in 0..MaxCommits
    BY <1>1, ThinkAssumption DEF StreamInv, ScannerOK
  <2>. QED
    BY <1>1, <1>11, <2>1 DEF StreamInv, ScannerOK
<1>15. ASSUME n = 0 PROVE shown' = <<>> \/ (finished' /\ wire' = <<>>)
  <2>1. g = <<>> /\ entry.committed = 0
    <3>1. Len(g) = 0 /\ 0..Len(g) = {0}
      BY <1>4, <1>15
    <3>2. g \in Seq(Symbols)
      BY <1>3
    <3>3. g = <<>>
      BY <3>1, <3>2, EmptySeq
    <3>. QED
      BY <1>2, <1>3, <3>1, <3>3
  <2>2. shown = <<>> \/ (finished /\ wire = <<>>)
    BY <2>1 DEF StreamInv
  <2>3. Uncommitted = <<>>
    <3>1. SubSeq(<<>>, 0 + 1, 0) = <<>>
      OBVIOUS
    <3>. QED
      BY <1>3, <2>1, <3>1 DEF Uncommitted
  <2>4. <<>> \o <<>> = <<>>
    OBVIOUS
  <2>. QED
    BY <1>1, <2>2, <2>3, <2>4
<1>. QED
  BY <1>6, <1>7, <1>9, <1>13, <1>14, <1>15 DEF StreamInv, Underway

(* A frame: what it brings is shown behind what there is, and nothing else.*)
LEMMA FrameKeepsStream ==
  ASSUME StreamInv, HandleFrame
  PROVE  StreamInv'
<1>1. /\ wire # <<>> /\ wire' = Tail(wire)
      /\ UNCHANGED <<agent, text, at, buffer, inside, pending, live, commits, finished>>
  BY DEF HandleFrame
<1>2. PICK f : f = Head(wire)
  OBVIOUS
<1>3. PICK e : e = Reasoning
  OBVIOUS
<1>4. OnItsWay(Symbols, Finals, wire, entry.open, live, pending, OnScreen, e)
  BY <1>1, <1>3, NothingLost
<1>5. /\ f \in FramesOf(Symbols, Finals) /\ (f.kind = "start") = ~entry.open
      /\ f.kind = "end" => Tail(wire) = <<>> /\ ~live
      /\ OnItsWay(Symbols, Finals, wire', f.kind # "end", live, pending, OnScreen \o Piece(f), e)
  BY <1>1, <1>2, <1>4, FrameTaken
<1>6. /\ f.kind \in {"start", "delta", "end"} /\ Piece(f) \in Seq(Symbols)
      /\ f.kind = "delta" => f.text \in Seq(Symbols)
      /\ f.kind = "end" => f.text \in Finals
  BY <1>5, FramesAre
<1>7. Finals' = Finals /\ Reasoning' = e /\ ScannerOK'
  <2>1. Arrived' = Arrived
    BY <1>1 DEF Arrived
  <2>. QED
    BY <1>1, <1>3, <2>1 DEF Finals, Reasoning, ScannerOK, StreamInv
<1>8. /\ Uncommitted \in Seq(Symbols) /\ entry.got \in Seq(Symbols) /\ shown \in Seq(Symbols)
      /\ entry.committed \in 0..Len(entry.got) /\ EntryOK
  BY UncommittedIs DEF StreamInv
<1>9. OnScreen \in Seq(Symbols) /\ OnScreen \o <<>> = OnScreen
  <2>1. OnScreen \in Seq(Symbols)
    BY <1>4 DEF OnItsWay
  <2>. QED
    BY <2>1, ConcatSimplifications
<1>10. entry.committed = 0 => shown = <<>>
  BY <1>1 DEF StreamInv
<1>11. CASE f.kind = "start"
  <2>1. shown' = shown /\ entry' = [NoEntry EXCEPT !.open = TRUE]
    BY <1>2, <1>11 DEF HandleFrame
  <2>2. entry' = [open |-> TRUE, got |-> <<>>, committed |-> 0]
    BY <2>1 DEF NoEntry
  <2>3. entry'.open = TRUE /\ entry'.got = <<>> /\ entry'.committed = 0
    BY <2>2
  <2>4. <<>> \in Seq(Symbols) /\ Len(<<>>) = 0 /\ SubSeq(<<>>, 0 + 1, 0) = <<>>
    OBVIOUS
  <2>5. EntryOK'
    BY <2>2, <2>3, <2>4 DEF EntryOK
  <2>6. ~entry.open
    BY <1>5, <1>11
  <2>7. Uncommitted = <<>>
    BY <1>8, <2>6, UncommittedIs
  <2>8. Uncommitted' = <<>>
    BY <2>3, <2>4 DEF Uncommitted
  <2>9. OnScreen' = OnScreen
    BY <2>1, <2>7, <2>8 DEF OnScreen
  <2>10. Piece(f) = <<>> /\ (f.kind # "end") = TRUE
    BY <1>11 DEF Piece
  <2>11. OnItsWay(Symbols, Finals, wire', TRUE, live, pending, OnScreen, e)
    BY <1>5, <1>9, <2>10
  <2>12. OnItsWay(Symbols, Finals, wire, entry.open, live, pending, OnScreen, Reasoning)'
    BY <1>1, <1>7, <2>3, <2>9, <2>11
  <2>13. shown' = <<>>
    <3>1. entry = NoEntry
      BY <1>8, <2>6 DEF EntryOK
    <3>. QED
      BY <1>10, <2>1, <3>1 DEF NoEntry
  <2>. QED
    BY <1>7, <2>4, <2>5, <2>12, <2>13 DEF StreamInv, Underway
<1>12. CASE f.kind = "delta"
  <2>1. shown' = shown /\ entry' = [entry EXCEPT !.got = @ \o f.text]
    BY <1>2, <1>12 DEF HandleFrame
  <2>2. PICK g : g = entry.got
    OBVIOUS
  <2>3. PICK c : c = f.text
    OBVIOUS
  <2>4. PICK n : n = entry.committed
    OBVIOUS
  <2>5. g \in Seq(Symbols) /\ c \in Seq(Symbols) /\ n \in 0..Len(g)
    BY <1>6, <1>8, <1>12, <2>2, <2>3, <2>4
  <2>6. entry.open = TRUE
    BY <1>5, <1>8, <1>12 DEF EntryOK
  <2>7. entry' = [open |-> TRUE, got |-> g \o c, committed |-> n]
    <3>1. entry \in [open : BOOLEAN, got : Seq(Symbols), committed : Nat]
      BY <1>8 DEF EntryOK
    <3>. QED
      BY <2>1, <2>2, <2>3, <2>4, <2>6, <3>1
  <2>8. entry'.open = TRUE /\ entry'.got = g \o c /\ entry'.committed = n
    BY <2>7
  <2>9. /\ g \o c \in Seq(Symbols) /\ Len(g \o c) = Len(g) + Len(c)
        /\ SubSeq(g \o c, n + 1, Len(g) + Len(c)) = SubSeq(g, n + 1, Len(g)) \o c
    <3>1. g \o c \in Seq(Symbols) /\ Len(g \o c) = Len(g) + Len(c)
      BY <2>5, ConcatProperties
    <3>2. \A m \in 0..Len(g) : SubSeq(g \o c, m + 1, Len(g) + Len(c)) = SubSeq(g, m + 1, Len(g)) \o c
      BY <2>5, PartsOfTwo
    <3>. QED
      BY <2>5, <3>1, <3>2
  <2>10. EntryOK'
    <3>1. Len(g) \in Nat /\ Len(c) \in Nat
      BY <2>5, LenProperties
    <3>2. n \in Nat /\ n <= Len(g \o c)
      BY <2>5, <2>9, <3>1
    <3>. QED
      BY <2>7, <2>8, <2>9, <3>2 DEF EntryOK
  <2>11. Uncommitted' = Uncommitted \o c
    BY <2>2, <2>4, <2>8, <2>9 DEF Uncommitted
  <2>12. Piece(f) = c /\ (f.kind # "end") = TRUE
    BY <1>12, <2>3 DEF Piece
  <2>13. OnScreen' = OnScreen \o c
    <3>1. PICK x, y : x = shown /\ y = Uncommitted
      OBVIOUS
    <3>2. x \in Seq(Symbols) /\ y \in Seq(Symbols) /\ c \in Seq(Symbols)
      BY <1>8, <2>5, <3>1
    <3>3. (x \o y) \o c = x \o (y \o c)
      BY <3>2, ConcatAssociative
    <3>. QED
      BY <2>1, <2>11, <3>1, <3>3 DEF OnScreen
  <2>14. OnItsWay(Symbols, Finals, wire', TRUE, live, pending, OnScreen', e)
    BY <1>5, <2>12, <2>13
  <2>15. OnItsWay(Symbols, Finals, wire, entry.open, live, pending, OnScreen, Reasoning)'
    BY <1>1, <1>7, <2>8, <2>14
  <2>16. entry'.committed = 0 => shown' = <<>>
    BY <1>10, <2>1, <2>4, <2>8
  <2>. QED
    BY <1>7, <1>8, <2>1, <2>10, <2>15, <2>16 DEF StreamInv, Underway
<1>13. CASE f.kind = "end"
  <2>1. entry' = NoEntry /\ shown' = shown \o Rest(f.text)
    BY <1>2, <1>13 DEF HandleFrame
  <2>2. wire' = <<>> /\ live = FALSE /\ Piece(f) = <<>> /\ (f.kind # "end") = FALSE
    <3>1. live \in BOOLEAN
      BY <1>4 DEF OnItsWay
    <3>. QED
      BY <1>1, <1>5, <1>13, <3>1 DEF Piece
  <2>3. finished /\ f.text \in Finals
    BY <1>6, <1>13 DEF Finals
  <2>4. pending = <<>>
    BY <2>3 DEF StreamInv, ScannerOK
  <2>5. e = OnScreen
    <3>1. OnItsWay(Symbols, Finals, <<>>, FALSE, FALSE, <<>>, OnScreen, e)
      BY <1>5, <1>9, <2>2, <2>4
    <3>. QED
      BY <1>9, <3>1, EmptyWay
  <2>6. e \in Seq(Symbols) /\ e \o <<>> = e
    BY <1>9, <2>5
  <2>7. <<>> \in Seq(Symbols) /\ Len(<<>>) = 0 /\ SubSeq(<<>>, 0 + 1, 0) = <<>>
    OBVIOUS
  <2>8. entry' = [open |-> FALSE, got |-> <<>>, committed |-> 0]
    BY <2>1 DEF NoEntry
  <2>9. entry'.open = FALSE /\ entry'.got = <<>> /\ entry'.committed = 0
    BY <2>8
  <2>10. EntryOK'
    BY <2>1, <2>7, <2>8, <2>9 DEF EntryOK, NoEntry
  <2>11. finished' /\ wire' = <<>>
    BY <1>1, <2>2, <2>3
  <2>12. CASE entry.committed > 0 \/ f.text = NoText
    <3>1. shown' = e
      BY <2>1, <2>5, <2>12 DEF Rest, OnScreen
    <3>2. OnScreen' = e
      <4>1. Uncommitted' = <<>>
        BY <2>7, <2>9 DEF Uncommitted
      <4>. QED
        BY <2>6, <3>1, <4>1 DEF OnScreen
    <3>3. OnItsWay(Symbols, Finals, <<>>, FALSE, FALSE, <<>>, e, e)
      BY <2>6, <2>7, EmptyWay
    <3>4. Underway'
      BY <1>1, <1>7, <2>2, <2>4, <2>9, <3>2, <3>3 DEF Underway
    <3>. QED
      BY <1>7, <2>6, <2>10, <2>11, <3>1, <3>4 DEF StreamInv
  <2>13. CASE ~(entry.committed > 0) /\ f.text # NoText
    <3>1. shown = <<>>
      <4>1. Len(entry.got) \in Nat
        BY <1>8, LenProperties
      <4>2. entry.committed = 0
        BY <1>8, <2>13, <4>1
      <4>. QED
        BY <1>10, <4>2
    <3>2. at = Len(text) /\ ~agent /\ f.text = FirstBlock(text)
      BY <2>3, <2>13 DEF Finals
    <3>3. f.text \in Seq(Symbols)
      <4>1. text \in Seq(Symbols)
        BY TagsAre DEF StreamInv, ScannerOK
      <4>. QED
        BY <3>2, <4>1, TagsAre, FirstBlockIs
    <3>4. <<>> \o f.text = f.text
      BY <3>3, ConcatSimplifications
    <3>5. shown' = FirstBlock(text) /\ shown' \in Seq(Symbols)
      BY <2>1, <2>13, <3>1, <3>2, <3>3, <3>4 DEF Rest
    <3>6. BlockShown'
      BY <1>1, <2>1, <2>2, <2>11, <3>2, <3>5 DEF BlockShown, NoEntry
    <3>. QED
      BY <1>7, <2>10, <2>11, <3>5, <3>6 DEF StreamInv
  <2>. QED
    BY <2>12, <2>13
<1>. QED
  BY <1>6, <1>11, <1>12, <1>13

(* The reasoning begins with nothing on its way.                           *)
LEMMA StreamStarts == ThinkInit => StreamInv
<1>. SUFFICES ASSUME ThinkInit PROVE StreamInv
  OBVIOUS
<1>1. /\ agent \in BOOLEAN /\ text \in Texts /\ at = 0 /\ buffer = <<>> /\ inside = FALSE /\ pending = <<>>
      /\ live = FALSE /\ wire = <<>> /\ shown = <<>> /\ commits = 0 /\ finished = FALSE
      /\ entry = NoEntry
  BY DEF ThinkInit
<1>2. <<>> \in Seq(Symbols) /\ Len(<<>>) = 0 /\ SubSeq(<<>>, 0 + 1, 0) = <<>> /\ <<>> \o <<>> = <<>>
  OBVIOUS
<1>3. Arrived = <<>>
  <2>1. SubSeq(text, 1, 0) = <<>>
    <3>1. text \in Seq(Symbols)
      BY <1>1, TagsAre
    <3>. QED
      BY <3>1
  <2>. QED
    BY <1>1, <2>1 DEF Arrived
<1>4. PICK s : s = Scanned(<<>>)
  OBVIOUS
<1>5. s.inside = FALSE /\ Back(s) = <<>> /\ Given(s) = <<>>
  BY <1>4, TagsAre, NothingScanned
<1>6. entry = [open |-> FALSE, got |-> <<>>, committed |-> 0]
  BY <1>1 DEF NoEntry
<1>7. entry.open = FALSE /\ entry.got = <<>> /\ entry.committed = 0
  BY <1>6
<1>8. EntryOK
  BY <1>1, <1>2, <1>6, <1>7 DEF EntryOK
<1>9. ScannerOK
  <2>1. 0 \in 0..Len(text) /\ 0 \in 0..MaxCommits
    <3>1. Len(text) \in Nat
      BY <1>1, TagsAre, LenProperties
    <3>. QED
      BY <3>1, ThinkAssumption
  <2>. QED
    BY <1>1, <1>3, <1>4, <1>5, <2>1 DEF ScannerOK
<1>10. OnScreen = <<>> /\ Reasoning = <<>>
  BY <1>1, <1>2, <1>3, <1>4, <1>5, <1>7 DEF OnScreen, Uncommitted, Reasoning
<1>11. OnItsWay(Symbols, Finals, <<>>, FALSE, FALSE, <<>>, <<>>, <<>>)
  BY <1>2, EmptyWay
<1>. QED
  BY <1>1, <1>2, <1>7, <1>8, <1>9, <1>10, <1>11 DEF StreamInv, Underway

(* Every step keeps it.                                                    *)
LEMMA StreamStep == StreamInv /\ [ThinkNext]_thinkVars => StreamInv'
<1>. SUFFICES ASSUME StreamInv, [ThinkNext]_thinkVars PROVE StreamInv'
  OBVIOUS
<1>1. CASE \E n \in 1..MaxChunk : ChunkArrives(n)
  BY <1>1, ChunkKeepsStream
<1>2. CASE ResponseEnds
  BY <1>2, EndKeepsStream
<1>3. CASE HandleFrame
  BY <1>3, FrameKeepsStream
<1>4. CASE CommitLiveThinks
  BY <1>4, CommitKeepsStream
<1>5. CASE UNCHANGED thinkVars
  <2>1. UNCHANGED <<agent, text, at, buffer, inside, pending, live, wire, entry, shown, commits, finished>>
    BY <1>5 DEF thinkVars
  <2>2. Arrived' = Arrived /\ Finals' = Finals /\ OnScreen' = OnScreen /\ EntryOK' /\ shown' = shown
    BY <2>1 DEF Arrived, Finals, OnScreen, Uncommitted, StreamInv, EntryOK
  <2>3. Reasoning' = Reasoning
    BY <2>1, <2>2 DEF Reasoning
  <2>4. ScannerOK'
    BY <2>1, <2>2 DEF StreamInv, ScannerOK
  <2>5. BlockShown' \/ Underway'
    <3>1. CASE BlockShown
      BY <2>1, <3>1 DEF BlockShown
    <3>2. CASE Underway
      BY <2>1, <2>2, <2>3, <3>2 DEF Underway
    <3>. QED
      BY <3>1, <3>2 DEF StreamInv
  <2>6. entry'.committed = 0 => shown' = <<>> \/ (finished' /\ wire' = <<>>)
    BY <2>1 DEF StreamInv
  <2>. QED
    BY <2>2, <2>4, <2>5, <2>6 DEF StreamInv
<1>. QED
  BY <1>1, <1>2, <1>3, <1>4, <1>5 DEF ThinkNext

(* With nothing of the reasoning lost or doubled on its way, what is shown *)
(* is what lies between the tags.                                          *)
LEMMA UnderwayHolds ==
  ASSUME StreamInv, Underway
  PROVE  ReasoningInv
<1>1. /\ EntryOK /\ ScannerOK /\ shown \in Seq(Symbols)
      /\ OnItsWay(Symbols, Finals, wire, entry.open, live, pending, OnScreen, Reasoning)
  BY DEF StreamInv, Underway
<1>2. wire \in Seq(FramesOf(Symbols, Finals)) /\ Framed(wire, entry.open, live)
      /\ OnScreen \in Seq(Symbols) /\ live \in BOOLEAN
  BY <1>1 DEF OnItsWay
<1>3. entry.committed \in 0..Len(entry.got) /\ Uncommitted \in Seq(Symbols)
      /\ (~entry.open => Uncommitted = <<>>)
  BY <1>1, UncommittedIs
<1>4. ThinkTypeOK
  <2>1. \A i \in 1..Len(wire) : wire[i].kind \in {"start", "delta", "end"}
    <3>1. \A i \in 1..Len(wire) : wire[i] \in FramesOf(Symbols, Finals)
      BY <1>2, ElementOfSeq
    <3>. QED
      BY <3>1, FramesAre
  <2>2. entry.open \in BOOLEAN
    BY <1>1 DEF EntryOK
  <2>. QED
    BY <1>1, <1>2, <1>3, <2>1, <2>2 DEF ThinkTypeOK, ScannerOK
<1>5. FramesWellFormed
  BY <1>2 DEF FramesWellFormed, Framed
<1>6. ReasoningShownOnce
  <2>1. SUFFICES ASSUME finished, wire = <<>> PROVE shown = Between(Arrived)
    BY DEF ReasoningShownOnce, Arrived
  <2>2. OnItsWay(Symbols, Finals, <<>>, entry.open, live, pending, OnScreen, Between(Arrived))
    BY <1>1, <2>1 DEF Reasoning
  <2>3. entry.open = live /\ Between(Arrived) = OnScreen \o pending
    BY <2>2, EmptyWay
  <2>4. pending = <<>> /\ ~live
    BY <1>1, <2>1 DEF ScannerOK
  <2>5. Uncommitted = <<>>
    BY <1>3, <2>3, <2>4
  <2>6. shown \o <<>> = shown
    BY <1>1, ConcatSimplifications
  <2>. QED
    BY <2>3, <2>4, <2>5, <2>6 DEF OnScreen
<1>7. NoTagShown
  <2>1. PICK left : Lefts(Symbols, wire, pending, left) /\ OnScreen \o left[0] = Reasoning
    BY <1>1 DEF OnItsWay
  <2>2. PICK x, y : x = OnScreen /\ y = left[0]
    OBVIOUS
  <2>3. x \in Seq(Symbols) /\ y \in Seq(Symbols) /\ x \o y = Reasoning
    <3>1. 0 \in 0..Len(wire)
      BY <1>2, LenProperties
    <3>. QED
      BY <1>2, <2>1, <2>2, <3>1 DEF Lefts
  <2>4. Arrived \in Seq(Symbols)
    <3>1. text \in Seq(Symbols) /\ at \in 0..Len(text)
      BY <1>1, TagsAre DEF ScannerOK
    <3>2. SubSeq(text, 1, at) \in Seq(Symbols)
      BY <3>1, PartsJoin
    <3>. QED
      BY <3>2 DEF Arrived
  <2>5. PICK s : s = Scanned(Arrived)
    OBVIOUS
  <2>6. PICK z : z = IF finished THEN <<>> ELSE IF s.inside THEN Back(s) ELSE <<>>
    OBVIOUS
  <2>7. /\ Between(Arrived) = Given(s) \o (IF s.inside THEN Back(s) ELSE <<>>)
        /\ Given(s) \in Seq(Symbols) /\ Back(s) \in Seq(Symbols)
    BY <2>4, <2>5, TagsAre, BetweenIs
  <2>8. z \in Seq(Symbols)
    <3>1. <<>> \in Seq(Symbols)
      OBVIOUS
    <3>. QED
      BY <2>6, <2>7, <3>1
  <2>9. Between(Arrived) = Reasoning \o z
    <3>1. CASE finished
      <4>1. Reasoning = Between(Arrived) /\ z = <<>>
        BY <2>6, <3>1 DEF Reasoning
      <4>2. x \o y \in Seq(Symbols)
        BY <2>3, ConcatProperties
      <4>3. Reasoning \o <<>> = Reasoning
        BY <2>3, <4>2, ConcatSimplifications
      <4>. QED
        BY <4>1, <4>3
    <3>2. CASE ~finished
      BY <2>5, <2>6, <2>7, <3>2 DEF Reasoning
    <3>. QED
      BY <3>1, <3>2
  <2>10. (x \o y) \o z = x \o (y \o z) /\ y \o z \in Seq(Symbols)
    <3>1. x \in Seq(Symbols) /\ y \in Seq(Symbols) /\ z \in Seq(Symbols)
      BY <2>3, <2>8
    <3>2. (x \o y) \o z = x \o (y \o z)
      BY <3>1, ConcatAssociative
    <3>3. y \o z \in Seq(Symbols)
      BY <3>1, ConcatProperties
    <3>. QED
      BY <3>2, <3>3
  <2>11. IsPrefix(x, x \o (y \o z))
    BY <2>3, <2>10, PrefixOfJoined
  <2>. QED
    BY <2>2, <2>3, <2>9, <2>10, <2>11 DEF NoTagShown, OnScreen, Arrived
<1>. QED
  BY <1>4, <1>5, <1>6, <1>7 DEF ReasoningInv

(* And if the first block is, it is where that begins.                     *)
LEMMA StreamHolds == StreamInv => ReasoningInv
<1>. SUFFICES ASSUME StreamInv PROVE ReasoningInv
  OBVIOUS
<1>1. CASE Underway
  BY <1>1, UnderwayHolds
<1>2. CASE BlockShown
  <2>1. /\ finished /\ wire = <<>> /\ live = FALSE /\ entry = NoEntry /\ ~agent /\ at = Len(text)
        /\ shown = FirstBlock(text)
    BY <1>2 DEF BlockShown
  <2>2. entry.open = FALSE /\ entry.got = <<>> /\ entry.committed = 0
    BY <2>1 DEF NoEntry
  <2>3. <<>> \in Seq(Symbols) /\ Len(<<>>) = 0 /\ SubSeq(<<>>, 0 + 1, 0) = <<>> /\ 1..Len(<<>>) = {}
    OBVIOUS
  <2>4. ThinkTypeOK
    <3>1. /\ text \in Texts /\ at \in 0..Len(text) /\ commits \in 0..MaxCommits
          /\ agent \in BOOLEAN /\ inside \in BOOLEAN /\ finished \in BOOLEAN
      BY DEF StreamInv, ScannerOK
    <3>2. live \in BOOLEAN /\ entry.open \in BOOLEAN
      BY <2>1, <2>2
    <3>3. entry.committed \in 0..Len(entry.got)
      <4>1. 0 \in 0..0
        OBVIOUS
      <4>. QED
        BY <2>2, <2>3, <4>1
    <3>4. \A i \in 1..Len(wire) : wire[i].kind \in {"start", "delta", "end"}
      BY <2>1, <2>3
    <3>. QED
      BY <3>1, <3>2, <3>3, <3>4 DEF ThinkTypeOK
  <2>5. FramesWellFormed
    BY <2>1, <2>3 DEF FramesWellFormed
  <2>6. ReasoningShownOnce
    BY <2>1 DEF ReasoningShownOnce
  <2>7. text \in Seq(Symbols) /\ SubSeq(text, 1, at) = text
    <3>1. text \in Seq(Symbols)
      BY TagsAre DEF StreamInv, ScannerOK
    <3>. QED
      BY <2>1, <3>1, SubSeqFull
  <2>8. PICK x : x = FirstBlock(text)
    OBVIOUS
  <2>9. PICK y : y \in Seq(Symbols) /\ Between(text) = x \o y
    BY <2>7, <2>8, TagsAre, FirstBlockIs
  <2>10. x \in Seq(Symbols)
    BY <2>7, <2>8, TagsAre, FirstBlockIs
  <2>11. shown \o Uncommitted = x
    <3>1. Uncommitted = <<>>
      BY <2>2, <2>3 DEF Uncommitted
    <3>2. x \o <<>> = x
      BY <2>10, ConcatSimplifications
    <3>. QED
      BY <2>1, <2>8, <3>1, <3>2
  <2>12. IsPrefix(x, x \o y)
    BY <2>9, <2>10, PrefixOfJoined
  <2>13. NoTagShown
    BY <2>7, <2>9, <2>11, <2>12 DEF NoTagShown
  <2>. QED
    BY <2>4, <2>5, <2>6, <2>13 DEF ReasoningInv
<1>. QED
  BY <1>1, <1>2 DEF StreamInv

(* However a response was cut into chunks, and whenever a part of it was   *)
(* committed early, the scrollback ends with exactly the text between the  *)
(* tags, or with the first block that ended a subagent's stream, and shows *)
(* only a beginning of that text until then.                               *)
THEOREM ReasoningIsSafe == MCSpec => []ReasoningInv
<1>1. MCInit => ThinkInit
  BY DEF MCInit
<1>2. MCNext => [ThinkNext]_thinkVars
  BY DEF MCNext, OthersKeep
<1>3. MCInit => StreamInv
  BY <1>1, StreamStarts
<1>4. /\ StreamInv
      /\ [MCNext]_<<part, connVars, opVars, uiVars, thinkVars, mcpVars, mcpConnVars, settingsVars,
                    identityVars, commandVars>>
      => StreamInv'
  BY <1>2, StreamStep
<1>. QED
  BY <1>3, <1>4, StreamHolds, PTL DEF MCSpec

-----------------------------------------------------------------------------
(* All connections of the client, each component beside the others.        *)
ComponentsInv == LinkInv /\ SyncInv /\ TransportInv /\ FileInv /\ CertificatesInv

(* A step of the client is one of a component, and none to the others.     *)
LEMMA OneComponentSteps ==
  MCNext => /\ [ConnNext]_connVars /\ [OpNext]_opVars /\ [McpNext]_mcpVars
            /\ [McpConnNext]_mcpConnVars /\ [SettingsNext]_settingsVars
            /\ [IdentityNext]_identityVars
BY DEF MCNext, OthersKeep

(* The invariants of the components hold side by side.                     *)
LEMMA ComponentsKeep == MCSpec => []ComponentsInv
<1>1. MCInit => ComponentsInv
  <2>1. MCInit => ConnInit /\ McpInit /\ McpConnInit /\ SettingsInit /\ IdentityInit
    BY DEF MCInit
  <2>. QED
    BY <2>1, LinkInit, McpStart, TransportInit, SettingsStart, CertificatesInit DEF ComponentsInv
<1>2. /\ ComponentsInv
      /\ [MCNext]_<<part, connVars, opVars, uiVars, thinkVars, mcpVars, mcpConnVars, settingsVars,
                    identityVars, commandVars>>
      => ComponentsInv'
  BY OneComponentSteps, LinkStep, SyncsStep, TransportStep, FileStep, CertificatesStep
  DEF ComponentsInv
<1>. QED
  BY <1>1, <1>2, PTL DEF MCSpec

(* Every connection of the client is safe, whichever component acts.       *)
THEOREM ConnectionsAreSafe == MCSpec => []ConnectionsInv
<1>1. ComponentsInv => ConnectionsInv
  <2>1. LinkInv => ConnectionInv
    BY DEF LinkInv
  <2>. QED
    BY <2>1, SyncsHold, TransportHolds, SettingsHold, CertificatesHold
    DEF ComponentsInv, ConnectionsInv
<1>. QED
  BY <1>1, ComponentsKeep, PTL

(* No step of the client gives up an open socket, leaves a question to be  *)
(* answered when the connection is gone, or exchanges a pin for another.   *)
THEOREM StepsAreAllowed == MCSpec => ClientSteps
<1>1. /\ ComponentsInv
      /\ [MCNext]_<<part, connVars, opVars, uiVars, thinkVars, mcpVars, mcpConnVars, settingsVars,
                    identityVars, commandVars>>
      => /\ [rsocket # 0 /\ rsocket' = 0 => rsocket \notin up']_connVars
         /\ [online /\ ~online' => \A r \in Ops : phase'[r] \notin {"asking", "feedback"}]_opVars
         /\ [\A a \in Addresses : pins[a] # 0 /\ pins'[a] # pins[a] => pins'[a] = 0]_pins
  BY OneComponentSteps, GivenUpStep, QuestionsStep, PinsKept DEF ComponentsInv, CertificatesInv
<1>. QED
  BY <1>1, ComponentsKeep, PTL
  DEF MCSpec, ClientSteps, GivenUpOnlyClosed, DismissedWithSession, PinsAreKept
=============================================================================
