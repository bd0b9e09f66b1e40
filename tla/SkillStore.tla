------------------------------ MODULE SkillStore -------------------------------
(***************************************************************************)
(* The skills of the server: a directory of files and a resident index of  *)
(* them, a LazyValue that is built on first use and dropped by every       *)
(* change.  saveAll replaces the whole directory in concurrent writes and  *)
(* removals and takes no lock; it fails with the first of them, while the  *)
(* others go on.                                                           *)
(***************************************************************************)
EXTENDS Naturals, FiniteSets

CONSTANTS
  Users,        \* callers, one call each
  SkillNames,
  SkillCalls    \* [kind : {"save", "delete", "select"}, names : SUBSET SkillNames]

Absent == "absent"
Untouched == "untouched"   \* the version a skill has at the start
ASSUME SkillAssumption ==
  /\ \A r \in SkillCalls : r.kind \in {"save", "delete", "select"} /\ r.names \subseteq SkillNames
  /\ Users \cap {Absent, Untouched} = {}

VARIABLES
  files,       \* [SkillNames -> the writer of the file there]
  cached,      \* LazyValue.cached: [some, skills]
  building,    \* LazyValue.inFlight is set; the load of this generation
  generation,  \* LazyValue.generation
  builds,      \* loads in flight: [gen, listed, todo, skills]
  stage,       \* where the call of a user is
  calls,       \* [Users -> SkillCalls]
  pending,     \* the names a save has still to write, also after it failed
  removing,    \* the names it has still to remove
  awaits,      \* the generation whose load a select waits for
  alone,       \* ghost: no other change ran since the save began
  strays       \* ghost: a write came after the last invalidation its call made

skillVars == <<files, cached, building, generation, builds, stage, calls, pending, removing,
               awaits, alone, strays>>

Existing == {n \in SkillNames : files[n] # Absent}
NotCached == [some |-> FALSE, skills |-> [n \in {} |-> Absent]]

SkillInit ==
  /\ files \in [SkillNames -> {Absent, Untouched}]
  /\ cached = NotCached /\ building = FALSE /\ generation = 0 /\ builds = {}
  /\ stage = [u \in Users |-> "idle"] /\ calls \in [Users -> SkillCalls]
  /\ pending = [u \in Users |-> {}] /\ removing = [u \in Users |-> {}]
  /\ awaits = [u \in Users |-> 0]
  /\ alone = [u \in Users |-> FALSE] /\ strays = FALSE

-----------------------------------------------------------------------------
Stage(u, next) == stage' = [stage EXCEPT ![u] = next]

(* invalidate() of the LazyValue.  Mutant: the load in flight may still    *)
(* fill the cache.                                                         *)
ForgetsGeneration ==
  /\ cached' = NotCached /\ building' = FALSE /\ generation' = generation

Invalidate ==
  /\ cached' = NotCached /\ building' = FALSE /\ generation' = generation + 1

SameIndex == UNCHANGED <<cached, building, generation>>

(* No change of this caller is in progress, and none of its writes and     *)
(* removals has outlived a call that failed.                               *)
AtRest(u) ==
  /\ stage[u] \notin {"writes", "removes", "unlinked"}
  /\ pending[u] = {} /\ removing[u] = {}
(* A change begins: those in progress are no longer alone.                 *)
Begins(u) == alone' = [v \in Users |-> v = u /\ \A w \in Users : AtRest(w)]

SaveComes(u) ==
  /\ stage[u] = "idle" /\ calls[u].kind = "save"
  /\ Stage(u, "writes") /\ pending' = [pending EXCEPT ![u] = calls[u].names]
  /\ Begins(u)
  /\ SameIndex /\ UNCHANGED <<files, builds, calls, removing, awaits, strays>>

(* The call fails: the finally drops the index, what is pending stays so.  *)
Fails(u) == Stage(u, "over") /\ Invalidate /\ strays' = FALSE

(* One of the concurrent writes: a temporary file and its rename, or an    *)
(* error.  Those of a call that failed meanwhile go on.                    *)
Write(u, n) ==
  /\ n \in pending[u] /\ pending' = [pending EXCEPT ![u] = @ \ {n}]
  /\ \/ /\ files' = [files EXCEPT ![n] = u]
        /\ strays' = (strays \/ stage[u] = "over")
        /\ UNCHANGED stage /\ SameIndex
     \/ /\ stage[u] = "writes" /\ Fails(u) /\ UNCHANGED files
     \/ /\ stage[u] = "over" /\ UNCHANGED <<files, stage, strays>> /\ SameIndex
  /\ UNCHANGED <<builds, calls, removing, awaits, alone>>

(* readdir: every file that is not among the new ones is to go.  Mutant:   *)
(* those this call wrote stay, and so do those that were there.            *)
OnlyWritten(u) == {n \in Existing : files[n] = u} \ calls[u].names

Outdated(u) == Existing \ calls[u].names

SaveLists(u) ==
  /\ stage[u] = "writes" /\ pending[u] = {}
  /\ Stage(u, "removes") /\ removing' = [removing EXCEPT ![u] = Outdated(u)]
  /\ SameIndex /\ UNCHANGED <<files, builds, calls, pending, awaits, alone, strays>>

(* One of the concurrent unlinks; a file that is gone already is an error. *)
Unlink(u, n) ==
  /\ n \in removing[u] /\ removing' = [removing EXCEPT ![u] = @ \ {n}]
  /\ \/ /\ files[n] # Absent /\ files' = [files EXCEPT ![n] = Absent]
        /\ strays' = (strays \/ stage[u] = "over")
        /\ UNCHANGED stage /\ SameIndex
     \/ /\ stage[u] = "removes" /\ Fails(u) /\ UNCHANGED files
     \/ /\ stage[u] = "over" /\ UNCHANGED <<files, stage, strays>> /\ SameIndex
  /\ UNCHANGED <<builds, calls, pending, awaits, alone>>

SaveEnds(u) ==
  /\ stage[u] = "removes" /\ removing[u] = {}
  /\ Stage(u, "over") /\ Invalidate /\ strays' = FALSE
  /\ UNCHANGED <<files, builds, calls, pending, removing, awaits, alone>>

(* delete(): a skill that is not there is no error, but if the sidecar     *)
(* cannot be removed the call ends without dropping the index.             *)
DeleteComes(u) ==
  /\ stage[u] = "idle" /\ calls[u].kind = "delete" /\ Begins(u)
  /\ \E n \in calls[u].names :
       IF files[n] = Absent THEN Stage(u, "over") /\ UNCHANGED files
       ELSE Stage(u, "unlinked") /\ files' = [files EXCEPT ![n] = Absent]
  /\ SameIndex /\ UNCHANGED <<builds, calls, pending, removing, awaits, strays>>
DeleteEnds(u) ==
  /\ stage[u] = "unlinked" /\ Stage(u, "over")
  /\ \/ Invalidate /\ strays' = FALSE
     \/ SameIndex /\ strays' = TRUE
  /\ UNCHANGED <<files, builds, calls, pending, removing, awaits, alone>>

-----------------------------------------------------------------------------
(* selectForTask: get() answers from the cache, joins the load in flight   *)
(* or begins one.                                                          *)
SelectComes(u) ==
  /\ stage[u] = "idle" /\ calls[u].kind = "select"
  /\ \/ cached.some /\ Stage(u, "picks") /\ UNCHANGED <<building, builds, awaits>>
     \/ /\ ~cached.some
        /\ Stage(u, "awaits") /\ awaits' = [awaits EXCEPT ![u] = generation]
        /\ building' = TRUE
        /\ builds' = IF building THEN builds
                     ELSE builds \cup {[gen |-> generation, listed |-> FALSE, todo |-> {},
                                        skills |-> [n \in {} |-> Absent]]}
  /\ UNCHANGED <<files, cached, generation, calls, pending, removing, alone, strays>>

(* loadSkillsFromDir: readdir, then every file; one that is gone is left   *)
(* out.                                                                    *)
BuildLists(b) ==
  /\ b \in builds /\ ~b.listed
  /\ builds' = (builds \ {b}) \cup {[b EXCEPT !.listed = TRUE, !.todo = Existing]}
  /\ SameIndex
  /\ UNCHANGED <<files, stage, calls, pending, removing, awaits, alone, strays>>
BuildReads(b, n) ==
  /\ b \in builds /\ n \in b.todo
  /\ builds' = (builds \ {b}) \cup
       {[b EXCEPT !.todo = @ \ {n},
                  !.skills = IF files[n] = Absent THEN @
                             ELSE [m \in DOMAIN @ \cup {n} |-> IF m = n THEN files[n] ELSE @[m]]]}
  /\ SameIndex
  /\ UNCHANGED <<files, stage, calls, pending, removing, awaits, alone, strays>>

Waiting(b) == {u \in Users : stage[u] = "awaits" /\ awaits[u] = b.gen}
(* It settles: cached only if nothing was invalidated since it began; who  *)
(* waits is answered in any case.                                          *)
BuildSettles(b) ==
  /\ b \in builds /\ b.listed /\ b.todo = {}
  /\ builds' = builds \ {b}
  /\ cached' = IF b.gen = generation THEN [some |-> TRUE, skills |-> b.skills] ELSE cached
  /\ building' = (building /\ b.gen # generation)
  /\ stage' = [u \in Users |-> IF u \in Waiting(b) THEN "picks" ELSE stage[u]]
  /\ UNCHANGED <<generation, files, calls, pending, removing, awaits, alone, strays>>

(* A file or the directory cannot be read: who waits fails.  Mutant of     *)
(* AfterFailure: the failed load stays in flight.                          *)
StaysInFlight(b) == building

AfterFailure(b) == building /\ b.gen # generation

BuildFails(b) ==
  /\ b \in builds
  /\ builds' = builds \ {b}
  /\ building' = AfterFailure(b)
  /\ stage' = [u \in Users |-> IF u \in Waiting(b) THEN "over" ELSE stage[u]]
  /\ UNCHANGED <<cached, generation, files, calls, pending, removing, awaits, alone, strays>>

(* The winners are read from their files; one that is gone yields nothing. *)
Pick(u) ==
  /\ stage[u] = "picks" /\ Stage(u, "over")
  /\ SameIndex
  /\ UNCHANGED <<files, builds, calls, pending, removing, awaits, alone, strays>>

UserStep(u) ==
  \/ SaveComes(u) \/ SaveLists(u) \/ SaveEnds(u) \/ DeleteComes(u) \/ DeleteEnds(u)
  \/ SelectComes(u) \/ Pick(u)
  \/ \E n \in SkillNames : Write(u, n) \/ Unlink(u, n)
BuildStep ==
  \E b \in builds : \/ BuildLists(b) \/ BuildSettles(b) \/ BuildFails(b)
                    \/ \E n \in SkillNames : BuildReads(b, n)
SkillNext == BuildStep \/ \E u \in Users : UserStep(u)

(* Reads and writes of files end, one way or the other.                    *)
SkillFairness ==
  WF_skillVars(BuildStep) /\ \A u \in Users : WF_skillVars(stage[u] # "idle" /\ UserStep(u))
SkillSpec == SkillInit /\ [][SkillNext]_skillVars /\ SkillFairness

-----------------------------------------------------------------------------
(* The types of the variables of the skills.                               *)
SkillTypeOK ==
  /\ files \in [SkillNames -> Users \cup {Absent, Untouched}]
  /\ {cached.some, building, strays} \subseteq BOOLEAN /\ generation \in Nat
  /\ DOMAIN cached.skills \subseteq SkillNames
  /\ stage \in [Users -> {"idle", "writes", "removes", "unlinked", "awaits", "picks", "over"}]
  /\ pending \in [Users -> SUBSET SkillNames] /\ removing \in [Users -> SUBSET SkillNames]

(* While nothing changes, the index that is kept is that of the files: no  *)
(* build that began before a change fills the cache after it               *)
(* (lazyValue.ts:96).  It fails only after a write that outlived its       *)
(* failed call (skillManager.ts:208) or a sidecar that could not be        *)
(* removed (skillManager.ts:342), until the next change.                   *)
IndexIsFresh ==
  cached.some /\ ~strays /\ (\A u \in Users : AtRest(u)) =>
    cached.skills = [n \in Existing |-> files[n]]

(* A save that met no other change has left its own skills and no others   *)
(* (skillManager.ts:193).                                                  *)
SaveIsExact ==
  \A u \in Users : stage[u] = "removes" /\ removing[u] = {} /\ alone[u] =>
    files = [n \in SkillNames |-> IF n \in calls[u].names THEN u ELSE Absent]

(* Whoever waits for an index waits for a load that is in flight, also     *)
(* when a change has dropped it (lazyValue.ts:116).                        *)
AwaitedIsInFlight ==
  /\ \A u \in Users : stage[u] = "awaits" => \E b \in builds : b.gen = awaits[u]
  /\ building => \E b \in builds : b.gen = generation
  /\ \A b, d \in builds : b.gen = d.gen => b = d

(* What holds of the skills at every moment.                               *)
SkillInv == SkillTypeOK /\ IndexIsFresh /\ SaveIsExact /\ AwaitedIsInFlight

(* Every call that came ends.                                              *)
SkillCallsOver == \A u \in Users : stage[u] \in {"idle", "over"}
SkillCallsEnd == <>[]SkillCallsOver
=============================================================================
