-------------------------- MODULE ServerPartsProofs --------------------------
(***************************************************************************)
(* What is proved of the parts of the server that WorkInv and ConfigInv    *)
(* speak of: the configuration, a subagent's run, the report of a model    *)
(* that does not fit its card, the server's process, the models installed, *)
(* the calls of a task to its models, the memory header of a task, and     *)
(* what the user sees of a task.                                           *)
(* They share no variable; each is proved from its own specification by an *)
(* inductive invariant of its own.                                         *)
(***************************************************************************)
EXTENDS ConfigStore, SubagentRun, PlacementReport, ServerProcess, ModelLibrary, ModelCalls,
        ContextBuilder, TaskStream, WellFoundedInduction, TLAPS

-----------------------------------------------------------------------------
(* Induction, which the proofs below need for sums, texts and reads.       *)
(* A set of numbers that is not empty has a least one.                     *)
LEMMA LeastNumber ==
  ASSUME NEW S, S \subseteq Nat, S # {}
  PROVE  \E x \in S : \A y \in S : x <= y
<1>1. IsWellFoundedOn(OpToRel(<,Nat), Nat)
  BY NatLessThanWellFounded
<1>2. PICK x \in S : \A y \in S : ~ (<<y, x>> \in OpToRel(<,Nat))
  BY <1>1, WFMin
<1>3. \A y \in S : ~(y < x)
  BY <1>2 DEF OpToRel
<1>. QED
  BY <1>3

(* Induction over natural numbers, for sets of them: what is not in the    *)
(* set would have a least one.                                             *)
LEMMA NatInd ==
  ASSUME NEW S, 0 \in S, \A n \in Nat : n \in S => n + 1 \in S
  PROVE  Nat \subseteq S
<1>. SUFFICES ASSUME Nat \ S # {} PROVE FALSE
  OBVIOUS
<1>1. PICK x \in Nat \ S : \A y \in Nat \ S : x <= y
  <2>1. Nat \ S \subseteq Nat
    OBVIOUS
  <2>. QED
    BY <2>1, LeastNumber
<1>2. x # 0 /\ x - 1 \in Nat /\ ~(x <= x - 1)
  OBVIOUS
<1>. QED
  BY <1>1, <1>2

-----------------------------------------------------------------------------
(* The configuration store: for any number of callers and any requests,    *)
(* whatever fails, what ConfigInv says holds at every moment. ConfigInv is *)
(* not inductive: that no update is lost needs that whoever is about to    *)
(* save has read the file that is there now, that a used provider stays    *)
(* configured needs that it was not refused for that file, and both need   *)
(* that a handler that has begun has a step to do.                         *)

SnapshotIsFresh == \A c \in Callers : pc[c] = "saves" => snapshot[c] = file
SaverIsAllowed == \A c \in Callers : pc[c] = "saves" => ~Refused(c, file)
Quiet == {"idle", "over"}
StepsLeft == \A c \in Callers : pc[c] \notin Quiet => todo[c] # <<>>
ConfigIInv == ConfigInv /\ SnapshotIsFresh /\ SaverIsAllowed /\ StepsLeft

(* The mutex and the places of its callers.                                *)
MutexOK ==
  /\ lock \in [locked : BOOLEAN, queue : Seq(Callers)] /\ pc \in [Callers -> Places]
  /\ OneCallerInside /\ WaitersAreQueued

-----------------------------------------------------------------------------
(* acquire(): a caller that is outside enters, at once or by waiting.      *)
LEMMA EnterKeepsMutex ==
  ASSUME MutexOK, NEW c \in Callers, pc[c] \in Places \ {"waits", "holds", "saves"}, Enter(c)
  PROVE  MutexOK'
<1> USE DEF MutexOK, OneCallerInside, WaitersAreQueued, Inside, Places
<1>1. CASE lock.locked
  <2>1. lock' = [lock EXCEPT !.queue = Append(@, c)] /\ pc' = [pc EXCEPT ![c] = "waits"]
    BY <1>1 DEF Enter, AfterAcquire
  <2>2. lock'.queue = Append(lock.queue, c) /\ lock'.locked = lock.locked
    BY <2>1
  <2>3. /\ Len(lock'.queue) = Len(lock.queue) + 1 /\ lock'.queue[Len(lock.queue) + 1] = c
        /\ \A i \in 1..Len(lock.queue) : lock'.queue[i] = lock.queue[i] /\ lock.queue[i] \in Callers
        /\ Len(lock.queue) \in Nat
    BY <2>2
  <2>4. Inside' = Inside
    BY <2>1
  <2>5. OneCallerInside'
    BY <2>2, <2>4
  <2>6. \A i \in 1..Len(lock.queue) : lock.queue[i] # c
    OBVIOUS
  <2>7. ASSUME NEW d \in Callers
        PROVE  pc'[d] = "waits" <=> \E i \in 1..Len(lock'.queue) : lock'.queue[i] = d
    <3>1. CASE d = c
      BY <3>1, <2>1, <2>3
    <3>2. CASE d # c
      BY <3>2, <2>1, <2>3
    <3> QED BY <3>1, <3>2
  <2>8. \A i, j \in 1..Len(lock'.queue) : lock'.queue[i] = lock'.queue[j] => i = j
    BY <2>3, <2>6
  <2>9. lock' \in [locked : BOOLEAN, queue : Seq(Callers)] /\ pc' \in [Callers -> Places]
    <3>1. Append(lock.queue, c) \in Seq(Callers)
      OBVIOUS
    <3>2. lock' = [lock EXCEPT !.queue = Append(lock.queue, c)]
      BY <2>1
    <3>3. lock' \in [locked : BOOLEAN, queue : Seq(Callers)]
      BY <3>1, <3>2
    <3>4. pc' \in [Callers -> Places]
      BY <2>1
    <3> QED BY <3>3, <3>4
  <2>10. WaitersAreQueued'
    BY <1>1, <2>2, <2>7, <2>8
  <2> QED BY <2>5, <2>9, <2>10
<1>2. CASE ~lock.locked
  <2>1. lock' = [lock EXCEPT !.locked = TRUE] /\ pc' = [pc EXCEPT ![c] = "holds"]
    BY <1>2 DEF Enter, AfterAcquire
  <2>2. Inside = {}
    BY <1>2
  <2>3. Inside' = {c}
    BY <2>1, <2>2
  <2>4. lock' \in [locked : BOOLEAN, queue : Seq(Callers)] /\ pc' \in [Callers -> Places]
    BY <2>1
  <2>5. lock.queue = <<>> /\ lock'.queue = <<>> /\ lock'.locked
    BY <1>2, <2>1
  <2>6. \A d \in Callers : pc'[d] # "waits"
    BY <2>1, <2>5
  <2>7. WaitersAreQueued'
    BY <2>5, <2>6
  <2>8. OneCallerInside'
    BY <2>3, <2>5
  <2> QED BY <2>4, <2>7, <2>8
<1> QED BY <1>1, <1>2

(* release(): the first who waits is let in, and nobody is saving then.    *)
LEMMA LeaveKeepsMutex ==
  ASSUME MutexOK, NEW c \in Callers, pc[c] \in {"holds", "saves"},
         NEW next \in Places \ {"waits", "holds", "saves"}, Leave(c, next)
  PROVE  /\ MutexOK' /\ pc'[c] = next
         /\ \A d \in Callers : pc'[d] # "saves" /\ (d # c /\ pc[d] \in Quiet => pc'[d] \in Quiet)
<1> USE DEF Quiet, MutexOK, OneCallerInside, WaitersAreQueued, Inside, Places
<1>1. lock.locked /\ \A d \in Callers \ {c} : pc[d] \notin {"holds", "saves"}
  OBVIOUS
<1>2. CASE lock.queue = <<>>
  <2>1. lock' = [lock EXCEPT !.locked = FALSE] /\ HandedTo(lock) = {}
    BY <1>2 DEF Leave, AfterRelease, HandedTo
  <2>2. pc' = [d \in Callers |-> IF d = c THEN next ELSE pc[d]]
    BY <2>1 DEF Leave
  <2>3. Inside' = {}
    BY <1>1, <2>2
  <2>4. lock' \in [locked : BOOLEAN, queue : Seq(Callers)] /\ pc' \in [Callers -> Places]
    BY <2>1, <2>2
  <2>5. lock'.queue = <<>> /\ lock'.locked = FALSE
    BY <1>2, <2>1
  <2>6. \A d \in Callers : pc'[d] # "waits"
    BY <1>2, <2>2
  <2>7. WaitersAreQueued'
    BY <2>5, <2>6
  <2>8. OneCallerInside'
    BY <2>3, <2>5
  <2> QED BY <1>1, <2>2, <2>4, <2>7, <2>8
<1>3. CASE lock.queue # <<>>
  <2> DEFINE first == Head(lock.queue)
  <2>1. lock' = [lock EXCEPT !.queue = Tail(@)] /\ HandedTo(lock) = {first}
    BY <1>3 DEF Leave, AfterRelease, HandedTo
  <2>2. pc' = [d \in Callers |-> IF d = c THEN next ELSE IF d = first THEN "holds" ELSE pc[d]]
    BY <2>1 DEF Leave
  <2>3. /\ first \in Callers /\ first = lock.queue[1] /\ Len(lock.queue) \in Nat \ {0}
        /\ Tail(lock.queue) \in Seq(Callers) /\ Len(Tail(lock.queue)) = Len(lock.queue) - 1
        /\ \A i \in 1..Len(Tail(lock.queue)) : Tail(lock.queue)[i] = lock.queue[i + 1]
    BY <1>3
  <2>4. pc[first] = "waits" /\ first # c
    BY <2>3
  <2>5. Inside' = {first}
    BY <1>1, <2>2, <2>3, <2>4
  <2>6. lock'.queue = Tail(lock.queue) /\ lock'.locked
    BY <2>1, <1>1
  <2>7. ASSUME NEW d \in Callers
        PROVE  pc'[d] = "waits" <=> \E i \in 1..Len(lock'.queue) : lock'.queue[i] = d
    <3>1. CASE d \in {c, first}
      <4>1. pc'[d] # "waits"
        BY <3>1, <2>2
      <4>2. \A i \in 1..Len(lock.queue) : i # 1 => lock.queue[i] # d
        BY <3>1, <2>3, <2>4
      <4> QED BY <4>1, <4>2, <2>3, <2>6
    <3>2. CASE d \notin {c, first}
      <4>1. pc'[d] = pc[d]
        BY <3>2, <2>2
      <4>2. (\E i \in 1..Len(lock.queue) : lock.queue[i] = d)
              <=> \E i \in 1..Len(lock'.queue) : lock'.queue[i] = d
        <5>1. ASSUME NEW i \in 1..Len(lock.queue), lock.queue[i] = d
              PROVE  \E j \in 1..Len(lock'.queue) : lock'.queue[j] = d
          <6>1. i # 1 BY <5>1, <3>2, <2>3
          <6>2. i - 1 \in 1..Len(lock'.queue) /\ lock'.queue[i - 1] = lock.queue[i]
            BY <6>1, <2>3, <2>6
          <6> QED BY <6>2, <5>1
        <5>2. ASSUME NEW j \in 1..Len(lock'.queue), lock'.queue[j] = d
              PROVE  \E i \in 1..Len(lock.queue) : lock.queue[i] = d
          <6>1. j + 1 \in 1..Len(lock.queue) /\ lock'.queue[j] = lock.queue[j + 1]
            BY <2>3, <2>6
          <6> QED BY <6>1, <5>2
        <5> QED BY <5>1, <5>2
      <4> QED BY <4>1, <4>2
    <3> QED BY <3>1, <3>2
  <2>8. \A i, j \in 1..Len(lock'.queue) : lock'.queue[i] = lock'.queue[j] => i = j
    BY <2>3, <2>6
  <2>9. lock' \in [locked : BOOLEAN, queue : Seq(Callers)] /\ pc' \in [Callers -> Places]
    BY <2>1, <2>2, <2>3
  <2>10. OneCallerInside'
    BY <2>5, <2>6
  <2>11. WaitersAreQueued'
    BY <2>6, <2>7, <2>8
  <2> QED BY <1>1, <2>2, <2>4, <2>9, <2>10, <2>11
<1> QED BY <1>2, <1>3

-----------------------------------------------------------------------------
(* A change makes a configuration of a configuration.                      *)
LEMMA ChangedType ==
  ASSUME NEW r \in RequestType, NEW cfg \in Config, NEW t \in 0..MaxClock,
         ~RequestRefused(r, cfg)
  PROVE  Changed(r, cfg, t) \in Config
<1>0. Providers \subseteq Providers \cup {Ollama}
  OBVIOUS
<1>1. CASE r.kind = "temp"
  BY <1>1 DEF Changed, SetKey, Stamped, Config, RequestType
<1>3. CASE r.kind = "setModel"
  BY <1>3 DEF Changed, SetModel, Stamped, Config, RequestType
<1>4. CASE r.kind = "setProvider"
  BY <1>4 DEF Changed, SetProvider, Stamped, Config, RequestType
<1>5. CASE r.kind = "setRoleModel"
  BY <1>5 DEF Changed, SetRoleModel, Stamped, Config, RequestType
<1>6. CASE r.kind = "add"
  <2>1. r.provider \in Providers
    BY <1>6 DEF RequestRefused, RequestType
  <2> QED BY <2>1, <1>6 DEF Changed, AddProvider, Config
<1>7. CASE r.kind = "remove"
  BY <1>7 DEF Changed, RemoveProvider, Config
<1>8. CASE r.kind = "sync"
  BY <1>8 DEF Changed, ApplySyncedConfig, Config, RequestType
<1>9. CASE r.kind \in {"get", "rotate"}
  BY <1>9 DEF Changed
<1> QED BY <1>1, <1>3, <1>4, <1>5, <1>6, <1>7, <1>8, <1>9 DEF RequestType, RequestKinds

(* A change that was not refused leaves every role with a provider that is *)
(* configured, or with the one the client said.                            *)
LEMMA ChangedKeepsProviders ==
  ASSUME NEW r \in RequestType, NEW cfg \in Config, NEW t \in 0..MaxClock,
         ~RequestRefused(r, cfg), NEW said,
         \A which \in Roles : Known(cfg, cfg.provider[which]) \/ cfg.provider[which] \in said,
         r.kind = "sync" => r.provider \in said
  PROVE  LET new == Changed(r, cfg, t) IN
         \A which \in Roles : Known(new, new.provider[which]) \/ new.provider[which] \in said
<1> USE DEF Known
<1>1. CASE r.kind = "temp"
  BY <1>1 DEF Changed, SetKey, Stamped, Config, RequestType
<1>3. CASE r.kind = "setModel"
  BY <1>3 DEF Changed, SetModel, Stamped, Config, RequestType
<1>4. CASE r.kind = "setProvider"
  BY <1>4 DEF Changed, SetProvider, Stamped, Config, RequestType, RequestRefused
<1>5. CASE r.kind = "setRoleModel"
  BY <1>5 DEF Changed, SetRoleModel, Stamped, Config, RequestType, RequestRefused
<1>6. CASE r.kind = "add"
  BY <1>6 DEF Changed, AddProvider, Config, RequestType
<1>7. CASE r.kind = "remove"
  BY <1>7 DEF Changed, RemoveProvider, Config, RequestType, RequestRefused, InUse
<1>8. CASE r.kind = "sync"
  BY <1>8 DEF Changed, ApplySyncedConfig, Config, RequestType
<1>9. CASE r.kind \in {"get", "rotate"}
  BY <1>9 DEF Changed
<1> QED BY <1>1, <1>3, <1>4, <1>5, <1>6, <1>7, <1>8, <1>9 DEF RequestType, RequestKinds

(* What a caller saves is a configuration.                                 *)
LEMMA ResultType ==
  ASSUME NEW c \in Callers, request[c] \in RequestType, todo[c] \in Seq(Steps), todo[c] # <<>>,
         NEW cfg \in Config, NEW t \in 0..MaxClock, ~Refused(c, cfg)
  PROVE  Result(c, cfg, t) \in Config
<1>1. CASE MakesItsChange(c)
  <2>1. ~RequestRefused(request[c], cfg)
    BY <1>1 DEF Refused
  <2>2. Changed(request[c], cfg, t) \in Config
    BY <2>1, ChangedType
  <2> QED BY <1>1, <2>2 DEF Result, MakesItsChange
<1>2. CASE ~MakesItsChange(c)
  <2>1. Doing(c) \in Steps
    BY DEF Doing
  <2>2. Doing(c).role \in Roles
    BY <2>1 DEF Steps
  <2>3. /\ (request[c].model \in ToolModels) \in BOOLEAN
        /\ (request[c].model \in ThinkModels) \in BOOLEAN
    OBVIOUS
  <2> DEFINE hasTools == request[c].model \in ToolModels
             thinks == request[c].model \in ThinkModels
  <2>4. /\ [cfg EXCEPT !.tools[Doing(c).role] = hasTools] \in Config
        /\ [cfg EXCEPT !.thinking = thinks] \in Config
    <3> HIDE DEF hasTools, thinks
    <3> QED BY <2>2, <2>3 DEF Config, hasTools, thinks
  <2> QED BY <1>2, <2>4 DEF Result
<1> QED BY <1>1, <1>2

(* It leaves every role with a provider that is configured, or with the    *)
(* one the client said.                                                    *)
LEMMA ResultKeepsProviders ==
  ASSUME NEW c \in Callers, request[c] \in RequestType,
         NEW cfg \in Config, NEW t \in 0..MaxClock, ~Refused(c, cfg), NEW said,
         \A which \in Roles : Known(cfg, cfg.provider[which]) \/ cfg.provider[which] \in said,
         request[c].kind = "sync" => request[c].provider \in said
  PROVE  LET new == Result(c, cfg, t) IN
         \A which \in Roles : Known(new, new.provider[which]) \/ new.provider[which] \in said
<1>1. CASE MakesItsChange(c)
  <2>1. ~RequestRefused(request[c], cfg)
    BY <1>1 DEF Refused
  <2>2. Result(c, cfg, t) = Changed(request[c], cfg, t)
    BY <1>1 DEF Result, MakesItsChange
  <2> QED BY <2>1, <2>2, ChangedKeepsProviders
<1>2. CASE ~MakesItsChange(c)
  <2>1. /\ Result(c, cfg, t).provider = cfg.provider
        /\ Result(c, cfg, t).providers = cfg.providers
    BY <1>2 DEF Result, Config
  <2> QED BY <2>1 DEF Known
<1> QED BY <1>1, <1>2

(* What a handler has to do is a list of steps, the change the first.      *)
LEMMA StepsAreSteps ==
  ASSUME NEW r \in RequestType
  PROVE  /\ <<Step("change", r.role)>> \o StepsAfter(r) \in Seq(Steps)
         /\ <<Step("change", r.role)>> \o StepsAfter(r) # <<>>
<1>1. \A who \in Roles : Probes(who) \in Seq(Steps) /\ LookedUp(who) \in Seq(Steps)
  <2>1. \A who \in Roles, what \in {"change", "admin", "tools", "thinking"} :
          <<Step(what, who)>> \in Seq(Steps)
    BY DEF Step, Steps
  <2>2. ASSUME NEW who \in Roles PROVE Probes(who) \in Seq(Steps)
    <3>1. (IF who = "agent" THEN <<Step("thinking", who)>> ELSE <<>>) \in Seq(Steps)
      BY <2>1
    <3> QED BY <2>1, <3>1 DEF Probes
  <2> QED BY <2>1, <2>2 DEF LookedUp
<1>2. \A who \in Roles : IfNew(r, who) \in Seq(Steps)
  BY <1>1 DEF IfNew
<1>3. r.role \in Roles /\ "agent" \in Roles /\ "subagent" \in Roles
  BY DEF RequestType, Roles
<1>4. StepsAfter(r) \in Seq(Steps)
  <2>1. IfNew(r, "agent") \o IfNew(r, "subagent") \in Seq(Steps)
    BY <1>2, <1>3
  <2> QED BY <2>1, <1>1, <1>3 DEF StepsAfter
<1>5. <<Step("change", r.role)>> \in Seq(Steps)
  BY <1>3 DEF Step, Steps
<1> QED BY <1>4, <1>5

-----------------------------------------------------------------------------
(* The strengthened invariant holds at the start.                          *)
LEMMA InitIInv == ConfigInit => ConfigIInv
<1> SUFFICES ASSUME ConfigInit PROVE ConfigIInv
  OBVIOUS
<1> USE DEF ConfigInit, FreeLock
<1>1. file \in Config /\ \A r \in Roles : file.provider[r] = Ollama
  <2>1. /\ file.provider \in [Roles -> {Ollama}] /\ file.tools \in [Roles -> {FALSE}]
        /\ file.thinking \in BOOLEAN
        /\ file.temp \in [Roles -> {0}] /\ file.changedAt = 0
    OBVIOUS
  <2>2. /\ file.provider \in [Roles -> Providers \cup {Ollama}]
        /\ file.tools \in [Roles -> BOOLEAN] /\ file.temp \in [Roles -> {0, 1}]
        /\ file.changedAt \in 0..MaxClock
    <3>1. file.provider \in [Roles -> Providers \cup {Ollama}]
      BY <2>1
    <3>2. file.tools \in [Roles -> BOOLEAN]
      BY <2>1
    <3>3. file.temp \in [Roles -> {0, 1}]
      BY <2>1
    <3>4. file.changedAt \in 0..MaxClock
      BY <2>1, ConfigAssumption
    <3> QED BY <3>1, <3>2, <3>3, <3>4
  <2> QED BY <2>1, <2>2 DEF Config
<1>2. ConfigTypeOK
  <2>1. request \in [Callers -> RequestType]
    BY ConfigAssumption
  <2>2. snapshot \in [Callers -> Config]
    BY <1>1
  <2>3. todo \in [Callers -> Seq(Steps)]
    OBVIOUS
  <2> QED BY <1>1, <2>1, <2>2, <2>3, ConfigAssumption DEF ConfigTypeOK, Places
<1>3. OneCallerInside /\ WaitersAreQueued
  <2>1. lock.queue = <<>> /\ Len(lock.queue) = 0 /\ lock.locked = FALSE
    OBVIOUS
  <2>2. \A c \in Callers : pc[c] = "idle"
    OBVIOUS
  <2>3. Inside = {}
    BY <2>2 DEF Inside
  <2>4. OneCallerInside
    BY <2>1, <2>3 DEF OneCallerInside
  <2>5. ~\E i \in 1..Len(lock.queue) : TRUE
    BY <2>1
  <2>6. WaitersAreQueued
    BY <2>1, <2>2, <2>5 DEF WaitersAreQueued
  <2> QED BY <2>4, <2>6
<1>4. NoUpdateLost /\ KeyOpensFile /\ UsedIsConfigured
  BY <1>1 DEF NoUpdateLost, KeyOpensFile, UsedIsConfigured, Known
<1>5. SnapshotIsFresh /\ SaverIsAllowed /\ StepsLeft
  BY DEF SnapshotIsFresh, SaverIsAllowed, StepsLeft, Quiet
<1> QED BY <1>2, <1>3, <1>4, <1>5 DEF ConfigIInv, ConfigInv

(* What an action that leaves the file, the requests and the key alone has *)
(* to show: the mutex, and that nobody comes to save.                      *)
LEMMA OthersStay ==
  ASSUME ConfigIInv, MutexOK', outcome' \in [Callers -> {"none", "done", "refused", "failed"}],
         todo' \in [Callers -> Seq(Steps)],
         UNCHANGED <<file, keyOnDisk, now, request, snapshot, serial>>,
         \A d \in Callers : pc'[d] = "saves" => pc[d] = "saves" /\ todo'[d] = todo[d],
         \A d \in Callers : pc'[d] \notin Quiet => todo'[d] # <<>>,
         \/ cachedKey' = keyOnDisk
         \/ cachedKey' = cachedKey /\ \A d \in Callers : pc'[d] = "saves" <=> pc[d] = "saves"
  PROVE  ConfigIInv'
<1>1. ConfigTypeOK'
  BY DEF ConfigIInv, ConfigInv, ConfigTypeOK, MutexOK
<1>2. (OneCallerInside /\ WaitersAreQueued)'
  BY DEF MutexOK
<1>3. KeyOpensFile'
  BY DEF ConfigIInv, ConfigInv, KeyOpensFile, Rotating
<1>4. NoUpdateLost' /\ UsedIsConfigured'
  BY DEF ConfigIInv, ConfigInv, NoUpdateLost, UsedIsConfigured, SetByClient
<1>5. (SnapshotIsFresh /\ SaverIsAllowed /\ StepsLeft)'
  BY DEF ConfigIInv, SnapshotIsFresh, SaverIsAllowed, StepsLeft, Refused, MakesItsChange, Doing
<1> QED BY <1>1, <1>2, <1>3, <1>4, <1>5 DEF ConfigIInv, ConfigInv

(* It implies what the lock needs.                                         *)
LEMMA MutexOfIInv == ASSUME ConfigIInv PROVE MutexOK
BY DEF ConfigIInv, ConfigInv, ConfigTypeOK, MutexOK

(* A caller that stays outside.                                            *)
LEMMA StayOutside ==
  ASSUME ConfigIInv, NEW c \in Callers, pc[c] \in {"idle", "probes", "keeps"}, UNCHANGED lock,
         NEW next \in {"over", "probes"}, pc' = [pc EXCEPT ![c] = next]
  PROVE  MutexOK'
<1>1. MutexOK BY MutexOfIInv
<1>2. \A d \in Callers : pc'[d] = IF d = c THEN next ELSE pc[d]
  BY <1>1 DEF MutexOK
<1>3. Inside' = Inside
  BY <1>2 DEF Inside
<1>4. pc' \in [Callers -> Places] /\ lock' = lock
  BY <1>1 DEF MutexOK, Places
<1> QED BY <1>1, <1>2, <1>3, <1>4 DEF MutexOK, OneCallerInside, WaitersAreQueued

-----------------------------------------------------------------------------
(* Where a caller that is outside ends, or goes on to another probe, only  *)
(* its own steps and its answer change.                                    *)
LEMMA OutsideKeeps ==
  ASSUME ConfigIInv, NEW c \in Callers, pc[c] \in {"idle", "probes", "keeps"},
         NEW next \in {"over", "probes"}, pc' = [pc EXCEPT ![c] = next],
         NEW rest \in Seq(Steps), todo' = [todo EXCEPT ![c] = rest],
         next = "probes" => rest # <<>>,
         UNCHANGED <<lock, file, keyOnDisk, cachedKey, now, request, snapshot, serial>>,
         outcome' \in [Callers -> {"none", "done", "refused", "failed"}]
  PROVE  ConfigIInv'
<1>1. MutexOK /\ MutexOK'
  BY MutexOfIInv, StayOutside
<1>2. pc \in [Callers -> Places] /\ todo \in [Callers -> Seq(Steps)]
  BY DEF ConfigIInv, ConfigInv, ConfigTypeOK
<1>3. todo' \in [Callers -> Seq(Steps)]
  BY <1>2
<1>4. \A d \in Callers : /\ pc'[d] = IF d = c THEN next ELSE pc[d]
                         /\ todo'[d] = IF d = c THEN rest ELSE todo[d]
  BY <1>2
<1>5. \A d \in Callers : pc'[d] \notin Quiet => todo'[d] # <<>>
  BY <1>4 DEF ConfigIInv, StepsLeft, Quiet
<1>6. \A d \in Callers : pc'[d] = "saves" <=> pc[d] = "saves"
  BY <1>4
<1>7. \A d \in Callers : pc'[d] = "saves" => todo'[d] = todo[d]
  BY <1>4
<1> QED BY <1>1, <1>3, <1>5, <1>6, <1>7, OthersStay

(* Where it enters, likewise.                                              *)
LEMMA EnterKeeps ==
  ASSUME ConfigIInv, NEW c \in Callers, pc[c] \in {"idle", "probes"}, Enter(c),
         NEW rest \in Seq(Steps), todo' = [todo EXCEPT ![c] = rest], rest # <<>>,
         UNCHANGED <<outcome, file, keyOnDisk, cachedKey, now, request, snapshot, serial>>
  PROVE  ConfigIInv'
<1>1. MutexOK
  BY MutexOfIInv
<1>2. MutexOK'
  BY <1>1, EnterKeepsMutex DEF Places
<1>3. /\ pc \in [Callers -> Places] /\ todo \in [Callers -> Seq(Steps)]
      /\ outcome' \in [Callers -> {"none", "done", "refused", "failed"}]
  BY DEF ConfigIInv, ConfigInv, ConfigTypeOK
<1>4. todo' \in [Callers -> Seq(Steps)]
  BY <1>3
<1>5. \A d \in Callers : /\ pc'[d] \in {pc[d], "waits", "holds"} /\ (d # c => pc'[d] = pc[d])
                         /\ todo'[d] = IF d = c THEN rest ELSE todo[d]
  BY <1>3 DEF Enter
<1>6. \A d \in Callers : pc'[d] \notin Quiet => todo'[d] # <<>>
  BY <1>5 DEF ConfigIInv, StepsLeft
<1>7. \A d \in Callers : pc'[d] = "saves" <=> pc[d] = "saves"
  BY <1>5
<1>8. \A d \in Callers : pc'[d] = "saves" => todo'[d] = todo[d]
  BY <1>5
<1> QED BY <1>2, <1>3, <1>4, <1>6, <1>7, <1>8, OthersStay

(* A request that arrives keeps the invariant.                             *)
LEMMA RequestComesKeeps ==
  ASSUME ConfigIInv, NEW c \in Callers, RequestComes(c)
  PROVE  ConfigIInv'
<1>1. /\ outcome \in [Callers -> {"none", "done", "refused", "failed"}]
      /\ todo \in [Callers -> Seq(Steps)] /\ request[c] \in RequestType
  BY DEF ConfigIInv, ConfigInv, ConfigTypeOK
<1>2. pc[c] = "idle" /\ UNCHANGED <<file, keyOnDisk, cachedKey, now, request, snapshot, serial>>
  BY DEF RequestComes
<1>3. CASE (\E o \in {"done", "failed"} : Ends(c, o)) /\ UNCHANGED todo
  <2>1. todo' = [todo EXCEPT ![c] = todo[c]] /\ todo[c] \in Seq(Steps)
    BY <1>1, <1>3
  <2>2. outcome' \in [Callers -> {"none", "done", "refused", "failed"}]
    BY <1>1, <1>3 DEF Ends
  <2> QED BY <1>2, <1>3, <2>1, <2>2, OutsideKeeps DEF Ends
<1>4. CASE Starts(c)
  BY <1>1, <1>2, <1>4, StepsAreSteps, EnterKeeps DEF Starts
<1> QED BY <1>3, <1>4 DEF RequestComes, Getter, SyncCheck

(* Where a caller leaves the mutex, the file and the requests stay.        *)
LEMMA LeaveKeeps ==
  ASSUME ConfigIInv, NEW c \in Callers, pc[c] \in {"holds", "saves"},
         NEW next \in {"over", "keeps"}, Leave(c, next),
         outcome' \in [Callers -> {"none", "done", "refused", "failed"}],
         UNCHANGED <<file, keyOnDisk, now, request, todo, snapshot, serial>>,
         cachedKey' = keyOnDisk \/ (cachedKey' = cachedKey /\ pc[c] = "holds")
  PROVE  ConfigIInv'
<1>1. MutexOK BY MutexOfIInv
<1>2. next \in Places \ {"waits", "holds", "saves"}
  BY DEF Places
<1>3. /\ MutexOK' /\ pc'[c] = next
      /\ \A d \in Callers : pc'[d] # "saves" /\ (d # c /\ pc[d] \in Quiet => pc'[d] \in Quiet)
  BY <1>1, <1>2, LeaveKeepsMutex
<1>4. pc[c] = "holds" => \A d \in Callers : pc[d] # "saves"
  BY <1>1 DEF MutexOK, OneCallerInside, Inside
<1>5. \A d \in Callers : pc'[d] \notin Quiet => todo'[d] # <<>>
  BY <1>3 DEF ConfigIInv, StepsLeft, Quiet
<1>6. todo' \in [Callers -> Seq(Steps)]
  BY DEF ConfigIInv, ConfigInv, ConfigTypeOK
<1> QED BY <1>3, <1>4, <1>5, <1>6, OthersStay

(* It settles, or keeps what it could not record.                          *)
LEMMA FailKeeps ==
  ASSUME ConfigIInv, NEW c \in Callers, pc[c] \in {"holds", "saves"},
         ChangeFails(c) \/ Settled(c, "refused"),
         UNCHANGED <<file, keyOnDisk, now, request, todo, snapshot, serial>>,
         cachedKey' = keyOnDisk \/ (cachedKey' = cachedKey /\ pc[c] = "holds")
  PROVE  ConfigIInv'
<1>1. outcome' \in [Callers -> {"none", "done", "refused", "failed"}]
  BY DEF ConfigIInv, ConfigInv, ConfigTypeOK, ChangeFails, Settled
<1>2. \E next \in {"over", "keeps"} : Leave(c, next)
  BY DEF ChangeFails, Settled
<1> QED BY <1>1, <1>2, LeaveKeeps

(* A request that loads the file keeps the invariant.                      *)
LEMMA LoadKeeps ==
  ASSUME ConfigIInv, NEW c \in Callers, Load(c)
  PROVE  ConfigIInv'
<1>1. MutexOK BY MutexOfIInv
<1>2. CASE UNCHANGED <<snapshot, cachedKey>> /\ (ChangeFails(c) \/ Settled(c, "refused"))
  BY <1>2, FailKeeps DEF Load
<1>3. CASE /\ ~Refused(c, file)
           /\ snapshot' = [snapshot EXCEPT ![c] = file]
           /\ cachedKey' = IF request[c].kind = "rotate" THEN cachedKey + 1 ELSE cachedKey
           /\ pc' = [pc EXCEPT ![c] = "saves"]
           /\ UNCHANGED <<lock, outcome>>
  <2>1. pc \in [Callers -> Places] /\ pc[c] = "holds" /\ c \in Inside
    BY <1>1 DEF MutexOK, Load, Inside
  <2>2. \A d \in Callers \ {c} : pc'[d] = pc[d] /\ pc[d] \notin {"holds", "saves"}
    BY <2>1, <1>1, <1>3 DEF MutexOK, OneCallerInside, Inside
  <2>3. pc'[c] = "saves" /\ pc' \in [Callers -> Places]
    BY <2>1, <1>3 DEF Places
  <2>4. Inside' = Inside
    BY <2>1, <2>2, <2>3 DEF Inside
  <2>5. (OneCallerInside /\ WaitersAreQueued)'
    BY <1>1, <1>3, <2>1, <2>2, <2>3, <2>4 DEF MutexOK, OneCallerInside, WaitersAreQueued
  <2>6. ConfigTypeOK'
    BY <1>3, <2>3 DEF ConfigIInv, ConfigInv, ConfigTypeOK, Load
  <2>7. \A d \in Callers : pc[d] # "saves"
    BY <2>1, <2>2
  <2>8. cachedKey = keyOnDisk
    BY <2>7 DEF ConfigIInv, ConfigInv, KeyOpensFile, Rotating
  <2>9. KeyOpensFile'
    BY <1>3, <2>3, <2>8 DEF KeyOpensFile, Rotating, Load
  <2>10. NoUpdateLost' /\ UsedIsConfigured'
    BY DEF ConfigIInv, ConfigInv, NoUpdateLost, UsedIsConfigured, SetByClient, Load
  <2>11. snapshot'[c] = file /\ todo' = todo /\ request' = request /\ file' = file
    BY <1>3 DEF ConfigIInv, ConfigInv, ConfigTypeOK, Load
  <2>12. SnapshotIsFresh'
    BY <2>2, <2>7, <2>11 DEF SnapshotIsFresh
  <2>13. SaverIsAllowed'
    BY <1>3, <2>2, <2>7, <2>11 DEF SaverIsAllowed, Refused, MakesItsChange, Doing
  <2>14. StepsLeft'
    BY <2>1, <2>2, <2>11 DEF ConfigIInv, StepsLeft, Quiet
  <2> QED BY <2>5, <2>6, <2>9, <2>10, <2>12, <2>13, <2>14 DEF ConfigIInv, ConfigInv
<1> QED BY <1>2, <1>3 DEF Load

(* The file is what the changes one after another make, since the snapshot *)
(* of the only one who saves is the file.                                  *)
LEMMA SaveKeeps ==
  ASSUME ConfigIInv, NEW c \in Callers, Save(c)
  PROVE  ConfigIInv'
<1>1. MutexOK BY MutexOfIInv
<1>2. PICK next \in {"probes", "over"} : Leave(c, next) /\ (next = "probes" => Tail(todo[c]) # <<>>)
  BY DEF Save, Settled
<1>3. /\ MutexOK' /\ pc'[c] = next
      /\ \A d \in Callers : pc'[d] # "saves" /\ (d # c /\ pc[d] \in Quiet => pc'[d] \in Quiet)
  <2>1. next \in Places \ {"waits", "holds", "saves"}
    BY <1>2 DEF Places
  <2> QED BY <1>1, <1>2, <2>1, LeaveKeepsMutex DEF Save
<1>4. PICK t \in {now, now + 1} \cap (0..MaxClock) :
        /\ file' = Result(c, snapshot[c], t)
        /\ serial' = Result(c, serial, t)
        /\ now' = t
  BY DEF Save
<1>5. snapshot[c] = file /\ serial = file /\ ~Refused(c, file)
  BY DEF ConfigIInv, ConfigInv, SnapshotIsFresh, SaverIsAllowed, NoUpdateLost, Save
<1>6. file \in Config /\ request[c] \in RequestType /\ t \in 0..MaxClock
  BY DEF ConfigIInv, ConfigInv, ConfigTypeOK
<1>7. todo \in [Callers -> Seq(Steps)] /\ todo[c] \in Seq(Steps) /\ todo[c] # <<>>
  BY DEF ConfigIInv, ConfigInv, ConfigTypeOK, StepsLeft, Quiet, Save
<1>8. file' \in Config /\ serial' = file'
  BY <1>4, <1>5, <1>6, <1>7, ResultType
<1>9. Tail(todo[c]) \in Seq(Steps) /\ todo' = [todo EXCEPT ![c] = Tail(todo[c])]
  BY <1>7 DEF Save
<1>10. todo' \in [Callers -> Seq(Steps)]
  BY <1>7, <1>9
<1>11. outcome' \in [Callers -> {"none", "done", "refused", "failed"}]
  BY DEF ConfigIInv, ConfigInv, ConfigTypeOK, Save, Settled
<1>12. ConfigTypeOK'
  BY <1>3, <1>4, <1>6, <1>8, <1>10, <1>11
     DEF ConfigIInv, ConfigInv, ConfigTypeOK, Save, MutexOK
<1>13. UsedIsConfigured'
  <2> DEFINE said == {p \in Providers \cup {Ollama} : SetByClient(p)}
  <2>1. \A r \in Roles : file.provider[r] \in Providers \cup {Ollama}
    BY <1>6 DEF Config
  <2>2. \A r \in Roles : Known(file, file.provider[r]) \/ file.provider[r] \in said
    BY <2>1 DEF ConfigIInv, ConfigInv, UsedIsConfigured
  <2>3. request[c].kind = "sync" => request[c].provider \in said
    BY <1>6 DEF SetByClient, RequestType
  <2> HIDE DEF said
  <2>4. \A r \in Roles : Known(file', file'.provider[r]) \/ file'.provider[r] \in said
    BY <1>4, <1>5, <1>6, <2>2, <2>3, ResultKeepsProviders
  <2>5. \A p \in said : SetByClient(p)'
    BY DEF said, SetByClient, Save
  <2> QED BY <2>4, <2>5 DEF UsedIsConfigured
<1>14. KeyOpensFile' /\ NoUpdateLost'
  BY <1>8 DEF KeyOpensFile, NoUpdateLost, Save
<1>15. SnapshotIsFresh' /\ SaverIsAllowed'
  BY <1>3 DEF SnapshotIsFresh, SaverIsAllowed
<1>16. StepsLeft'
  <2>1. \A d \in Callers : todo'[d] = IF d = c THEN Tail(todo[c]) ELSE todo[d]
    BY <1>7, <1>9
  <2> QED BY <1>2, <1>3, <2>1 DEF ConfigIInv, StepsLeft, Quiet
<1> QED BY <1>3, <1>12, <1>13, <1>14, <1>15, <1>16 DEF ConfigIInv, ConfigInv, MutexOK

(* A request whose save fails keeps the invariant.                         *)
LEMMA SaveFailsKeeps ==
  ASSUME ConfigIInv, NEW c \in Callers, SaveFails(c)
  PROVE  ConfigIInv'
<1>1. MutexOK BY MutexOfIInv
<1>2. \A d \in Callers : pc[d] = "saves" => d = c
  BY <1>1 DEF MutexOK, OneCallerInside, Inside, SaveFails
<1>3. cachedKey' = keyOnDisk
  BY <1>2 DEF ConfigIInv, ConfigInv, KeyOpensFile, Rotating, SaveFails, RestoredKey
<1> QED BY <1>3, FailKeeps DEF SaveFails

(* A handler that goes on outside of the mutex, or fails there, keeps the  *)
(* invariant: it finds the provider, or leaves the flag as it is.          *)
LEMMA GoesOnKeeps ==
  ASSUME ConfigIInv, NEW c \in Callers, pc[c] \in {"probes", "keeps"},
         GoesOnWith(c, Tail(todo[c])) \/ (Ends(c, "failed") /\ UNCHANGED todo),
         UNCHANGED <<file, keyOnDisk, cachedKey, now, request, snapshot, serial>>
  PROVE  ConfigIInv'
<1>1. /\ outcome \in [Callers -> {"none", "done", "refused", "failed"}]
      /\ todo \in [Callers -> Seq(Steps)] /\ todo[c] \in Seq(Steps) /\ todo[c] # <<>>
  BY DEF ConfigIInv, ConfigInv, ConfigTypeOK, StepsLeft, Quiet
<1>2. outcome' \in [Callers -> {"none", "done", "refused", "failed"}]
  BY <1>1 DEF GoesOnWith, Ends
<1>3. CASE GoesOnWith(c, Tail(todo[c]))
  <2>1. Tail(todo[c]) \in Seq(Steps)
    BY <1>1
  <2>2. PICK next \in {"over", "probes"} :
          /\ pc' = [pc EXCEPT ![c] = next] /\ (next = "probes" => Tail(todo[c]) # <<>>)
          /\ lock' = lock
    BY <1>3 DEF GoesOnWith, Ends
  <2> QED BY <1>2, <1>3, <2>1, <2>2, OutsideKeeps DEF GoesOnWith
<1>4. CASE Ends(c, "failed") /\ UNCHANGED todo
  <2>1. todo' = [todo EXCEPT ![c] = todo[c]]
    BY <1>1, <1>4
  <2> QED BY <1>1, <1>2, <1>4, <2>1, OutsideKeeps DEF Ends
<1> QED BY <1>3, <1>4

(* Looking for the provider, probing a model and keeping the flag keep it. *)
LEMMA ProbeKeeps ==
  ASSUME ConfigIInv, NEW c \in Callers, GetAdmin(c) \/ Probe(c) \/ RecordingFailed(c)
  PROVE  ConfigIInv'
<1>1. /\ pc[c] \in {"probes", "keeps"}
      /\ UNCHANGED <<file, keyOnDisk, cachedKey, now, request, snapshot, serial>>
  BY DEF GetAdmin, Probe, RecordingFailed
<1>2. CASE GoesOnWith(c, Tail(todo[c])) \/ (Ends(c, "failed") /\ UNCHANGED todo)
  BY <1>1, <1>2, GoesOnKeeps
<1>3. CASE Probe(c) /\ Enter(c) /\ UNCHANGED <<todo, outcome>>
  <2>1. /\ todo[c] \in Seq(Steps) /\ todo[c] # <<>> /\ todo' = [todo EXCEPT ![c] = todo[c]]
        /\ pc[c] = "probes"
    BY <1>3 DEF ConfigIInv, ConfigInv, ConfigTypeOK, StepsLeft, Quiet, Probe
  <2> QED BY <1>1, <1>3, <2>1, EnterKeeps
<1> QED BY <1>2, <1>3 DEF GetAdmin, Probe, RecordingFailed, KeepFlag

(* A step that leaves the store alone keeps it.                            *)
LEMMA StutterKeeps == ASSUME ConfigIInv, UNCHANGED configVars PROVE ConfigIInv'
<1>1. MutexOK BY MutexOfIInv
<1>2. MutexOK'
  BY <1>1 DEF MutexOK, OneCallerInside, WaitersAreQueued, Inside, configVars
<1>3. /\ outcome' \in [Callers -> {"none", "done", "refused", "failed"}]
      /\ todo' \in [Callers -> Seq(Steps)]
      /\ \A d \in Callers : pc'[d] \notin Quiet => todo'[d] # <<>>
  BY DEF ConfigIInv, ConfigInv, ConfigTypeOK, StepsLeft, configVars
<1> QED BY <1>2, <1>3, OthersStay DEF configVars

(* Every step keeps the strengthened invariant.                            *)
LEMMA NextKeepsIInv == ConfigIInv /\ [ConfigNext]_configVars => ConfigIInv'
<1> SUFFICES ASSUME ConfigIInv, [ConfigNext]_configVars PROVE ConfigIInv'
  OBVIOUS
<1>1. ASSUME NEW c \in Callers, CallerStep(c) PROVE ConfigIInv'
  BY <1>1, RequestComesKeeps, LoadKeeps, SaveKeeps, SaveFailsKeeps, ProbeKeeps
     DEF CallerStep
<1> QED BY <1>1, StutterKeeps DEF ConfigNext

-----------------------------------------------------------------------------
(* Whatever is asked, refused, lost or rotated: one caller is inside, no   *)
(* saved change is lost, the key in memory opens the file, and every role  *)
(* has a provider that is configured or that a client set                  *)
(* (configManager.ts:178-290, mutex.ts:62).                                *)
THEOREM ConfigAlwaysHolds == ConfigSpec => []ConfigInv
<1>1. ConfigIInv => ConfigInv
  BY DEF ConfigIInv
<1> QED BY <1>1, InitIInv, NextKeepsIInv, PTL DEF ConfigSpec

(* The types of the configuration's variables.                             *)
THEOREM ConfigTypes == ConfigSpec => []ConfigTypeOK
<1>1. ConfigInv => ConfigTypeOK
  BY DEF ConfigInv
<1> QED BY <1>1, ConfigAlwaysHolds, PTL

(* The mutex admits one caller, although release() hands it over without   *)
(* unlocking (mutex.ts:62).                                                *)
THEOREM ConfigMutualExclusion == ConfigSpec => []OneCallerInside
<1>1. ConfigInv => OneCallerInside
  BY DEF ConfigInv
<1> QED BY <1>1, ConfigAlwaysHolds, PTL

(* No saved change of the configuration is lost (configManager.ts:1182).   *)
THEOREM ConfigNoUpdateLost == ConfigSpec => []NoUpdateLost
<1>1. ConfigInv => NoUpdateLost
  BY DEF ConfigInv
<1> QED BY <1>1, ConfigAlwaysHolds, PTL

-----------------------------------------------------------------------------
(* A subagent's run (subagent/subagent.ts).                                *)

(* What else is needed: advice is counted by the escalations, and the      *)
(* breaker's counter is the number of calls without a tool.                *)
SubIInv ==
  /\ SubagentInv
  /\ escalations \in Nat /\ advised \in Nat /\ advised <= escalations
  /\ sinceTool = idleTurns

(* The flags one by one.                                                   *)
SubFlags ==
  /\ thought \in BOOLEAN /\ planAsked \in BOOLEAN /\ wrote \in BOOLEAN
  /\ checked \in BOOLEAN /\ setUp \in BOOLEAN /\ cancelled \in BOOLEAN
SubPlaces ==
  turn \in 0..MaxTurns /\ idleTurns \in 0..MaxIdleTurns /\ step \in Tools \cup {"head", "model"}

(* SubTypeOK names six flags at once; here they are one by one.            *)
LEMMA SubTypesSplit == SubTypeOK <=> SubPlaces /\ SubFlags
<1>1. {thought, planAsked, wrote, checked, setUp, cancelled} \subseteq BOOLEAN <=> SubFlags
  BY Zenon DEF SubFlags
<1> QED BY <1>1, Zenon DEF SubTypeOK, SubPlaces

(* A tool that is awaited is one of the tools.                             *)
LEMMA CalledIsATool ==
  ASSUME NEW r \in Replies
  PROVE  Called(r) \subseteq Tools
<1>1. r \in Reply
  BY SubagentAssumption
<1>2. r.tools \subseteq Tools /\ r.recovered \in Tools \cup {"none"}
  BY <1>1 DEF Reply
<1> QED BY <1>2 DEF Called

(* A run starts with nothing advised, called or written.                   *)
LEMMA SubStarts == SubInit => SubIInv
<1> SUFFICES ASSUME SubInit
             PROVE  SubIInv
  OBVIOUS
<1>1. SubPlaces
  BY SubagentAssumption DEF SubInit, SubPlaces
<1>2. SubFlags
  BY Zenon DEF SubInit, SubFlags
<1>3. /\ AdviceIsBounded /\ BreakerHolds /\ EndsVerified
      /\ escalations \in Nat /\ advised \in Nat /\ advised <= escalations /\ sinceTool = idleTurns
  BY SubagentAssumption DEF SubInit, AdviceIsBounded, BreakerHolds, EndsVerified
<1> QED BY <1>1, <1>2, <1>3, SubTypesSplit DEF SubIInv, SubagentInv

(* A turn ends the run where it stands or calls the model once more.       *)
LEMMA HeadEndsOrCalls ==
  ASSUME TurnHead
  PROVE  \/ UNCHANGED <<turn, idleTurns, sinceTool, step>>
         \/ /\ turn # MaxTurns /\ ~(idleTurns >= MaxIdleTurns) /\ step' = "model"
            /\ turn' = turn + 1 /\ idleTurns' = idleTurns + 1 /\ sinceTool' = sinceTool + 1
<1>1. CASE turn = MaxTurns
  BY <1>1, Zenon DEF TurnHead, EndsAs
<1>2. CASE turn # MaxTurns /\ cancelled
  BY <1>2, Zenon DEF TurnHead, EndsAs
<1>3. CASE turn # MaxTurns /\ ~cancelled /\ idleTurns >= MaxIdleTurns
  BY <1>3, Zenon DEF TurnHead, EndsAs
<1>4. CASE turn # MaxTurns /\ ~cancelled /\ ~(idleTurns >= MaxIdleTurns)
  BY <1>4, Zenon DEF TurnHead, EndsAs
<1> QED BY <1>1, <1>2, <1>3, <1>4

(* No step of a run breaks what is known of it: the escalation counts      *)
(* before it advises (subagent.ts:712), and the breaker's counter is reset *)
(* only by a tool that was called (subagent.ts:479).                       *)
LEMMA SubStepKeeps == SubIInv /\ [SubNext]_subVars => SubIInv'
<1> SUFFICES ASSUME SubIInv, [SubNext]_subVars
             PROVE  SubIInv'
  OBVIOUS
<1>0. SubPlaces /\ SubFlags
  BY SubTypesSplit DEF SubIInv, SubagentInv
<1> USE SubagentAssumption
<1>1. SubFlags'
  <2> USE DEF SubFlags, work
  <2>1. CASE TurnHead
    <3>1. UNCHANGED <<thought, planAsked, wrote, checked, setUp, cancelled>>
      BY <2>1 DEF TurnHead
    <3> QED BY <1>0, <3>1
  <2>2. CASE Answered
    BY <1>0, <2>2, CalledIsATool DEF Answered
  <2>3. CASE Escalate
    BY <1>0, <2>3 DEF Escalate, EndsAs, Exhausted
  <2>4. CASE Finish
    BY <1>0, <2>4 DEF Finish, EndsAs, Finishes
  <2>5. CASE UseTool
    BY <1>0, <2>5 DEF UseTool, Executed
  <2>6. CASE Throws
    BY <1>0, <2>6 DEF Throws, EndsAs
  <2>7. CASE CancelRun
    BY <1>0, <2>7 DEF CancelRun
  <2>8. CASE UNCHANGED subVars
    BY <1>0, <2>8 DEF subVars
  <2> QED BY <2>1, <2>2, <2>3, <2>4, <2>5, <2>6, <2>7, <2>8 DEF SubNext, RunStep
<1>2. SubPlaces'
  <2> USE DEF SubPlaces, Tools, work
  <2>1. CASE TurnHead
    BY <1>0, <2>1, HeadEndsOrCalls
  <2>2. CASE Answered
    BY <1>0, <2>2, CalledIsATool DEF Answered
  <2>3. CASE Escalate
    BY <1>0, <2>3 DEF Escalate, EndsAs, Exhausted
  <2>4. CASE Finish
    BY <1>0, <2>4 DEF Finish, EndsAs, Finishes
  <2>5. CASE UseTool
    BY <1>0, <2>5 DEF UseTool, Executed
  <2>6. CASE Throws
    BY <1>0, <2>6 DEF Throws, EndsAs
  <2>7. CASE CancelRun
    BY <1>0, <2>7 DEF CancelRun
  <2>8. CASE UNCHANGED subVars
    BY <1>0, <2>8 DEF subVars
  <2> QED BY <2>1, <2>2, <2>3, <2>4, <2>5, <2>6, <2>7, <2>8 DEF SubNext, RunStep
<1>3. (AdviceIsBounded /\ escalations \in Nat /\ advised \in Nat /\ advised <= escalations)'
  <2> USE DEF SubIInv, SubagentInv, AdviceIsBounded, work
  <2>1. CASE TurnHead
    BY <1>0, <2>1 DEF TurnHead, EndsAs
  <2>2. CASE Answered
    BY <1>0, <2>2, CalledIsATool DEF Answered
  <2>3. CASE Escalate
    BY <1>0, <2>3 DEF Escalate, EndsAs, Exhausted
  <2>4. CASE Finish
    BY <1>0, <2>4 DEF Finish, EndsAs, Finishes
  <2>5. CASE UseTool
    BY <1>0, <2>5 DEF UseTool, Executed
  <2>6. CASE Throws
    BY <1>0, <2>6 DEF Throws, EndsAs
  <2>7. CASE CancelRun
    BY <1>0, <2>7 DEF CancelRun
  <2>8. CASE UNCHANGED subVars
    BY <1>0, <2>8 DEF subVars
  <2> QED BY <2>1, <2>2, <2>3, <2>4, <2>5, <2>6, <2>7, <2>8 DEF SubNext, RunStep
<1>4. (BreakerHolds /\ sinceTool = idleTurns)'
  <2> USE DEF SubIInv, SubagentInv, BreakerHolds, SubPlaces, work
  <2>1. CASE TurnHead
    BY <1>0, <2>1, HeadEndsOrCalls
  <2>2. CASE Answered
    BY <1>0, <2>2, CalledIsATool DEF Answered
  <2>3. CASE Escalate
    BY <1>0, <2>3 DEF Escalate, EndsAs, Exhausted
  <2>4. CASE Finish
    BY <1>0, <2>4 DEF Finish, EndsAs, Finishes
  <2>5. CASE UseTool
    BY <1>0, <2>5 DEF UseTool, Executed
  <2>6. CASE Throws
    BY <1>0, <2>6 DEF Throws, EndsAs
  <2>7. CASE CancelRun
    BY <1>0, <2>7 DEF CancelRun
  <2>8. CASE UNCHANGED subVars
    BY <1>0, <2>8 DEF subVars
  <2> QED BY <2>1, <2>2, <2>3, <2>4, <2>5, <2>6, <2>7, <2>8 DEF SubNext, RunStep
<1>5. EndsVerified'
  <2> USE DEF SubIInv, SubagentInv, EndsVerified, SubFlags, work
  <2>1. CASE TurnHead
    <3>1. UNCHANGED <<wrote, checked, setUp>> /\ result' # "ok"
      BY <2>1 DEF TurnHead, EndsAs
    <3> QED BY <3>1
  <2>2. CASE Answered
    BY <1>0, <2>2, CalledIsATool DEF Answered
  <2>3. CASE Escalate
    BY <1>0, <2>3 DEF Escalate, EndsAs, Exhausted
  <2>4. CASE Finish
    BY <1>0, <2>4 DEF Finish, EndsAs, Finishes
  <2>5. CASE UseTool
    BY <1>0, <2>5 DEF UseTool, Executed
  <2>6. CASE Throws
    BY <1>0, <2>6 DEF Throws, EndsAs
  <2>7. CASE CancelRun
    BY <1>0, <2>7 DEF CancelRun
  <2>8. CASE UNCHANGED subVars
    BY <1>0, <2>8 DEF subVars
  <2> QED BY <2>1, <2>2, <2>3, <2>4, <2>5, <2>6, <2>7, <2>8 DEF SubNext, RunStep
<1>6. SubTypeOK'
  BY <1>1, <1>2, SubTypesSplit, Zenon DEF SubTypeOK, SubPlaces, SubFlags
<1> QED BY <1>3, <1>4, <1>5, <1>6 DEF SubIInv, SubagentInv

(* Whatever the model answers and whichever tools fail: no more advice     *)
(* than escalations allow, no run beyond the breaker, and an end called    *)
(* well only after a check or the setup.                                   *)
THEOREM SubagentIsBounded == SubSpec => []SubagentInv
<1>1. SubIInv => SubagentInv
  BY DEF SubIInv
<1> QED BY <1>1, SubStarts, SubStepKeeps, PTL DEF SubSpec

-----------------------------------------------------------------------------
(* The report of a model that does not fit its card                        *)
(* (ollama/modelPlacement.ts). PlacementInv is not inductive: that a       *)
(* connection is told once needs that what it was told stands among its    *)
(* warnings until it closes, and that a spill is told needs who spent the  *)
(* warning.                                                                *)

PlaceKeys == LocalModels \X PlacementKinds
PlaceTypeOK ==
  /\ owner \in [Reporters -> [of : Owners, model : LocalModels]]
  /\ placed \in [LocalModels -> PlacementKinds]
  /\ asking \in [Reporters -> {"turn", "asking", "listed", "over"}]
  /\ listed \in [Reporters -> PlacementKinds]
  /\ closedOwners \subseteq Owners /\ quietTasks \subseteq Reporters
  /\ warned \in [Owners -> SUBSET PlaceKeys]
  /\ toldOf \in [Owners -> SUBSET (Reporters \X PlaceKeys)]
  /\ muted \subseteq Reporters \X PlaceKeys

ToldIsOwn ==
  \A c \in Owners : \A x \in toldOf[c] :
    owner[x[1]].of = c /\ x[2][1] = owner[x[1]].model /\ x[2][2] \in Spilled
ToldDiffer == \A c \in Owners : \A x, y \in toldOf[c] : x[2] = y[2] => x = y
ToldIsWarned == \A c \in Owners \ closedOwners : \A x \in toldOf[c] : x[2] \in warned[c]
ClosedAreQuiet == \A t \in Reporters : owner[t].of \in closedOwners => t \in quietTasks
WarnedIsSpent ==
  \A c \in Owners : \A key \in warned[c] :
    \E x \in toldOf[c] \cup {y \in muted : owner[y[1]].of = c} : x[2] = key
ListedWhenAsked ==
  \A t \in Reporters : asking[t] \in {"turn", "asking"} => listed[t] = "absent"
PlaceIInv ==
  /\ PlaceTypeOK /\ ToldIsOwn /\ ToldDiffer /\ ToldIsWarned /\ ClosedAreQuiet
  /\ WarnedIsSpent /\ ListedWhenAsked /\ SpillIsTold /\ KeptOnlyByWaiting

(* At first nobody is told and nothing is warned of.                       *)
LEMMA PlaceStarts == PlaceInit => PlaceIInv
<1> SUFFICES ASSUME PlaceInit
             PROVE  PlaceIInv
  OBVIOUS
<1>1. PlaceTypeOK
  BY DEF PlaceInit, PlaceTypeOK, PlacementKinds
<1>2. /\ ToldIsOwn /\ ToldDiffer /\ ToldIsWarned /\ ClosedAreQuiet
      /\ WarnedIsSpent /\ ListedWhenAsked /\ SpillIsTold /\ KeptOnlyByWaiting
  BY DEF PlaceInit, ToldIsOwn, ToldDiffer, ToldIsWarned, ClosedAreQuiet, WarnedIsSpent,
         ListedWhenAsked, SpillIsTold, KeptOnlyByWaiting
<1> QED BY <1>1, <1>2 DEF PlaceIInv

(* Ollama moving a model tells nobody anything.                            *)
LEMMA PlaceMoveKeeps ==
  ASSUME PlaceIInv, NEW m \in LocalModels, NEW place \in PlacementKinds, Place(m, place)
  PROVE  PlaceIInv'
<1>1. PlaceTypeOK'
  BY DEF PlaceIInv, PlaceTypeOK, Place
<1>2. ToldIsOwn'
  BY DEF PlaceIInv, Place, ToldIsOwn
<1>3. ToldDiffer'
  BY DEF PlaceIInv, Place, ToldDiffer
<1>4. ToldIsWarned'
  BY DEF PlaceIInv, Place, ToldIsWarned
<1>5. ClosedAreQuiet'
  BY DEF PlaceIInv, Place, ClosedAreQuiet
<1>6. WarnedIsSpent'
  BY DEF PlaceIInv, Place, WarnedIsSpent
<1>7. ListedWhenAsked'
  BY DEF PlaceIInv, Place, ListedWhenAsked
<1>8. SpillIsTold'
  BY DEF PlaceIInv, Place, SpillIsTold
<1>9. KeptOnlyByWaiting'
  BY DEF PlaceIInv, Place, KeptOnlyByWaiting
<1> QED BY <1>1, <1>2, <1>3, <1>4, <1>5, <1>6, <1>7, <1>8, <1>9 DEF PlaceIInv

(* A task that asks, is answered or is refused an answer tells nothing     *)
(* yet.                                                                    *)
LEMMA AskingKeeps ==
  ASSUME PlaceIInv, NEW t \in Reporters, AskPlacement(t) \/ OllamaLists(t) \/ ListFails(t)
  PROVE  PlaceIInv'
<1> USE DEF AskPlacement, OllamaLists, ListFails, Matched
<1>1. PlaceTypeOK'
  BY DEF PlaceIInv, PlaceTypeOK
<1>2. /\ ToldIsOwn' /\ ToldDiffer' /\ ToldIsWarned' /\ ClosedAreQuiet'
      /\ WarnedIsSpent' /\ KeptOnlyByWaiting'
  BY DEF PlaceIInv, ToldIsOwn, ToldDiffer, ToldIsWarned, ClosedAreQuiet, WarnedIsSpent,
         KeptOnlyByWaiting
<1>3. ListedWhenAsked'
  BY DEF PlaceIInv, PlaceTypeOK, ListedWhenAsked
<1>4. SpillIsTold'
  <2>1. /\ UNCHANGED <<owner, quietTasks, toldOf, muted>>
        /\ \A u \in Reporters : asking'[u] = "over" /\ listed'[u] \in Spilled =>
             asking[u] = "over" /\ listed[u] = listed'[u]
    BY DEF PlaceIInv, PlaceTypeOK, ListedWhenAsked, Spilled
  <2>2. ASSUME NEW u \in Reporters, asking'[u] = "over", listed'[u] \in Spilled, u \notin quietTasks
        PROVE  \E x \in toldOf[owner[u].of] \cup {y \in muted : owner[y[1]].of = owner[u].of} :
                 x[2] = <<owner[u].model, listed'[u]>>
    <3>1. asking[u] = "over" /\ listed[u] \in Spilled /\ listed'[u] = listed[u] /\ SpillIsTold
      BY <2>1, <2>2 DEF PlaceIInv
    <3> QED BY <2>2, <3>1 DEF SpillIsTold
  <2> QED BY <2>1, <2>2, Zenon DEF SpillIsTold
<1> QED BY <1>1, <1>2, <1>3, <1>4 DEF PlaceIInv

(* A cancelled task goes quiet; what was told stays told.                  *)
LEMMA AbortKeeps ==
  ASSUME PlaceIInv, NEW t \in Reporters, AbortTask(t)
  PROVE  PlaceIInv'
<1> USE DEF AbortTask
<1>1. PlaceTypeOK'
  BY DEF PlaceIInv, PlaceTypeOK
<1>2. ToldIsOwn'
  BY DEF PlaceIInv, ToldIsOwn
<1>3. ToldDiffer'
  BY DEF PlaceIInv, ToldDiffer
<1>4. ToldIsWarned'
  BY DEF PlaceIInv, ToldIsWarned
<1>5. ClosedAreQuiet'
  BY DEF PlaceIInv, ClosedAreQuiet
<1>6. WarnedIsSpent'
  BY DEF PlaceIInv, WarnedIsSpent
<1>7. ListedWhenAsked'
  BY DEF PlaceIInv, ListedWhenAsked
<1>8. SpillIsTold'
  BY DEF PlaceIInv, SpillIsTold
<1>9. KeptOnlyByWaiting'
  BY DEF PlaceIInv, KeptOnlyByWaiting
<1> QED BY <1>1, <1>2, <1>3, <1>4, <1>5, <1>6, <1>7, <1>8, <1>9 DEF PlaceIInv

(* A connection that closes forgets its warnings and quiets its tasks.     *)
LEMMA CloseOwnerKeeps ==
  ASSUME PlaceIInv, NEW c \in Owners, CloseOwner(c)
  PROVE  PlaceIInv'
<1> USE DEF CloseOwner
<1>1. PlaceTypeOK'
  BY DEF PlaceIInv, PlaceTypeOK
<1>2. \A d \in Owners : warned'[d] = IF d = c THEN {} ELSE warned[d]
  BY DEF PlaceIInv, PlaceTypeOK
<1>3. ToldIsOwn'
  BY <1>2 DEF PlaceIInv, ToldIsOwn
<1>4. ToldDiffer'
  BY <1>2 DEF PlaceIInv, ToldDiffer
<1>5. ToldIsWarned'
  BY <1>2 DEF PlaceIInv, ToldIsWarned
<1>6. ClosedAreQuiet'
  BY <1>2 DEF PlaceIInv, ClosedAreQuiet
<1>7. WarnedIsSpent'
  BY <1>2 DEF PlaceIInv, WarnedIsSpent
<1>8. ListedWhenAsked'
  BY <1>2 DEF PlaceIInv, ListedWhenAsked
<1>9. SpillIsTold'
  BY <1>2 DEF PlaceIInv, SpillIsTold
<1>10. KeptOnlyByWaiting'
  BY <1>2 DEF PlaceIInv, KeptOnlyByWaiting
<1> QED BY <1>1, <1>3, <1>4, <1>5, <1>6, <1>7, <1>8, <1>9, <1>10 DEF PlaceIInv

(* A report warns once for a model and a kind of spill of one connection,  *)
(* and is muted if its task is quiet.                                      *)
LEMMA ReportKeeps ==
  ASSUME PlaceIInv, NEW t \in Reporters, Report(t)
  PROVE  PlaceIInv'
<1> DEFINE c == owner[t].of
           key == <<owner[t].model, listed[t]>>
<1>1. /\ c \in Owners /\ key \in PlaceKeys /\ key[1] = owner[t].model /\ key[2] = listed[t]
      /\ owner' = owner /\ placed' = placed /\ listed' = listed
      /\ closedOwners' = closedOwners /\ quietTasks' = quietTasks
      /\ \A u \in Reporters : asking'[u] = IF u = t THEN "over" ELSE asking[u]
      /\ asking' \in [Reporters -> {"turn", "asking", "listed", "over"}]
  BY DEF Report, PlaceIInv, PlaceTypeOK, PlaceKeys
<1>2. ListedWhenAsked' /\ ClosedAreQuiet'
  BY <1>1 DEF PlaceIInv, ListedWhenAsked, ClosedAreQuiet
<1>3. CASE ~(listed[t] \in Spilled /\ ~IsWarned(t))
  <2>1. UNCHANGED <<warned, toldOf, muted>>
    BY <1>3 DEF Report
  <2>2. PlaceTypeOK'
    BY <1>1, <2>1 DEF PlaceIInv, PlaceTypeOK
  <2>3. ToldIsOwn' /\ ToldDiffer' /\ ToldIsWarned' /\ WarnedIsSpent' /\ KeptOnlyByWaiting'
    <3>1. UNCHANGED <<owner, closedOwners, warned, toldOf, muted>>
      BY <1>1, <2>1
    <3>2. ToldIsOwn' /\ ToldDiffer'
      BY <3>1 DEF PlaceIInv, ToldIsOwn, ToldDiffer
    <3>3. ToldIsWarned' /\ WarnedIsSpent'
      BY <3>1 DEF PlaceIInv, ToldIsWarned, WarnedIsSpent
    <3>4. KeptOnlyByWaiting'
      BY <3>1 DEF PlaceIInv, KeptOnlyByWaiting
    <3> QED BY <3>2, <3>3, <3>4
  <2>4. listed[t] \in Spilled =>
          \E x \in toldOf[c] \cup {y \in muted : owner[y[1]].of = c} : x[2] = key
    BY <1>1, <1>3 DEF IsWarned, PlaceIInv, WarnedIsSpent
  <2>5. SpillIsTold'
    BY <1>1, <2>1, <2>4 DEF PlaceIInv, SpillIsTold
  <2> QED BY <1>2, <2>2, <2>3, <2>5 DEF PlaceIInv
<1>4. CASE listed[t] \in Spilled /\ ~IsWarned(t)
  <2>1. /\ \A d \in Owners : warned'[d] = IF d = c THEN warned[c] \cup {key} ELSE warned[d]
        /\ warned' \in [Owners -> SUBSET PlaceKeys]
    <3>1. warned' = [warned EXCEPT ![c] = @ \cup {key}]
      BY <1>4 DEF Report
    <3> HIDE DEF key, c
    <3> QED BY <1>1, <3>1 DEF PlaceIInv, PlaceTypeOK
  <2>2. CASE t \in quietTasks
    <3>1. muted' = muted \cup {<<t, key>>} /\ toldOf' = toldOf
      BY <1>4, <2>2 DEF Report
    <3>2. PlaceTypeOK'
      BY <1>1, <2>1, <3>1 DEF PlaceIInv, PlaceTypeOK
    <3>3. ToldIsOwn' /\ ToldDiffer' /\ ToldIsWarned'
      BY <1>1, <2>1, <3>1 DEF PlaceIInv, ToldIsOwn, ToldDiffer, ToldIsWarned
    <3>4. WarnedIsSpent'
      <4> SUFFICES ASSUME NEW d \in Owners, NEW k \in warned'[d]
                   PROVE  \E x \in toldOf[d] \cup {y \in muted' : owner[y[1]].of = d} : x[2] = k
        BY <1>1, <3>1 DEF WarnedIsSpent
      <4>1. CASE d = c /\ k = key
        <5>1. <<t, key>> \in {y \in muted' : owner[y[1]].of = d} /\ <<t, key>>[2] = k
          BY <3>1, <4>1
        <5> QED BY <5>1
      <4>2. CASE ~(d = c /\ k = key)
        BY <2>1, <3>1, <4>2 DEF PlaceIInv, WarnedIsSpent
      <4> QED BY <4>1, <4>2
    <3>5. SpillIsTold'
      BY <1>1, <2>2, <3>1 DEF PlaceIInv, SpillIsTold
    <3>6. KeptOnlyByWaiting'
      <4> SUFFICES ASSUME NEW d \in closedOwners, NEW k \in warned'[d]
                   PROVE  \E u \in Reporters : owner[u].of = d /\ <<u, k>> \in muted'
        BY <1>1 DEF KeptOnlyByWaiting
      <4>1. d \in Owners
        BY DEF PlaceIInv, PlaceTypeOK
      <4> QED BY <2>1, <3>1, <4>1 DEF PlaceIInv, KeptOnlyByWaiting
    <3> QED BY <1>2, <3>2, <3>3, <3>4, <3>5, <3>6 DEF PlaceIInv
  <2>3. CASE t \notin quietTasks
    <3>1. /\ muted' = muted
          /\ \A d \in Owners : toldOf'[d] = IF d = c THEN toldOf[c] \cup {<<t, key>>} ELSE toldOf[d]
          /\ toldOf' \in [Owners -> SUBSET (Reporters \X PlaceKeys)]
      BY <1>1, <1>4, <2>3 DEF Report, PlaceIInv, PlaceTypeOK
    <3>2. PlaceTypeOK'
      BY <1>1, <2>1, <3>1 DEF PlaceIInv, PlaceTypeOK
    <3>3. c \notin closedOwners
      BY <2>3 DEF PlaceIInv, ClosedAreQuiet
    <3>4. \A x \in toldOf[c] : x[2] # key
      BY <1>1, <1>4, <3>3 DEF PlaceIInv, ToldIsWarned, IsWarned
    <3>5. <<t, key>>[1] = t /\ <<t, key>>[2] = key
      OBVIOUS
    <3> HIDE DEF key
    <3>6. ToldIsOwn'
      BY <1>1, <1>4, <3>1, <3>5 DEF PlaceIInv, ToldIsOwn
    <3>7. ToldDiffer'
      BY <1>1, <3>1, <3>4, <3>5 DEF PlaceIInv, ToldDiffer
    <3>8. ToldIsWarned'
      BY <1>1, <2>1, <3>1, <3>5 DEF PlaceIInv, ToldIsWarned
    <3>9. WarnedIsSpent'
      <4> SUFFICES ASSUME NEW d \in Owners, NEW k \in warned'[d]
                   PROVE  \E x \in toldOf'[d] \cup {y \in muted : owner[y[1]].of = d} : x[2] = k
        BY <1>1, <3>1 DEF WarnedIsSpent
      <4>1. CASE d = c /\ k = key
        BY <1>1, <3>1, <3>5, <4>1
      <4>2. CASE ~(d = c /\ k = key)
        BY <2>1, <3>1, <4>2 DEF PlaceIInv, WarnedIsSpent
      <4> QED BY <4>1, <4>2
    <3>10. SpillIsTold'
      <4> SUFFICES ASSUME NEW u \in Reporters, asking'[u] = "over", listed[u] \in Spilled,
                          u \notin quietTasks
                   PROVE  \E x \in toldOf'[owner[u].of] \cup
                                   {y \in muted : owner[y[1]].of = owner[u].of} :
                            x[2] = <<owner[u].model, listed[u]>>
        BY <1>1, <3>1 DEF SpillIsTold
      <4>1. CASE u = t
        BY <1>1, <3>1, <3>5, <4>1 DEF key
      <4>2. CASE u # t
        <5>1. owner[u].of \in Owners /\ asking[u] = "over"
          BY <1>1, <4>2 DEF PlaceIInv, PlaceTypeOK
        <5> QED BY <1>1, <3>1, <4>2, <5>1 DEF PlaceIInv, SpillIsTold
      <4> QED BY <4>1, <4>2
    <3>11. KeptOnlyByWaiting'
      <4> SUFFICES ASSUME NEW d \in closedOwners, NEW k \in warned'[d]
                   PROVE  \E u \in Reporters : owner[u].of = d /\ <<u, k>> \in muted
        BY <1>1, <3>1 DEF KeptOnlyByWaiting
      <4>1. d \in Owners /\ d # c
        BY <3>3 DEF PlaceIInv, PlaceTypeOK
      <4> QED BY <2>1, <4>1 DEF PlaceIInv, KeptOnlyByWaiting
    <3> QED BY <1>2, <3>2, <3>6, <3>7, <3>8, <3>9, <3>10, <3>11 DEF PlaceIInv
  <2> QED BY <2>2, <2>3
<1> QED BY <1>3, <1>4

(* Every step keeps what is known of the reports.                          *)
LEMMA PlaceStepKeeps == PlaceIInv /\ [PlaceNext]_placeVars => PlaceIInv'
<1> SUFFICES ASSUME PlaceIInv, [PlaceNext]_placeVars
             PROVE  PlaceIInv'
  OBVIOUS
<1>1. CASE PlaceNext
  BY <1>1, PlaceMoveKeeps, AskingKeeps, ReportKeeps, AbortKeeps, CloseOwnerKeeps
     DEF PlaceNext
<1>2. CASE UNCHANGED placeVars
  <2>1. PlaceTypeOK'
    BY <1>2 DEF placeVars, PlaceIInv, PlaceTypeOK
  <2>2. ToldIsOwn'
    BY <1>2 DEF placeVars, PlaceIInv, ToldIsOwn
  <2>3. ToldDiffer'
    BY <1>2 DEF placeVars, PlaceIInv, ToldDiffer
  <2>4. ToldIsWarned'
    BY <1>2 DEF placeVars, PlaceIInv, ToldIsWarned
  <2>5. ClosedAreQuiet'
    BY <1>2 DEF placeVars, PlaceIInv, ClosedAreQuiet
  <2>6. WarnedIsSpent'
    BY <1>2 DEF placeVars, PlaceIInv, WarnedIsSpent
  <2>7. ListedWhenAsked'
    BY <1>2 DEF placeVars, PlaceIInv, ListedWhenAsked
  <2>8. SpillIsTold'
    BY <1>2 DEF placeVars, PlaceIInv, SpillIsTold
  <2>9. KeptOnlyByWaiting'
    BY <1>2 DEF placeVars, PlaceIInv, KeptOnlyByWaiting
  <2> QED BY <2>1, <2>2, <2>3, <2>4, <2>5, <2>6, <2>7, <2>8, <2>9 DEF PlaceIInv
<1> QED BY <1>1, <1>2

(* What is known of the reports gives the three promises of PlacementInv.  *)
LEMMA PlaceIInvImplies == PlaceIInv => PlacementInv
<1> SUFFICES ASSUME PlaceIInv
             PROVE  ToldOnce
  BY DEF PlaceIInv, PlacementInv
<1>1. ToldIsOwn /\ ToldDiffer
  BY DEF PlaceIInv
<1> QED BY <1>1 DEF ToldOnce, ToldIsOwn, ToldDiffer

(* For any tasks, connections and models, whatever the order of asking,    *)
(* answering, cancelling and closing: a connection hears of a spill once   *)
(* and only of its own tasks' models, no spill goes unheard for another    *)
(* connection's sake, and what a closed connection forgot comes back only  *)
(* by a report that was waiting (createModelPlacementReporter).            *)
THEOREM PlacementIsReported == PlaceInit /\ [][PlaceNext]_placeVars => []PlacementInv
BY PlaceStarts, PlaceStepKeeps, PlaceIInvImplies, PTL

-----------------------------------------------------------------------------
(* The server's process, from its arguments to its end (main,              *)
(* lifecycle.ts, shutdown.ts). ProcessInv becomes inductive with what      *)
(* main() has checked at each of its stages and which child it may have    *)
(* there.                                                                  *)

AfterProbe == {"container", "models", "roles", "certificate", "bind", "serving"}
AfterPort == {"preview", "probe", "spawning", "polling"} \cup AfterProbe
AfterUnlock == {"unlock", "password", "port"} \cup AfterPort
BeforeSpawn == {"args", "defaults", "unlock", "password", "port", "preview", "probe"}
ChildStates == {"none", "starting", "up", "told", "dead"}

(* Where main() stands and what it has checked to get there.               *)
StageFacts ==
  /\ startStage \in {"args", "defaults", "ended"} \cup AfterUnlock
  /\ cert \in {"ok", "warning", "expired", "broken"}
  /\ launch \in Launches
  /\ startStage = "defaults" => launch \in {"start", "repair"}
  /\ startStage \in AfterUnlock => launch = "start"
  /\ startStage = "password" => password \in {"none", "set"}
  /\ startStage \in {"port"} \cup AfterPort => password = "set"
  /\ startStage \in AfterPort => saved = {"password", "port"}
  /\ startStage \in {"probe", "spawning", "polling", "models"} => usesOllama
  /\ startStage \in {"bind", "serving"} => cert # "expired"
  /\ startStage = "serving" => cert # "broken"
  /\ startStage # "ended" => exitCode = "none"

(* The child: none before it is spawned, and the one that runs once the    *)
(* wait is over is the server's own.                                       *)
ChildFacts ==
  /\ child \in ChildStates
  /\ startStage \in BeforeSpawn \cup {"args", "defaults"} => child = "none"
  /\ startStage \in AfterProbe /\ ChildAlive => startedByServer
  /\ ChildLeftOnlyLate /\ ChildIsNeeded

PeerFacts ==
  /\ peers \in [Peers -> {"away", "live", "gone"}]
  /\ startStage \notin {"serving", "ended"} => running = {} /\ perConnection = {}
  /\ ResourcesOfTheLiving

ProcIInv == StageFacts /\ ChildFacts /\ PeerFacts /\ OrderlyEnd

(* The process starts with nothing checked, spawned or served.             *)
LEMMA ProcStarts == ProcInit => ProcIInv
BY DEF ProcInit, ProcIInv, StageFacts, Launches, ChildFacts, PeerFacts, OrderlyEnd,
       AfterUnlock, AfterPort,
       AfterProbe, BeforeSpawn, ChildStates, ChildAlive, ChildLeftOnlyLate, ChildIsNeeded,
       ResourcesOfTheLiving

(* main() reaches a stage only through what it checks before it, in the    *)
(* order of its awaits.                                                    *)
LEMMA StagesKeep ==
  ASSUME StageFacts, [ProcNext]_procVars
  PROVE  StageFacts'
<1> USE DEF StageFacts, Launches, AfterUnlock, AfterPort, AfterProbe, givenVars,
            ollamaVars, peerVars, Exit, GoesTo, EndsWith
<1>1. CASE ParseArgs
  BY <1>1 DEF ParseArgs
<1>2. CASE InstallDefaults
  <2>1. CASE launch = "repair"
    BY <1>2, <2>1 DEF InstallDefaults
  <2>2. CASE launch # "repair"
    BY <1>2, <2>2 DEF InstallDefaults
  <2> QED BY <2>1, <2>2
<1>3. CASE UnlockSecrets
  BY <1>3 DEF UnlockSecrets
<1>4. CASE AskPassword
  <2>1. CASE startStage' = "port" /\ UNCHANGED <<exitCode, givenVars>>
    <3>1. password' = "set"
      BY <1>4, <2>1 DEF AskPassword, Acceptable
    <3> QED BY <1>4, <2>1, <3>1 DEF AskPassword
  <2>2. CASE startStage' = "ended" /\ UNCHANGED <<givenVars>>
    BY <1>4, <2>2 DEF AskPassword
  <2>3. (startStage' = "port" /\ UNCHANGED exitCode) \/ startStage' = "ended"
    BY <1>4 DEF AskPassword
  <2> QED BY <1>4, <2>1, <2>2, <2>3 DEF AskPassword
<1>5. CASE AskPort
  BY <1>5 DEF AskPort
<1>6. CASE Preview
  BY <1>6 DEF Preview
<1>7. CASE ProbeOllama
  BY <1>7 DEF ProbeOllama
<1>8. CASE SpawnEvents
  BY <1>8 DEF SpawnEvents, KillChild
<1>9. CASE Poll
  BY <1>9 DEF Poll, KillChild
<1>10. CASE Container
  BY <1>10 DEF Container
<1>11. CASE ListModels
  BY <1>11 DEF ListModels
<1>12. CASE SyncRoles
  BY <1>12 DEF SyncRoles
<1>13. CASE LoadCertificate
  BY <1>13 DEF LoadCertificate
<1>14. CASE Bind
  BY <1>14 DEF Bind
<1>15. ASSUME NEW c \in Peers, NEW kind \in {"task", "sync", "pull"},
       Connect(c) \/ Work(c, kind) \/ StreamOver(c) \/ Close(c)
       PROVE  StageFacts'
  BY <1>15 DEF Connect, Work, StreamOver, Close, Disposed
<1>16. ASSUME NEW group \in BOOLEAN, Signal(group), startStage = "serving"
       PROVE  StageFacts'
  BY <1>16 DEF Signal, Shutdown, Disposed, KillChild
<1>17. ASSUME NEW group \in BOOLEAN, Signal(group), startStage # "serving"
       PROVE  StageFacts'
  BY <1>17 DEF Signal, KillChild
<1>18. CASE ChildComesUp
  BY <1>18 DEF ChildComesUp
<1>19. CASE ChildEnds
  BY <1>19 DEF ChildEnds
<1>20. CASE OtherStarted
  BY <1>20 DEF OtherStarted
<1>21. CASE OtherStopped
  BY <1>21 DEF OtherStopped
<1>22. CASE UNCHANGED procVars
  BY <1>22 DEF procVars
<1> QED BY <1>1, <1>2, <1>3, <1>4, <1>5, <1>6, <1>7, <1>8, <1>9, <1>10, <1>11, <1>12,
           <1>13, <1>14, <1>15, <1>16, <1>17, <1>18, <1>19, <1>20, <1>21, <1>22 DEF
           ProcNext, MainStep

(* The child is spawned only while starting, and after the wait for it is  *)
(* over a live one is the server's own.                                    *)
LEMMA ChildKeeps ==
  ASSUME StageFacts, ChildFacts, [ProcNext]_procVars
  PROVE  ChildFacts'
<1> USE DEF StageFacts, Launches, AfterUnlock, AfterPort, AfterProbe, ChildFacts, ChildStates,
        BeforeSpawn, ChildAlive, ChildLeftOnlyLate, ChildIsNeeded, givenVars, ollamaVars, peerVars, Exit, GoesTo, EndsWith
<1>1. CASE ParseArgs
  BY <1>1 DEF ParseArgs
<1>2. CASE InstallDefaults
  BY <1>2 DEF InstallDefaults
<1>3. CASE UnlockSecrets
  BY <1>3 DEF UnlockSecrets
<1>4. CASE AskPassword
  BY <1>4 DEF AskPassword, Acceptable
<1>5. CASE AskPort
  BY <1>5 DEF AskPort
<1>6. CASE Preview
  BY <1>6 DEF Preview
<1>7. CASE ProbeOllama
  BY <1>7 DEF ProbeOllama
<1>8. CASE SpawnEvents
  BY <1>8 DEF SpawnEvents, KillChild
<1>9. CASE Poll
  BY <1>9 DEF Poll, KillChild
<1>10. CASE Container
  BY <1>10 DEF Container
<1>11. CASE ListModels
  BY <1>11 DEF ListModels
<1>12. CASE SyncRoles
  BY <1>12 DEF SyncRoles
<1>13. CASE LoadCertificate
  BY <1>13 DEF LoadCertificate
<1>14. CASE Bind
  BY <1>14 DEF Bind
<1>15. ASSUME NEW c \in Peers, NEW kind \in {"task", "sync", "pull"},
       Connect(c) \/ Work(c, kind) \/ StreamOver(c) \/ Close(c)
       PROVE  ChildFacts'
  BY <1>15 DEF Connect, Work, StreamOver, Close, Disposed
<1>16. ASSUME NEW group \in BOOLEAN, Signal(group), startStage = "serving"
       PROVE  ChildFacts'
  BY <1>16 DEF Signal, Shutdown, Disposed, KillChild
<1>17. ASSUME NEW group \in BOOLEAN, Signal(group), startStage # "serving"
       PROVE  ChildFacts'
  BY <1>17 DEF Signal, KillChild
<1>18. CASE ChildComesUp
  BY <1>18 DEF ChildComesUp
<1>19. CASE ChildEnds
  BY <1>19 DEF ChildEnds
<1>20. CASE OtherStarted
  BY <1>20 DEF OtherStarted
<1>21. CASE OtherStopped
  BY <1>21 DEF OtherStopped
<1>22. CASE UNCHANGED procVars
  BY <1>22 DEF procVars
<1> QED BY <1>1, <1>2, <1>3, <1>4, <1>5, <1>6, <1>7, <1>8, <1>9, <1>10, <1>11, <1>12,
           <1>13, <1>14, <1>15, <1>16, <1>17, <1>18, <1>19, <1>20, <1>21, <1>22 DEF
           ProcNext, MainStep

(* Work and resources are those of live connections; none exist before the *)
(* server listens.                                                         *)
LEMMA PeersKeep ==
  ASSUME StageFacts, PeerFacts, [ProcNext]_procVars
  PROVE  PeerFacts'
<1> USE DEF StageFacts, Launches, AfterUnlock, AfterPort, AfterProbe, PeerFacts,
        ResourcesOfTheLiving, givenVars, ollamaVars, peerVars, Exit, GoesTo, EndsWith
<1>1. CASE ParseArgs
  BY <1>1 DEF ParseArgs
<1>2. CASE InstallDefaults
  BY <1>2 DEF InstallDefaults
<1>3. CASE UnlockSecrets
  BY <1>3 DEF UnlockSecrets
<1>4. CASE AskPassword
  BY <1>4 DEF AskPassword, Acceptable
<1>5. CASE AskPort
  BY <1>5 DEF AskPort
<1>6. CASE Preview
  BY <1>6 DEF Preview
<1>7. CASE ProbeOllama
  BY <1>7 DEF ProbeOllama
<1>8. CASE SpawnEvents
  BY <1>8 DEF SpawnEvents, KillChild
<1>9. CASE Poll
  BY <1>9 DEF Poll, KillChild
<1>10. CASE Container
  BY <1>10 DEF Container
<1>11. CASE ListModels
  BY <1>11 DEF ListModels
<1>12. CASE SyncRoles
  BY <1>12 DEF SyncRoles
<1>13. CASE LoadCertificate
  BY <1>13 DEF LoadCertificate
<1>14. CASE Bind
  BY <1>14 DEF Bind
<1>15. ASSUME NEW c \in Peers, NEW kind \in {"task", "sync", "pull"},
       Connect(c) \/ Work(c, kind) \/ StreamOver(c) \/ Close(c)
       PROVE  PeerFacts'
  <2>1. CASE Connect(c)
    BY <2>1 DEF Connect
  <2>2. CASE Work(c, kind)
    BY <2>2 DEF Work
  <2>3. CASE StreamOver(c)
    BY <2>3 DEF StreamOver
  <2>4. CASE Close(c)
    BY <2>4 DEF Close, Disposed
  <2> QED BY <1>15, <2>1, <2>2, <2>3, <2>4
<1>16. ASSUME NEW group \in BOOLEAN, Signal(group), startStage = "serving"
       PROVE  PeerFacts'
  BY <1>16 DEF Signal, Shutdown, Disposed, KillChild
<1>17. ASSUME NEW group \in BOOLEAN, Signal(group), startStage # "serving"
       PROVE  PeerFacts'
  BY <1>17 DEF Signal, KillChild
<1>18. CASE ChildComesUp
  BY <1>18 DEF ChildComesUp
<1>19. CASE ChildEnds
  BY <1>19 DEF ChildEnds
<1>20. CASE OtherStarted
  BY <1>20 DEF OtherStarted
<1>21. CASE OtherStopped
  BY <1>21 DEF OtherStopped
<1>22. CASE UNCHANGED procVars
  BY <1>22 DEF procVars
<1> QED BY <1>1, <1>2, <1>3, <1>4, <1>5, <1>6, <1>7, <1>8, <1>9, <1>10, <1>11, <1>12,
           <1>13, <1>14, <1>15, <1>16, <1>17, <1>18, <1>19, <1>20, <1>21, <1>22 DEF
           ProcNext, MainStep

(* shutdown.ts ends the child, the resources and the connections before    *)
(* the process exits.                                                      *)
LEMMA OrderKeeps ==
  ASSUME StageFacts, ChildFacts, PeerFacts, OrderlyEnd, [ProcNext]_procVars
  PROVE  OrderlyEnd'
<1> USE DEF StageFacts, Launches, AfterUnlock, AfterPort, AfterProbe,
            ChildFacts, ChildStates, PeerFacts,
        ChildAlive, OrderlyEnd, givenVars, ollamaVars, peerVars, Exit, GoesTo, EndsWith
<1>1. CASE ParseArgs
  BY <1>1 DEF ParseArgs
<1>2. CASE InstallDefaults
  BY <1>2 DEF InstallDefaults
<1>3. CASE UnlockSecrets
  BY <1>3 DEF UnlockSecrets
<1>4. CASE AskPassword
  BY <1>4 DEF AskPassword, Acceptable
<1>5. CASE AskPort
  BY <1>5 DEF AskPort
<1>6. CASE Preview
  BY <1>6 DEF Preview
<1>7. CASE ProbeOllama
  BY <1>7 DEF ProbeOllama
<1>8. CASE SpawnEvents
  BY <1>8 DEF SpawnEvents, KillChild
<1>9. CASE Poll
  BY <1>9 DEF Poll, KillChild
<1>10. CASE Container
  BY <1>10 DEF Container
<1>11. CASE ListModels
  BY <1>11 DEF ListModels
<1>12. CASE SyncRoles
  BY <1>12 DEF SyncRoles
<1>13. CASE LoadCertificate
  BY <1>13 DEF LoadCertificate
<1>14. CASE Bind
  BY <1>14 DEF Bind
<1>15. ASSUME NEW c \in Peers, NEW kind \in {"task", "sync", "pull"},
       Connect(c) \/ Work(c, kind) \/ StreamOver(c) \/ Close(c)
       PROVE  OrderlyEnd'
  BY <1>15 DEF Connect, Work, StreamOver, Close, Disposed
<1>16. ASSUME NEW group \in BOOLEAN, Signal(group), startStage = "serving"
       PROVE  OrderlyEnd'
  BY <1>16 DEF Signal, Shutdown, Disposed, KillChild
<1>17. ASSUME NEW group \in BOOLEAN, Signal(group), startStage # "serving"
       PROVE  OrderlyEnd'
  BY <1>17 DEF Signal, KillChild
<1>18. CASE ChildComesUp
  BY <1>18 DEF ChildComesUp
<1>19. CASE ChildEnds
  BY <1>19 DEF ChildEnds
<1>20. CASE OtherStarted
  BY <1>20 DEF OtherStarted
<1>21. CASE OtherStopped
  BY <1>21 DEF OtherStopped
<1>22. CASE UNCHANGED procVars
  BY <1>22 DEF procVars
<1> QED BY <1>1, <1>2, <1>3, <1>4, <1>5, <1>6, <1>7, <1>8, <1>9, <1>10, <1>11, <1>12,
           <1>13, <1>14, <1>15, <1>16, <1>17, <1>18, <1>19, <1>20, <1>21, <1>22 DEF
           ProcNext, MainStep

(* The facts of stage, child and peers give ProcessInv.                    *)
LEMMA ProcIInvImplies == ProcIInv => ProcessInv
BY DEF ProcIInv, StageFacts, ChildFacts, PeerFacts, ProcessInv, ServesOnlyChecked,
       AfterUnlock,
       AfterPort, AfterProbe

(* Whatever is saved, typed, signalled or fails to start: nobody is served *)
(* unchecked, a signal while serving leaves nothing behind, and a child    *)
(* outlives the process only where ChildLeftOnlyLate says.                 *)
THEOREM ProcessIsOrderly == ProcInit /\ [][ProcNext]_procVars => []ProcessInv
<1>1. ProcIInv /\ [ProcNext]_procVars => ProcIInv'
  BY StagesKeep, ChildKeeps, PeersKeep, OrderKeeps DEF ProcIInv
<1> QED BY <1>1, ProcStarts, ProcIInvImplies, PTL

-----------------------------------------------------------------------------
(* The installed models: the report of the storage they take, the pull and *)
(* the deletion (ollama/modelStorage.ts). What deleting frees is proved in *)
(* AnswerProofs, with what it takes to add up sizes (FreedBytesAreReal).   *)

ScanShape ==
  /\ DOMAIN scan = ScanCommands /\ quiet \in [ScanCommands -> BOOLEAN]
  /\ \A c \in ScanCommands :
       scan[c] = [step |-> scan[c].step, todo |-> scan[c].todo, read |-> scan[c].read,
                  whole |-> scan[c].whole, partial |-> scan[c].partial, bytes |-> scan[c].bytes]

BeingRead(c) ==
  /\ Scanning(c) => stayed[c] \subseteq installed
  /\ scan[c].step = "manifests" => stayed[c] \ unreadable \subseteq scan[c].todo \cup scan[c].read
  /\ scan[c].step \in {"list", "sizes", "done"} => stayed[c] \ unreadable \subseteq scan[c].read
ReadInPeace(c) ==
  /\ Scanning(c) => stayed[c] = installed
  /\ scan[c].step = "manifests" => scan[c].todo \cup scan[c].read \subseteq stayed[c]
  /\ scan[c].step \in {"list", "sizes", "done"} => scan[c].read \subseteq stayed[c]
  /\ scan[c].step = "sizes" => scan[c].whole = whole /\ scan[c].partial = partial
  /\ scan[c].step = "done" =>
       scan[c].bytes = BytesOf(scan[c].whole) + Cardinality(scan[c].partial)
ScanFacts(c) == BeingRead(c) /\ (quiet[c] => ReadInPeace(c))
LibIInv == ScanShape /\ \A c \in ScanCommands : ScanFacts(c)

(* A step that is not the scan's own, and does not begin it.               *)
LEMMA BystanderKeeps ==
  ASSUME ScanShape, NEW c \in ScanCommands, ScanFacts(c), NEW begins, Watched(begins),
         c \notin begins, unreadable' = unreadable,
         scan'[c] = scan[c] \/ scan'[c] = NoScan
  PROVE  ScanFacts(c)'
<1>1. /\ stayed'[c] = IF Scanning(c) THEN stayed[c] \cap installed' ELSE stayed[c]
      /\ quiet'[c] => quiet[c] /\ (Scanning(c) => UNCHANGED modelFiles)
  BY DEF Watched
<1>2. CASE scan'[c] = NoScan
  BY <1>2 DEF NoScan, ScanFacts, BeingRead, ReadInPeace, Scanning
<1>3. CASE scan'[c] = scan[c] /\ Scanning(c)
  <2>1. BeingRead(c)'
    BY <1>1, <1>3 DEF ScanFacts, BeingRead, Scanning
  <2>2. ASSUME quiet'[c]
        PROVE  ReadInPeace(c)'
    <3>1. quiet[c] /\ UNCHANGED <<installed, whole, partial>>
      BY <1>1, <1>3, <2>2 DEF modelFiles
    <3> QED BY <1>1, <1>3, <3>1 DEF ScanFacts, ReadInPeace, Scanning
  <2> QED BY <2>1, <2>2 DEF ScanFacts
<1>4. CASE scan'[c] = scan[c] /\ ~Scanning(c)
  <2>1. BeingRead(c)'
    BY <1>1, <1>4 DEF ScanFacts, BeingRead, Scanning
  <2>2. ASSUME quiet'[c]
        PROVE  ReadInPeace(c)'
    <3>1. quiet[c]
      BY <1>1, <2>2
    <3> QED BY <1>1, <1>4, <3>1 DEF ScanFacts, ReadInPeace, Scanning
  <2> QED BY <2>1, <2>2 DEF ScanFacts
<1> QED BY <1>2, <1>3, <1>4

(* Watched gives functions of the commands.                                *)
LEMMA WatchedShape ==
  ASSUME ScanShape, NEW begins, Watched(begins)
  PROVE  quiet' \in [ScanCommands -> BOOLEAN]
BY DEF Watched, ScanShape

(* The walk finds the manifests of the models that are installed now, or   *)
(* nothing.                                                                *)
LEMMA WalkKeeps ==
  ASSUME LibIInv, NEW c \in ScanCommands, WalkManifests(c), unreadable' = unreadable,
         UNCHANGED modelFiles
  PROVE  LibIInv'
<1>1. scan' = [scan EXCEPT ![c] =
                 IF DirectoryFound THEN [NoScan EXCEPT !.step = "manifests", !.todo = installed]
                 ELSE [NoScan EXCEPT !.step = Nowhere]]
  BY DEF WalkManifests
<1>2. /\ DOMAIN scan' = ScanCommands
      /\ \A d \in ScanCommands : d # c => scan'[d] = scan[d]
      /\ scan'[c] = IF DirectoryFound THEN [NoScan EXCEPT !.step = "manifests", !.todo = installed]
                    ELSE [NoScan EXCEPT !.step = Nowhere]
  BY <1>1 DEF LibIInv, ScanShape
<1>3. scan'[c] = [step |-> scan'[c].step, todo |-> scan'[c].todo, read |-> {},
                  whole |-> {}, partial |-> {}, bytes |-> 0]
      /\ \/ scan'[c].step = "manifests" /\ scan'[c].todo = installed
         \/ scan'[c].step = Nowhere
  <2> HIDE DEF DirectoryFound
  <2> QED BY <1>2 DEF NoScan, Nowhere
<1>4. ScanShape'
  BY <1>2, <1>3, WatchedShape DEF LibIInv, ScanShape, WalkManifests
<1>5. stayed'[c] = installed /\ installed' = installed /\ whole' = whole /\ partial' = partial
  BY DEF WalkManifests, Watched, modelFiles
<1>6. BeingRead(c)'
  BY <1>3, <1>5 DEF BeingRead, Scanning, Nowhere
<1>7. ReadInPeace(c)'
  BY <1>3, <1>5 DEF ReadInPeace, Scanning, Nowhere
<1>8. ASSUME NEW d \in ScanCommands, d # c
      PROVE  ScanFacts(d)'
  BY <1>2, <1>8, BystanderKeeps DEF LibIInv, WalkManifests
<1> QED BY <1>4, <1>6, <1>7, <1>8 DEF LibIInv, ScanFacts

(* A step of the scan: reading a manifest, listing the blobs, adding their *)
(* sizes.                                                                  *)
LEMMA ScanStepKeeps ==
  ASSUME LibIInv, NEW c \in ScanCommands, ScanStep(c)
  PROVE  LibIInv'
<1>1. /\ UNCHANGED <<unreadable, installed, whole, partial>> /\ Watched({})
      /\ Scanning(c) /\ quiet[c] \in BOOLEAN
      /\ stayed'[c] = stayed[c] \cap installed /\ (quiet'[c] => quiet[c])
  BY DEF ScanStep, ReadManifest, ListBlobs, StatBlobs, modelFiles, Watched, Scanning,
         LibIInv,
         ScanShape
<1>2. stayed'[c] = stayed[c]
  BY <1>1 DEF LibIInv, ScanFacts, BeingRead
<1>3. /\ DOMAIN scan' = ScanCommands
      /\ \A d \in ScanCommands : d # c => scan'[d] = scan[d]
  BY DEF ScanStep, ReadManifest, ListBlobs, StatBlobs, LibIInv, ScanShape
<1>4. ASSUME NEW d \in ScanCommands, d # c
      PROVE  ScanFacts(d)'
  BY <1>1, <1>3, <1>4, BystanderKeeps DEF LibIInv
<1>5. scan[c] = [step |-> scan[c].step, todo |-> scan[c].todo, read |-> scan[c].read,
                 whole |-> scan[c].whole, partial |-> scan[c].partial, bytes |-> scan[c].bytes]
      /\ DOMAIN scan = ScanCommands
  BY DEF LibIInv, ScanShape
<1>6. SUFFICES /\ BeingRead(c)' /\ (quiet[c] => ReadInPeace(c)')
               /\ scan'[c] = [step |-> scan'[c].step, todo |-> scan'[c].todo,
                              read |-> scan'[c].read, whole |-> scan'[c].whole,
                              partial |-> scan'[c].partial, bytes |-> scan'[c].bytes]
  BY <1>1, <1>3, <1>4, WatchedShape DEF LibIInv, ScanFacts, ScanShape
<1>7. CASE ReadManifest(c) /\ scan[c].todo # {}
  <2>1. PICK t \in scan[c].todo : scan' = [scan EXCEPT ![c] = AfterManifest(c, t)]
    BY <1>7 DEF ReadManifest
  <2>2. scan'[c] = [step |-> "manifests", todo |-> scan[c].todo \ {t},
                    read |-> IF t \in installed \ unreadable THEN scan[c].read \cup {t}
                             ELSE scan[c].read,
                    whole |-> scan[c].whole, partial |-> scan[c].partial, bytes |-> scan[c].bytes]
    BY <1>5, <1>7, <2>1 DEF AfterManifest, ReadManifest
  <2>3. BeingRead(c)'
    BY <1>1, <1>2, <1>7, <2>2 DEF ReadManifest, LibIInv, ScanFacts, BeingRead, Scanning
  <2>4. ASSUME quiet[c]
        PROVE  ReadInPeace(c)'
    BY <1>1, <1>2, <1>7, <2>2, <2>4
       DEF ReadManifest, LibIInv, ScanFacts, ReadInPeace, Scanning
  <2> QED BY <2>2, <2>3, <2>4
<1>8. CASE ReadManifest(c) /\ scan[c].todo = {}
  <2>1. scan' = [scan EXCEPT ![c].step = "list"] /\ scan[c].step = "manifests"
    BY <1>8 DEF ReadManifest
  <2>2. scan'[c] = [step |-> "list", todo |-> scan[c].todo, read |-> scan[c].read,
                    whole |-> scan[c].whole, partial |-> scan[c].partial, bytes |-> scan[c].bytes]
    BY <1>5, <2>1
  <2>3. BeingRead(c)'
    BY <1>1, <1>2, <1>8, <2>1, <2>2 DEF LibIInv, ScanFacts, BeingRead, Scanning
  <2>4. ASSUME quiet[c]
        PROVE  ReadInPeace(c)'
    BY <1>1, <1>2, <1>8, <2>1, <2>2, <2>4 DEF LibIInv, ScanFacts, ReadInPeace, Scanning
  <2> QED BY <2>2, <2>3, <2>4
<1>9. CASE ListBlobs(c)
  <2>1. scan' = [scan EXCEPT ![c].step = "sizes", ![c].whole = whole, ![c].partial = partial]
        /\ scan[c].step = "list"
    BY <1>9 DEF ListBlobs
  <2>2. scan'[c] = [step |-> "sizes", todo |-> scan[c].todo, read |-> scan[c].read,
                    whole |-> whole, partial |-> partial, bytes |-> scan[c].bytes]
    BY <1>5, <2>1
  <2>3. /\ scan'[c].step = "sizes" /\ scan'[c].read = scan[c].read /\ scan[c].step = "list"
        /\ scan'[c].whole = whole /\ scan'[c].partial = partial
    BY <2>1, <2>2
  <2>4. BeingRead(c)'
    BY <1>1, <1>2, <2>3 DEF LibIInv, ScanFacts, BeingRead, Scanning
  <2>5. ASSUME quiet[c]
        PROVE  ReadInPeace(c)'
    BY <1>1, <1>2, <2>3, <2>5 DEF LibIInv, ScanFacts, ReadInPeace, Scanning
  <2> QED BY <2>2, <2>4, <2>5
<1>10. CASE StatBlobs(c)
  <2> DEFINE total == BytesOf(scan[c].whole \cap whole) + Cardinality(scan[c].partial \cap partial)
  <2>1. scan' = [scan EXCEPT ![c].step = "done", ![c].bytes = total] /\ scan[c].step = "sizes"
    BY <1>10 DEF StatBlobs
  <2>2. quiet[c] => total = BytesOf(scan[c].whole) + Cardinality(scan[c].partial)
    <3>1. SUFFICES ASSUME quiet[c]
                   PROVE  scan[c].whole \cap whole = scan[c].whole
                          /\ scan[c].partial \cap partial = scan[c].partial
      BY Zenon
    <3> QED BY <2>1, <3>1 DEF LibIInv, ScanFacts, ReadInPeace
  <2> HIDE DEF total
  <2>3. scan'[c] = [step |-> "done", todo |-> scan[c].todo, read |-> scan[c].read,
                    whole |-> scan[c].whole, partial |-> scan[c].partial, bytes |-> total]
    BY <1>5, <2>1
  <2>4. BeingRead(c)'
    <3>1. scan'[c].step = "done" /\ scan'[c].read = scan[c].read /\ scan[c].step = "sizes"
      BY <2>1, <2>3
    <3> QED BY <1>1, <1>2, <3>1 DEF LibIInv, ScanFacts, BeingRead, Scanning
  <2>5. ASSUME quiet[c]
        PROVE  ReadInPeace(c)'
    <3>1. scan'[c].bytes = BytesOf(scan'[c].whole) + Cardinality(scan'[c].partial)
      <4>1. scan'[c].bytes = total /\ scan'[c].whole = scan[c].whole
            /\ scan'[c].partial = scan[c].partial
        BY <2>3
      <4> QED BY <2>2, <2>5, <4>1, Zenon
    <3>2. scan'[c].read \subseteq stayed'[c] /\ scan'[c].step = "done"
      BY <1>2, <2>1, <2>3, <2>5 DEF LibIInv, ScanFacts, ReadInPeace
    <3> QED BY <3>1, <3>2 DEF ReadInPeace, Scanning
  <2> QED BY <2>3, <2>4, <2>5
<1> QED BY <1>7, <1>8, <1>9, <1>10 DEF ScanStep

(* Every other step leaves the scans as they are, but for one that answers *)
(* the command it belongs to.                                              *)
LEMMA OtherStepKeeps ==
  ASSUME LibIInv, Watched({}), unreadable' = unreadable,
         scan' = scan \/ scan' = [scan EXCEPT !["delete"] = NoScan]
  PROVE  LibIInv'
<1>1. /\ DOMAIN scan' = ScanCommands
      /\ \A c \in ScanCommands : scan'[c] = scan[c] \/ scan'[c] = NoScan
  BY DEF LibIInv, ScanShape, ScanCommands
<1>2. ASSUME NEW c \in ScanCommands
      PROVE  ScanFacts(c)'
  BY <1>1, BystanderKeeps DEF LibIInv
<1>3. ScanShape'
  BY <1>1, WatchedShape DEF LibIInv, ScanShape, NoScan
<1> QED BY <1>2, <1>3 DEF LibIInv

(* No scan is going on at first.                                           *)
LEMMA LibStarts == LibInit => LibIInv
BY DEF LibInit, LibIInv, ScanShape, ScanFacts, BeingRead, ReadInPeace, Scanning, NoScan,
       ScanCommands

(* Every step keeps what a scan knows of the models that stayed.           *)
LEMMA LibStepKeeps == LibIInv /\ [LibNext]_libVars => LibIInv'
<1> SUFFICES ASSUME LibIInv, [LibNext]_libVars
             PROVE  LibIInv'
  OBVIOUS
<1>1. ASSUME NEW t \in Tags, StartPull(t)
      PROVE  LibIInv'
  BY <1>1, OtherStepKeeps DEF StartPull
<1>2. ASSUME NEW t \in Tags, BeginDelete(t)
      PROVE  LibIInv'
  BY <1>2, WalkKeeps DEF BeginDelete, ScanCommands
<1>3. CASE PullStep \/ PullFails \/ ClientGone
  BY <1>3, OtherStepKeeps
     DEF PullStep, FetchBlob, Install, ReadPullLine, PullBodyEnds, PullFails,
                              ClientGone, PullLine
<1>4. CASE Storage
  BY <1>4, WalkKeeps DEF Storage, ScanCommands
<1>5. ASSUME NEW c \in ScanCommands, ScanStep(c)
      PROVE  LibIInv'
  BY <1>5, ScanStepKeeps
<1>6. CASE CheckInstalled \/ DeleteModel \/ DeleteFails \/ AnswerDelete
  BY <1>6, OtherStepKeeps DEF CheckInstalled, DeleteModel, DeleteFails, AnswerDelete
<1>7. CASE ScanAgain
  BY <1>7, WalkKeeps DEF ScanAgain, ScanCommands
<1>8. CASE UNCHANGED libVars
  <2>1. UNCHANGED <<unreadable, installed, whole, partial, scan, stayed, quiet>>
    BY <1>8 DEF libVars
  <2> QED BY <2>1 DEF LibIInv, ScanShape, ScanFacts, BeingRead, ReadInPeace, Scanning
<1> QED BY <1>1, <1>2, <1>3, <1>4, <1>5, <1>6, <1>7, <1>8 DEF LibNext, DeleteStep

(* What a scan knows makes its report right: an orphan belongs to no model *)
(* that stayed, and a scan that nothing disturbed is exact.                *)
LEMMA ReportsAreExact == LibIInv => OrphansUnused /\ QuietScanExact
<1> SUFFICES ASSUME LibIInv
             PROVE  OrphansUnused /\ QuietScanExact
  OBVIOUS
<1>1. OrphansUnused
  BY DEF LibIInv, ScanFacts, BeingRead, OrphansUnused, Orphans, Referenced
<1>2. QuietScanExact
  <2> SUFFICES ASSUME NEW c \in ScanCommands, scan[c].step = "done", quiet[c], unreadable = {}
               PROVE  /\ \A b \in scan[c].whole :
                           b \in Orphans(c) <=> \A t \in stayed[c] : b \notin BlobsOf[t]
                      /\ \A t \in stayed[c] : BytesOf(UniqueTo(t, scan[c].read)) =
                                              BytesOf(UniqueTo(t, stayed[c]))
                      /\ scan[c].bytes = BytesOf(scan[c].whole) + Cardinality(scan[c].partial)
    BY Zenon DEF QuietScanExact
  <2>1. scan[c].read = stayed[c]
    BY DEF LibIInv, ScanFacts, BeingRead, ReadInPeace
  <2>2. \A b \in scan[c].whole : b \in Orphans(c) <=> \A t \in stayed[c] : b \notin BlobsOf[t]
    BY <2>1 DEF Orphans, Referenced
  <2>3. scan[c].bytes = BytesOf(scan[c].whole) + Cardinality(scan[c].partial)
    BY Zenon DEF LibIInv, ScanFacts, ReadInPeace
  <2> QED BY <2>1, <2>2, <2>3, Zenon
<1> QED BY <1>1, <1>2

-----------------------------------------------------------------------------
PullShape(p) ==
  p = [tag |-> p.tag, ollama |-> p.ollama, made |-> p.made, lines |-> p.lines,
       server |-> p.server, connected |-> p.connected, failed |-> p.failed, shown |-> p.shown]
PullLines == {"progress", "success", "error"}
PullIInv ==
  /\ PullShape(pull) /\ pull.lines \in Seq(PullLines)
  /\ {pull.made, pull.failed, pull.connected} \subseteq BOOLEAN
  /\ pull.ollama \in {"running", "ended"} /\ pull.server \in {"reading", "ended"}
  /\ pull.ollama = "running" => pull.server = "reading"
  /\ pull.server = "reading" => pull.shown # "success"
  /\ pull.server = "reading" /\ pull.ollama = "ended" =>
       pull.made \/ pull.failed \/ \E i \in 1..Len(pull.lines) : pull.lines[i] = "error"
  /\ SuccessIsInstalled

(* No pull is going on at first.                                           *)
LEMMA PullStarts == LibInit => PullIInv
<1> SUFFICES ASSUME LibInit
             PROVE  PullIInv
  OBVIOUS
<1>1. \E t : pull = [tag |-> t, ollama |-> "ended", made |-> FALSE, lines |-> <<>>,
                     server |-> "ended", connected |-> TRUE, failed |-> FALSE, shown |-> "nothing"]
  BY DEF LibInit
<1> QED BY <1>1 DEF PullIInv, PullShape, SuccessIsInstalled

(* Ollama writes a line.                                                   *)
LEMMA LineKeeps ==
  ASSUME PullIInv, NEW kind \in PullLines, NEW ends \in BOOLEAN, NEW made \in BOOLEAN,
         PullLine(kind, ends, made), ends => made \/ kind = "error"
  PROVE  PullIInv'
<1>1. /\ pull' = [tag |-> pull.tag, ollama |-> IF ends THEN "ended" ELSE pull.ollama,
                  made |-> made, lines |-> Append(pull.lines, kind), server |-> pull.server,
                  connected |-> pull.connected, failed |-> pull.failed, shown |-> pull.shown]
      /\ pull.ollama = "running"
  BY DEF PullLine, PullIInv, PullShape
<1>2. Append(pull.lines, kind) \in Seq(PullLines) /\ Len(pull.lines) \in Nat
      /\ Len(Append(pull.lines, kind)) = Len(pull.lines) + 1
      /\ Append(pull.lines, kind)[Len(pull.lines) + 1] = kind
  BY DEF PullIInv
<1>3. ends /\ ~made => \E i \in 1..Len(pull'.lines) : pull'.lines[i] = "error"
  BY <1>1, <1>2
<1> QED BY <1>1, <1>2, <1>3 DEF PullIInv, PullShape, SuccessIsInstalled

(* The server reads a line; it shows success only of a pull that was not   *)
(* refused.                                                                *)
LEMMA ReadLineKeeps ==
  ASSUME PullIInv, ReadPullLine
  PROVE  PullIInv'
<1>1. CASE ~pull.connected
  <2>1. pull' = [tag |-> pull.tag, ollama |-> "ended", made |-> pull.made, lines |-> <<>>,
                 server |-> "ended", connected |-> pull.connected, failed |-> pull.failed,
                 shown |-> pull.shown]
    BY <1>1 DEF ReadPullLine, PullIInv, PullShape
  <2>2. pull.shown # "success"
    BY DEF ReadPullLine, PullIInv
  <2> QED BY <2>1, <2>2 DEF PullIInv, PullShape, SuccessIsInstalled
<1>2. CASE pull.connected
  <2> DEFINE line == Head(pull.lines)
             rest == Tail(pull.lines)
             bad == pull.failed \/ line = "error"
  <2>1. pull' = [tag |-> pull.tag, ollama |-> pull.ollama, made |-> pull.made, lines |-> rest,
                 server |-> pull.server, connected |-> pull.connected, failed |-> bad,
                 shown |-> pull.shown]
    BY <1>2 DEF ReadPullLine, Printed, PullIInv, PullShape
  <2>2. /\ rest \in Seq(PullLines) /\ Len(pull.lines) \in Nat \ {0} /\ line = pull.lines[1]
        /\ Len(rest) = Len(pull.lines) - 1
        /\ \A i \in 1..Len(rest) : rest[i] = pull.lines[i + 1]
    BY DEF ReadPullLine, PullIInv
  <2>3. bad \in BOOLEAN
    OBVIOUS
  <2>4. ASSUME NEW i \in 1..Len(pull.lines), pull.lines[i] = "error", line # "error"
        PROVE  \E j \in 1..Len(rest) : rest[j] = "error"
    <3>1. i - 1 \in 1..Len(rest) /\ rest[i - 1] = pull.lines[i]
      BY <2>2, <2>4
    <3> QED BY <3>1, <2>4
  <2>5. pull.server = "reading" /\ pull.ollama = "ended" =>
          pull.made \/ bad \/ \E j \in 1..Len(rest) : rest[j] = "error"
    BY <2>4 DEF PullIInv
  <2> HIDE DEF line, rest, bad
  <2> QED BY <2>1, <2>2, <2>3, <2>5 DEF PullIInv, PullShape, SuccessIsInstalled
<1>3. pull.connected \in BOOLEAN
  BY DEF PullIInv
<1> QED BY <1>1, <1>2, <1>3

(* The body ends without an error only if the manifest was written.        *)
LEMMA BodyEndKeeps ==
  ASSUME PullIInv, PullBodyEnds
  PROVE  PullIInv'
<1> DEFINE shown == IF ~pull.connected \/ pull.failed THEN "failure" ELSE "success"
<1>1. pull' = [tag |-> pull.tag, ollama |-> pull.ollama, made |-> pull.made, lines |-> pull.lines,
               server |-> "ended", connected |-> pull.connected, failed |-> pull.failed,
               shown |-> shown]
  BY DEF PullBodyEnds, PullIInv, PullShape
<1>2. shown = "success" => pull.made
  BY DEF PullBodyEnds, PullIInv
<1>3. pull.ollama = "ended"
  BY DEF PullBodyEnds
<1> HIDE DEF shown
<1> QED BY <1>1, <1>2, <1>3 DEF PullIInv, PullShape, SuccessIsInstalled

(* No other step touches the pull.                                         *)
LEMMA PullStepKeeps == PullIInv /\ [LibNext]_libVars => PullIInv'
<1> SUFFICES ASSUME PullIInv, [LibNext]_libVars
             PROVE  PullIInv'
  OBVIOUS
<1>1. ASSUME NEW t \in Tags, StartPull(t)
      PROVE  PullIInv'
  BY <1>1 DEF StartPull, PullIInv, PullShape, SuccessIsInstalled
<1>2. ASSUME NEW t \in Tags, NEW b \in BlobsOf[t], FetchBlob(b)
      PROVE  PullIInv'
  BY <1>2, LineKeeps DEF FetchBlob, PullLines
<1>3. CASE Install
  BY <1>3, LineKeeps DEF Install, PullLines
<1>4. CASE PullFails
  BY <1>4, LineKeeps DEF PullFails, PullLines
<1>5. CASE ReadPullLine
  BY <1>5, ReadLineKeeps
<1>6. CASE PullBodyEnds
  BY <1>6, BodyEndKeeps
<1>7. CASE ClientGone
  <2>1. pull' = [tag |-> pull.tag, ollama |-> pull.ollama, made |-> pull.made,
                 lines |-> pull.lines, server |-> pull.server, connected |-> FALSE,
                 failed |-> pull.failed, shown |-> "failure"]
    BY <1>7 DEF ClientGone, PullIInv, PullShape
  <2> QED BY <2>1 DEF PullIInv, PullShape, SuccessIsInstalled
<1>8. CASE UNCHANGED pull
  BY <1>8 DEF PullIInv, PullShape, SuccessIsInstalled
<1>9. UNCHANGED pull \/ (\E t \in Tags : StartPull(t)) \/ PullStep \/ PullFails \/ ClientGone
  BY DEF LibNext, libVars, BeginDelete, Storage, ScanStep, ReadManifest, ListBlobs,
         StatBlobs,
         DeleteStep, CheckInstalled, DeleteModel, DeleteFails, ScanAgain, AnswerDelete
<1> QED BY <1>1, <1>2, <1>3, <1>4, <1>5, <1>6, <1>7, <1>8, <1>9 DEF PullStep

(* What is known of scans and of the pull gives LibraryInv.                *)
LEMMA LibraryFactsMean == LibIInv /\ PullIInv => LibraryInv
BY ReportsAreExact DEF PullIInv, LibraryInv

(* For any models, blobs and manifests, and any pulls and deletions        *)
(* between the steps of a scan: no blob of a model that stayed is called   *)
(* an orphan, a scan that nothing disturbed is exact, and success is shown *)
(* only of a model that is there (printModelStorage, pullModel).           *)
THEOREM LibraryIsReported == LibInit /\ [][LibNext]_libVars => []LibraryInv
BY LibraryFactsMean, LibStarts, LibStepKeeps, PullStarts, PullStepKeeps, PTL

-----------------------------------------------------------------------------
(* The calls of a task to its models: compaction, the REASON phase, the    *)
(* provider and model of a call (agentTurn.ts). CallsInv is a conjunction  *)
(* of three inductive parts.                                               *)

(* What a task does in a step.                                             *)
CallSteps == {"model", "provider", "context", "loop"} \cup Calling \cup Ended
HistoryKinds == {"call", "result", "note", "answer", "summary", "elided"}
ChoiceStands == ~switched \/ NotSet \notin {over.provider, over.model}
MostCalls(passes) == (effort.rounds + 1) + passes * (effort.rounds + 2)
CallsWaiting == IF inCall = NotSent THEN 0 ELSE 1

HistoryFacts ==
  /\ history \in Seq(HistoryKinds)
  /\ agentStep = "compact" => Compactable
  /\ FitsOrShort /\ OneSummary

ReasonFacts ==
  /\ effort.rounds \in Nat /\ effort.passes \in Nat
  /\ reason \in [mode : {"first", "refine", "verify"}, round : Nat, pass : Nat]
  /\ reasoned \in Nat
  /\ agentStep # "reason" => reasoned = 0 /\ reason = NoReason
  /\ reason.mode = "first" =>
       reason.round <= effort.rounds /\ reasoned <= reason.round + CallsWaiting
  /\ reason.mode = "verify" =>
       reason.pass < effort.passes /\ reason.round = 0
       /\ reasoned <= MostCalls(reason.pass) + CallsWaiting
  /\ reason.mode = "refine" =>
       reason.pass < effort.passes /\ reason.round <= effort.rounds
       /\ reasoned <= MostCalls(reason.pass) + 1 + reason.round + CallsWaiting

LookupFacts ==
  /\ agentStep \in CallSteps
  /\ DOMAIN planned = {"provider", "model"}
  /\ lookup # NotSet => agentStep \in Calling /\ inCall = NotSent
  /\ inCall # NotSent => agentStep \in Calling
  /\ assigned.provider \in offered \cup {Native}
  /\ lookup # NotSet /\ over.provider = NotSet /\ ~switchedHere => lookup \in offered \cup {Native}
  /\ ChoiceStands =>
       /\ agentStep \in {"provider", "context", "loop"} \cup Calling => planned.model = ChosenModel
       /\ agentStep \in {"context", "loop"} \cup Calling => planned.provider = ChosenProvider
       /\ agentStep \in {"loop"} \cup Calling => agentModel = ChosenModel
       /\ lookup # NotSet => lookup = ChosenProvider
  /\ CallsAreConfigured /\ FoundUnlessSwitched

-----------------------------------------------------------------------------
(* What a call of the REASON phase leads to.                               *)
LEMMA ReasonedGoesOn ==
  ASSUME reason.mode \in {"first", "refine", "verify"},
         NEW said \in Said, NEW finishing \in BOOLEAN, Reasoned(said, finishing)
  PROVE  \/ /\ reason.mode # "verify" /\ ~RoundsOver
            /\ agentStep' = "reason" /\ reason' = [reason EXCEPT !.round = @ + 1]
         \/ reason.mode = "first" /\ (Verify(0) \/ (agentStep' = "act" /\ reason' = NoReason))
         \/ reason.mode \in {"refine", "verify"} /\ Verify(reason.pass + 1)
         \/ /\ reason.mode = "verify"
            /\ agentStep' = "reason" /\ reason' = [reason EXCEPT !.mode = "refine"]
<1>1. agentStep = "reason"
  BY DEF Reasoned
<1>2. CASE reason.mode # "verify" /\ ~Exits(said) /\ ~RoundsOver
  BY <1>1, <1>2 DEF Reasoned
<1>3. CASE reason.mode = "first" /\ (Exits(said) \/ RoundsOver)
  <2>1. IF finishing THEN Verify(0) ELSE agentStep' = "act" /\ reason' = NoReason
    BY <1>3 DEF Reasoned
  <2> QED BY <1>3, <2>1
<1>4. CASE reason.mode = "refine" /\ (Exits(said) \/ RoundsOver)
  BY <1>4 DEF Reasoned
<1>5. CASE reason.mode = "verify" /\ Exits(said)
  BY <1>5 DEF Reasoned
<1>6. CASE reason.mode = "verify" /\ ~Exits(said)
  BY <1>1, <1>6 DEF Reasoned
<1> QED BY <1>2, <1>3, <1>4, <1>5, <1>6

(* A task starts without a call or a lookup.                               *)
LEMMA LookupStarts == CallsInit => LookupFacts
BY DEF CallsInit, LookupFacts, CallSteps, Calling, Assignments, CallsAreConfigured,
       FoundUnlessSwitched, ChoiceStands, NotSet, NotSent

(* Between the two reads of a lookup the configuration may change; what a  *)
(* task reads is its own choice or the role's of that moment.              *)
LEMMA LookupKeeps ==
  ASSUME LookupFacts, ReasonFacts, [CallsNext]_callVars
  PROVE  LookupFacts'
<1> USE DEF LookupFacts, CallSteps, Calling, Ended, CallsAreConfigured,
            FoundUnlessSwitched, ChoiceStands,
            ChosenModel, ChosenProvider, configurationVars
<1>0. reason.mode \in {"first", "refine", "verify"}
  BY DEF ReasonFacts
<1>1. CASE ReadModel
  BY <1>1 DEF ReadModel
<1>2. CASE ReadProvider
  BY <1>2 DEF ReadProvider
<1>3. CASE StartTurn
  BY <1>3 DEF StartTurn
<1>4. CASE Iterate
  BY <1>4 DEF Iterate, AfterCompaction
<1>5. CASE NameProvider
  BY <1>5 DEF NameProvider
<1>6. CASE FindProvider
  BY <1>6 DEF FindProvider, SentWindow, Window
<1>7. CASE Unconfigured
  BY <1>7 DEF Unconfigured, Fallback, AfterCompaction
<1>8. CASE CallFails
  BY <1>8 DEF CallFails, Fallback, AfterCompaction
<1>9. CASE CallAborted
  BY <1>9 DEF CallAborted
<1>10. CASE Summarised
  BY <1>10 DEF Summarised, AfterCompaction
<1>11. CASE Act
  BY <1>11 DEF Act, Acts, LastAnswer, NextIteration
<1>12. ASSUME NEW said \in Said, NEW finishing \in BOOLEAN, Reasoned(said, finishing)
       PROVE  LookupFacts'
  <2>1. agentStep' \in {"reason", "act"}
    BY <1>0, <1>12, ReasonedGoesOn DEF Verify
  <2> QED BY <1>12, <2>1 DEF Reasoned
<1>13. CASE Cancel
  BY <1>13 DEF Cancel
<1>14. CASE OthersSwitch
  BY <1>14 DEF OthersSwitch, Switch, RemoveUnused
<1>15. CASE UNCHANGED callVars
  BY <1>15 DEF callVars
<1> QED BY <1>1, <1>2, <1>3, <1>4, <1>5, <1>6, <1>7, <1>8, <1>9, <1>10, <1>11, <1>12,
           <1>13, <1>14,
           <1>15 DEF CallsNext, CallStep

-----------------------------------------------------------------------------
(* A pass more has its rounds, and no pass goes beyond the last.           *)
LEMMA PassHasRounds ==
  ASSUME NEW rounds \in Nat, NEW pass \in Nat
  PROVE  /\ pass * (rounds + 2) \in Nat
         /\ (pass + 1) * (rounds + 2) = pass * (rounds + 2) + (rounds + 2)
         /\ 0 * (rounds + 2) = 0
BY SMT

(* More passes take no fewer calls.                                        *)
LEMMA PassesGrow ==
  ASSUME NEW rounds \in Nat, NEW pass \in Nat, NEW most \in Nat, pass <= most
  PROVE  pass * (rounds + 2) <= most * (rounds + 2)
<1>1. PICK d \in Nat : most = pass + d
  BY SMT
<1>2. d * (rounds + 2) \in Nat /\ pass * (rounds + 2) \in Nat
  BY SMT
<1>3. (pass + d) * (rounds + 2) = pass * (rounds + 2) + d * (rounds + 2)
  BY SMT
<1> QED BY <1>1, <1>2, <1>3, SMT

(* How many calls so many passes can take, as a sum.                       *)
LEMMA MostCallsGrow ==
  ASSUME ReasonFacts
  PROVE  /\ MostCalls(0) = effort.rounds + 1
         /\ \A pass \in Nat :
              /\ MostCalls(pass) \in Nat
              /\ MostCalls(pass + 1) = MostCalls(pass) + 1 + (effort.rounds + 1)
              /\ pass <= effort.passes => MostCalls(pass) <= MostCalls(effort.passes)
<1> DEFINE rounds == effort.rounds
           most == effort.passes
<1>1. rounds \in Nat /\ most \in Nat
  BY DEF ReasonFacts
<1>2. \A pass \in Nat :
        /\ pass * (rounds + 2) \in Nat
        /\ (pass + 1) * (rounds + 2) = pass * (rounds + 2) + (rounds + 2)
  BY <1>1, PassHasRounds
<1>3. 0 * (rounds + 2) = 0
  BY <1>1, PassHasRounds
<1>4. \A pass \in Nat : pass <= most => pass * (rounds + 2) <= most * (rounds + 2)
  BY <1>1, PassesGrow
<1> DEFINE times(pass) == pass * (rounds + 2)
<1>5. /\ times(0) = 0
      /\ \A pass \in Nat :
           /\ times(pass) \in Nat /\ times(pass + 1) = times(pass) + (rounds + 2)
           /\ pass <= most => times(pass) <= times(most)
  BY <1>2, <1>3, <1>4
<1>6. \A pass : MostCalls(pass) = (rounds + 1) + times(pass)
  BY DEF MostCalls
<1>7. /\ MostCalls(0) = (rounds + 1) + times(0)
      /\ MostCalls(most) = (rounds + 1) + times(most)
      /\ \A pass \in Nat : /\ MostCalls(pass) = (rounds + 1) + times(pass)
                           /\ MostCalls(pass + 1) = (rounds + 1) + times(pass + 1)
  BY <1>6
<1>8. MostCalls(0) = effort.rounds + 1
  BY <1>1, <1>5, <1>7
<1>9. ASSUME NEW pass \in Nat
      PROVE  /\ MostCalls(pass) \in Nat
             /\ MostCalls(pass + 1) = MostCalls(pass) + 1 + (effort.rounds + 1)
             /\ pass <= effort.passes => MostCalls(pass) <= MostCalls(effort.passes)
  <2>1. /\ MostCalls(pass) = (rounds + 1) + times(pass) /\ times(pass) \in Nat
        /\ MostCalls(pass + 1) = (rounds + 1) + times(pass + 1)
        /\ times(pass + 1) = times(pass) + (rounds + 2)
        /\ pass <= most => times(pass) <= times(most)
        /\ MostCalls(most) = (rounds + 1) + times(most) /\ times(most) \in Nat
    BY <1>1, <1>5, <1>7
  <2> HIDE DEF times
  <2> QED BY <1>1, <2>1
<1> QED BY <1>8, <1>9

(* The REASON phase has not begun.                                         *)
LEMMA ReasonStarts == CallsInit => ReasonFacts
<1> SUFFICES ASSUME CallsInit
             PROVE  ReasonFacts
  OBVIOUS
<1>1. effort.rounds \in Nat /\ effort.passes \in Nat
  BY CallsAssumption DEF CallsInit, OwnEffort
<1> QED BY <1>1 DEF CallsInit, ReasonFacts, NoReason, CallsWaiting, NotSent

(* A verification begins with the calls of the passes before it used up at *)
(* most.                                                                   *)
LEMMA VerifyKeeps ==
  ASSUME ReasonFacts, NEW pass \in Nat, Verify(pass), effort' = effort, inCall' = NotSent,
         reasoned <= MostCalls(pass),
         reasoned' = IF agentStep' = "reason" THEN reasoned ELSE 0
  PROVE  ReasonFacts'
<1>1. reasoned \in Nat /\ effort.rounds \in Nat /\ effort.passes \in Nat
  BY DEF ReasonFacts
<1>2. \A n \in Nat : MostCalls(n)' = MostCalls(n)
  BY DEF MostCalls
<1>3. MostCalls(pass) \in Nat
  BY MostCallsGrow
<1>4. CASE pass < effort.passes
  <2>1. agentStep' = "reason" /\ reason' = [mode |-> "verify", round |-> 0, pass |-> pass]
    BY <1>4 DEF Verify
  <2>2. reasoned' = reasoned
    BY <2>1
  <2> QED BY <1>1, <1>2, <1>3, <1>4, <2>1, <2>2 DEF ReasonFacts, CallsWaiting
<1>5. CASE ~(pass < effort.passes)
  <2>1. agentStep' = "act" /\ reason' = NoReason
    BY <1>5 DEF Verify
  <2>2. reasoned' = 0
    BY <2>1
  <2> QED BY <1>1, <2>1, <2>2 DEF ReasonFacts, CallsWaiting, NoReason
<1> QED BY <1>4, <1>5

(* An answer of the REASON phase moves to another round or pass within its *)
(* bound, or to acting.                                                    *)
LEMMA ReasonedKeeps ==
  ASSUME ReasonFacts, NEW said \in Said, NEW finishing \in BOOLEAN, Reasoned(said, finishing)
  PROVE  ReasonFacts'
<1>1. /\ reasoned \in Nat /\ effort.rounds \in Nat /\ effort.passes \in Nat
      /\ reason \in [mode : {"first", "refine", "verify"}, round : Nat, pass : Nat]
  BY DEF ReasonFacts
<1>2. /\ effort' = effort /\ inCall' = NotSent /\ CallsWaiting = 1 /\ agentStep = "reason"
      /\ reasoned' = IF agentStep' = "reason" THEN reasoned ELSE 0
  BY DEF Reasoned, CallsWaiting
<1>3. /\ MostCalls(0) = effort.rounds + 1
      /\ \A pass \in Nat : /\ MostCalls(pass) \in Nat /\ MostCalls(pass)' = MostCalls(pass)
                           /\ MostCalls(pass + 1) = MostCalls(pass) + 1 + (effort.rounds + 1)
  BY <1>2, MostCallsGrow DEF MostCalls
<1>4. CASE /\ reason.mode # "verify" /\ ~RoundsOver
           /\ agentStep' = "reason" /\ reason' = [reason EXCEPT !.round = @ + 1]
  <2>1. /\ reason'.mode = reason.mode /\ reason'.round = reason.round + 1 /\ reason'.pass = reason.pass
        /\ reason' \in [mode : {"first", "refine", "verify"}, round : Nat, pass : Nat]
        /\ reason.round + 1 <= effort.rounds /\ reasoned' = reasoned
    BY <1>1, <1>2, <1>4 DEF RoundsOver
  <2> QED BY <1>1, <1>2, <1>3, <1>4, <2>1 DEF ReasonFacts, CallsWaiting
<1>5. CASE reason.mode = "first"
  <2>1. reasoned <= MostCalls(0)
    BY <1>1, <1>2, <1>3, <1>5 DEF ReasonFacts
  <2>2. CASE Verify(0)
    BY <1>2, <2>1, <2>2, VerifyKeeps
  <2>3. CASE agentStep' = "act" /\ reason' = NoReason
    BY <1>1, <1>2, <2>3 DEF ReasonFacts, CallsWaiting, NoReason
  <2> QED BY <1>1, <1>4, <1>5, <2>2, <2>3, ReasonedGoesOn
<1>6. CASE reason.mode \in {"refine", "verify"} /\ Verify(reason.pass + 1)
  <2>1. reasoned <= MostCalls(reason.pass + 1) /\ reason.pass + 1 \in Nat
    BY <1>1, <1>2, <1>3, <1>6 DEF ReasonFacts
  <2> QED BY <1>2, <1>6, <2>1, VerifyKeeps
<1>7. CASE /\ reason.mode = "verify"
           /\ agentStep' = "reason" /\ reason' = [reason EXCEPT !.mode = "refine"]
  <2>1. /\ reason'.mode = "refine" /\ reason'.round = reason.round /\ reason'.pass = reason.pass
        /\ reason' \in [mode : {"first", "refine", "verify"}, round : Nat, pass : Nat]
        /\ reasoned' = reasoned
    BY <1>1, <1>2, <1>7
  <2> QED BY <1>1, <1>2, <1>3, <1>7, <2>1 DEF ReasonFacts, CallsWaiting
<1> QED BY <1>1, <1>4, <1>5, <1>6, <1>7, ReasonedGoesOn

(* Every step keeps the count of the calls within rounds and passes.       *)
LEMMA ReasonKeeps ==
  ASSUME ReasonFacts, LookupFacts, [CallsNext]_callVars
  PROVE  ReasonFacts'
<1>1. /\ effort.rounds \in Nat /\ effort.passes \in Nat /\ reasoned \in Nat
      /\ \A pass \in Nat : MostCalls(pass) \in Nat
  BY MostCallsGrow DEF ReasonFacts
<1>2. ASSUME effort' = effort, reasoned' = 0, reason' = NoReason
      PROVE  ReasonFacts'
  BY <1>1, <1>2 DEF ReasonFacts, NoReason, CallsWaiting
<1>3. ASSUME effort' = effort, UNCHANGED <<reason, reasoned, inCall>>,
             agentStep' = agentStep \/ agentStep # "reason"
      PROVE  ReasonFacts'
  <2>1. CallsWaiting' = CallsWaiting /\ \A pass \in Nat : MostCalls(pass)' = MostCalls(pass)
    BY <1>3 DEF CallsWaiting, MostCalls
  <2> QED BY <1>3, <2>1 DEF ReasonFacts
<1>4. CASE ReadModel \/ ReadProvider \/ StartTurn \/ Iterate \/ NameProvider \/ Cancel \/ OthersSwitch
           \/ UNCHANGED callVars
  BY <1>3, <1>4
     DEF ReadModel, ReadProvider, StartTurn, Iterate, NameProvider, Cancel,
         OthersSwitch,
                    callVars
<1>5. CASE FindProvider
  <2>1. /\ effort' = effort /\ reason' = reason /\ agentStep' = agentStep /\ inCall' # NotSent
        /\ inCall = NotSent
        /\ reasoned' = IF agentStep = "reason" THEN reasoned + 1 ELSE reasoned
    BY <1>5 DEF FindProvider, NotSent, LookupFacts
  <2>2. CallsWaiting = 0 /\ CallsWaiting' = 1 /\ \A pass \in Nat : MostCalls(pass)' = MostCalls(pass)
    BY <2>1 DEF CallsWaiting, MostCalls
  <2>3. CASE agentStep = "reason"
    BY <1>1, <2>1, <2>2, <2>3 DEF ReasonFacts
  <2>4. CASE agentStep # "reason"
    BY <1>1, <2>1, <2>2, <2>4 DEF ReasonFacts
  <2> QED BY <2>3, <2>4
<1>6. CASE Unconfigured \/ CallFails
  BY <1>2, <1>6 DEF Unconfigured, CallFails, Fallback
<1>7. CASE CallAborted
  BY <1>2, <1>7 DEF CallAborted
<1>8. CASE Summarised \/ Act
  <2>1. effort' = effort /\ UNCHANGED <<reason, reasoned>> /\ agentStep # "reason"
    BY <1>8 DEF Summarised, Act, Acts, LastAnswer
  <2>2. reasoned = 0 /\ reason = NoReason
    BY <2>1 DEF ReasonFacts
  <2> QED BY <1>1, <2>1, <2>2 DEF ReasonFacts, NoReason, CallsWaiting
<1>9. ASSUME NEW said \in Said, NEW finishing \in BOOLEAN, Reasoned(said, finishing)
      PROVE  ReasonFacts'
  BY <1>9, ReasonedKeeps
<1> QED BY <1>4, <1>5, <1>6, <1>7, <1>8, <1>9 DEF CallsNext, CallStep

(* The count of any pass is within that of all passes.                     *)
LEMMA ReasonIsBounded == ReasonFacts => ReasonBounded
<1> SUFFICES ASSUME ReasonFacts
             PROVE  reasoned <= MostCalls(effort.passes)
  BY DEF ReasonBounded, MostCalls
<1>1. /\ effort.rounds \in Nat /\ effort.passes \in Nat /\ reasoned \in Nat
      /\ reason \in [mode : {"first", "refine", "verify"}, round : Nat, pass : Nat]
      /\ CallsWaiting \in {0, 1}
  BY DEF ReasonFacts, CallsWaiting
<1>2. /\ MostCalls(0) = effort.rounds + 1
      /\ \A pass \in Nat :
           /\ MostCalls(pass) \in Nat
           /\ MostCalls(pass + 1) = MostCalls(pass) + 1 + (effort.rounds + 1)
           /\ pass <= effort.passes => MostCalls(pass) <= MostCalls(effort.passes)
  BY MostCallsGrow
<1>3. CASE reason.mode = "first"
  BY <1>1, <1>2, <1>3 DEF ReasonFacts
<1>4. CASE reason.mode # "first"
  <2>1. reason.pass + 1 \in Nat /\ reason.pass + 1 <= effort.passes
    BY <1>1, <1>4 DEF ReasonFacts
  <2>2. reasoned <= MostCalls(reason.pass + 1)
    BY <1>1, <1>2, <1>4 DEF ReasonFacts
  <2> QED BY <1>1, <1>2, <2>1, <2>2
<1> QED BY <1>3, <1>4

-----------------------------------------------------------------------------
(* What follows the seed and holds no summary but in front.                *)
SummaryFirst(h) == \A i \in DOMAIN h : h[i] \in {"summary", "elided"} => i = 1

(* A compaction leaves one message in front of the most recent ones.       *)
LEMMA CompactedIsShort ==
  ASSUME history \in Seq(HistoryKinds), SummaryFirst(history), Compactable, NEW kind \in HistoryKinds
  PROVE  /\ Compacted(kind) \in Seq(HistoryKinds) /\ Len(Compacted(kind)) = KeepRecent + 1
         /\ SummaryFirst(Compacted(kind))
<1> DEFINE n == Len(history)
           recent == SubSeq(history, n - KeepRecent + 1, n)
<1>1. n \in Nat /\ KeepRecent \in Nat /\ n > KeepRecent /\ n - KeepRecent + 1 \in 2..(n + 1)
  BY CallsAssumption DEF Compactable
<1>2. /\ recent \in Seq(HistoryKinds) /\ Len(recent) = KeepRecent
      /\ \A i \in 1..KeepRecent : recent[i] = history[n - KeepRecent + i]
  BY <1>1
<1>3. \A i \in 1..KeepRecent : recent[i] \notin {"summary", "elided"}
  BY <1>1, <1>2 DEF SummaryFirst
<1> HIDE DEF recent, n
<1>4. /\ <<kind>> \o recent \in Seq(HistoryKinds) /\ Len(<<kind>> \o recent) = KeepRecent + 1
      /\ \A i \in 1..(KeepRecent + 1) : i # 1 => (<<kind>> \o recent)[i] = recent[i - 1]
  BY <1>1, <1>2
<1>5. SummaryFirst(<<kind>> \o recent)
  <2> SUFFICES ASSUME NEW i \in DOMAIN (<<kind>> \o recent), i # 1
               PROVE  (<<kind>> \o recent)[i] \notin {"summary", "elided"}
    BY DEF SummaryFirst
  <2>1. i \in 1..(KeepRecent + 1) /\ i - 1 \in 1..KeepRecent
    BY <1>1, <1>4
  <2> QED BY <1>3, <1>4, <2>1
<1>6. Compacted(kind) = <<kind>> \o recent
  BY DEF Compacted, recent, n
<1> QED BY <1>4, <1>5, <1>6

(* A turn adds no summaries.                                               *)
LEMMA AddedKeepsSummaryFirst ==
  ASSUME history \in Seq(HistoryKinds), SummaryFirst(history),
         NEW added \in Seq(HistoryKinds \ {"summary", "elided"})
  PROVE  history \o added \in Seq(HistoryKinds) /\ SummaryFirst(history \o added)
<1>1. added \in Seq(HistoryKinds) /\ history \o added \in Seq(HistoryKinds)
  OBVIOUS
<1>2. /\ Len(history) \in Nat /\ Len(added) \in Nat
      /\ DOMAIN (history \o added) = 1..(Len(history) + Len(added))
      /\ DOMAIN history = 1..Len(history)
  BY <1>1
<1> SUFFICES ASSUME NEW i \in DOMAIN (history \o added), i # 1
             PROVE  (history \o added)[i] \notin {"summary", "elided"}
  BY <1>1 DEF SummaryFirst
<1>3. CASE i <= Len(history)
  <2>1. i \in DOMAIN history /\ (history \o added)[i] = history[i]
    BY <1>1, <1>2, <1>3
  <2> QED BY <2>1 DEF SummaryFirst
<1>4. CASE ~(i <= Len(history))
  <2>1. i - Len(history) \in 1..Len(added) /\ (history \o added)[i] = added[i - Len(history)]
    BY <1>1, <1>2, <1>4
  <2>2. added[i - Len(history)] \in HistoryKinds \ {"summary", "elided"}
    BY <2>1
  <2> QED BY <2>1, <2>2
<1> QED BY <1>3, <1>4

(* A history starts without a summary.                                     *)
LEMMA HistoryStarts == CallsInit => HistoryFacts
BY DEF CallsInit, HistoryFacts, FitsOrShort, OneSummary

(* Every step keeps the history short or within its share, with one        *)
(* summary at most.                                                        *)
LEMMA HistoryKeeps ==
  ASSUME HistoryFacts, ReasonFacts, LookupFacts, [CallsNext]_callVars
  PROVE  HistoryFacts'
<1>1. history \in Seq(HistoryKinds) /\ SummaryFirst(history)
  BY DEF HistoryFacts, OneSummary, SummaryFirst
<1>2. ASSUME history' = history, agentStep' \notin {"compact", "reason", "act"}
      PROVE  HistoryFacts'
  BY <1>1, <1>2 DEF HistoryFacts, FitsOrShort, OneSummary
<1>3. ASSUME history' = history, planned' = planned,
             agentStep' = agentStep \/ {agentStep, agentStep'} \subseteq {"reason", "act"}
      PROVE  HistoryFacts'
  <2>1. ShouldCompact' = ShouldCompact
    BY <1>3 DEF ShouldCompact, Estimate, CallBudget, Window
  <2> QED BY <1>3, <2>1 DEF HistoryFacts, FitsOrShort, OneSummary, Compactable
<1>4. ASSUME NEW kind \in HistoryKinds, history' = Compacted(kind), agentStep = "compact",
             agentStep' \in {"reason", "act"}
      PROVE  HistoryFacts'
  <2>1. Compactable
    BY <1>4 DEF HistoryFacts
  <2>2. /\ history' \in Seq(HistoryKinds) /\ Len(history') = KeepRecent + 1 /\ SummaryFirst(history)'
    BY <1>1, <1>4, <2>1, CompactedIsShort DEF SummaryFirst
  <2> QED BY <1>4, <2>2, CallsAssumption DEF HistoryFacts, FitsOrShort, OneSummary,
             SummaryFirst
<1>5. CASE ReadModel \/ ReadProvider \/ StartTurn
  BY <1>2, <1>5 DEF ReadModel, ReadProvider, StartTurn
<1>6. CASE Iterate
  <2>1. history' = history /\ planned' = planned
    BY <1>6 DEF Iterate
  <2>2. ShouldCompact' = ShouldCompact /\ Compactable' = Compactable
    BY <2>1 DEF ShouldCompact, Estimate, CallBudget, Window, Compactable
  <2>3. CASE aborting
    BY <1>2, <1>6, <2>1, <2>3 DEF Iterate
  <2>4. CASE ~aborting /\ ShouldCompact /\ Compactable
    <3>1. agentStep' = "compact"
      BY <1>6, <2>4 DEF Iterate
    <3> QED BY <1>1, <2>1, <2>2, <2>4, <3>1 DEF HistoryFacts, FitsOrShort, OneSummary
  <2>5. CASE ~aborting /\ ~(ShouldCompact /\ Compactable)
    <3>1. agentStep' \in {"reason", "act"}
      BY <1>6, <2>5 DEF Iterate, AfterCompaction
    <3>2. ~ShouldCompact \/ Len(history) <= KeepRecent + 1
      BY <1>1, <2>5, CallsAssumption DEF Compactable
    <3> QED BY <1>1, <2>1, <2>2, <3>1, <3>2 DEF HistoryFacts, FitsOrShort, OneSummary
  <2> QED BY <2>3, <2>4, <2>5
<1>7. CASE NameProvider \/ FindProvider \/ Cancel \/ UNCHANGED callVars
  BY <1>3, <1>7 DEF NameProvider, FindProvider, Cancel, callVars
<1>8. CASE Unconfigured \/ CallFails
  <2>1. /\ agentStep \in {"compact", "reason", "act"} /\ planned' = planned
        /\ \/ agentStep = "compact" /\ history' = Compacted("elided") /\ agentStep' = AfterCompaction
           \/ agentStep = "reason" /\ agentStep' = "act" /\ history' = history
           \/ agentStep' \in {"unconfigured", "failed"} /\ history' = history
    BY <1>8 DEF Unconfigured, CallFails, Fallback, LookupFacts, Calling
  <2> QED BY <1>2, <1>3, <1>4, <2>1 DEF AfterCompaction, HistoryKinds
<1>9. CASE CallAborted
  BY <1>2, <1>9 DEF CallAborted
<1>10. CASE Summarised
  BY <1>4, <1>10 DEF Summarised, AfterCompaction, HistoryKinds
<1>11. ASSUME NEW added \in Seq(HistoryKinds \ {"summary", "elided"}), Acts(added)
       PROVE  HistoryFacts'
  <2>1. history' = history \o added /\ agentStep' \in {"loop", "ceiling"}
    BY <1>11 DEF Acts, NextIteration
  <2>2. history' \in Seq(HistoryKinds) /\ SummaryFirst(history)'
    BY <1>1, <2>1, AddedKeepsSummaryFirst DEF SummaryFirst
  <2> QED BY <2>1, <2>2 DEF HistoryFacts, FitsOrShort, OneSummary, SummaryFirst
<1>12. CASE Act
  <2>1. \A n \in Nat : ToolTurn(n) \in Seq(HistoryKinds \ {"summary", "elided"})
    BY DEF ToolTurn, HistoryKinds
  <2>2. MaxBatch \in Nat /\ 1..MaxBatch \subseteq Nat
    BY CallsAssumption
  <2>3. Append(ToolTurn(MaxBatch), "note") \in Seq(HistoryKinds \ {"summary", "elided"})
    BY <2>1, <2>2 DEF HistoryKinds
  <2>4. <<"answer", "note">> \in Seq(HistoryKinds \ {"summary", "elided"})
    BY DEF HistoryKinds
  <2>5. CASE LastAnswer
    BY <1>2, <2>5 DEF LastAnswer
  <2> QED BY <1>11, <1>12, <2>1, <2>2, <2>3, <2>4, <2>5 DEF Act
<1>13. ASSUME NEW said \in Said, NEW finishing \in BOOLEAN, Reasoned(said, finishing)
       PROVE  HistoryFacts'
  <2>1. agentStep = "reason" /\ history' = history /\ planned' = planned
    BY <1>13 DEF Reasoned
  <2>2. agentStep' \in {"reason", "act"}
    BY <1>13, ReasonedGoesOn DEF Verify, ReasonFacts
  <2> QED BY <1>3, <2>1, <2>2
<1>14. CASE OthersSwitch
  BY <1>3, <1>14 DEF OthersSwitch
<1> QED BY <1>5, <1>6, <1>7, <1>8, <1>9, <1>10, <1>12, <1>13, <1>14 DEF CallsNext, CallStep

(* What is known of lookups, reasoning and history gives CallsInv.         *)
LEMMA CallFactsMean == LookupFacts /\ ReasonFacts /\ HistoryFacts => CallsInv
BY ReasonIsBounded DEF LookupFacts, HistoryFacts, CallsInv

(* For any efforts, providers and models, any history and any change of    *)
(* the configuration between the steps of a task: the call that acts fits  *)
(* or has nothing left to shorten, one summary stands in front, the REASON *)
(* phase keeps to its rounds and passes, every call goes where the         *)
(* configuration says, and a provider is missed only after a switch        *)
(* (runToolCallLoop).                                                      *)
THEOREM CallsAreBounded == CallsInit /\ [][CallsNext]_callVars => []CallsInv
<1> DEFINE IInv == LookupFacts /\ ReasonFacts /\ HistoryFacts
<1>1. CallsInit => IInv
  BY LookupStarts, ReasonStarts, HistoryStarts
<1>2. IInv /\ [CallsNext]_callVars => IInv'
  BY LookupKeeps, ReasonKeeps, HistoryKeeps
<1>3. IInv => CallsInv
  BY CallFactsMean
<1> QED BY <1>1, <1>2, <1>3, PTL

-----------------------------------------------------------------------------
(* The memory header of a task (memory/context, ollama/contextWindow.ts):  *)
(* first the two lookups of the window, then the files it quotes.          *)

FileTimes == 0..(MaxChanges + 1)
WindowNow == ResolveEffectiveNumCtx(trainedContextLengthCache, numCtx)

WindowTypes ==
  /\ buildStage \in [Builds -> Stages]
  /\ DOMAIN sentNumCtx = Builds /\ DOMAIN window = Builds /\ DOMAIN clampWith = Builds
  /\ trained \in TrainedLengths /\ role \in {"ollama", "cloud"}

(* Of a task that nothing disturbed between its two lookups.               *)
InOneWorld(b) ==
  /\ buildStage[b] # "askWindow"
  /\ buildStage[b] = "askWire" => role = "ollama" /\ clampWith[b] = numCtx
  /\ buildStage[b] = "window" =>
       IF role = "cloud" THEN sentNumCtx[b] = 0
       ELSE trainedContextLengthCache # Unknown /\ sentNumCtx[b] = WindowNow
  /\ buildStage[b] \in Stages \ (Resolving \cup {"idle"}) =>
       sentNumCtx[b] = window[b] \/ (sentNumCtx[b] = 0 /\ window[b] = DefaultWindow)
WindowFacts == WindowTypes /\ \A b \in Builds \ disturbed : InOneWorld(b)

(* No task has a window yet.                                               *)
LEMMA WindowStarts == BuilderInit => WindowFacts
<1> SUFFICES ASSUME BuilderInit
             PROVE  WindowFacts
  OBVIOUS
<1>1. WindowTypes
  BY DEF BuilderInit, WindowTypes, Stages
<1>2. ASSUME NEW b \in Builds
      PROVE  InOneWorld(b)
  BY DEF BuilderInit, InOneWorld, Resolving, Stages
<1> QED BY <1>1, <1>2 DEF WindowFacts

(* Where the window of a lookup goes.                                      *)
LEMMA UseWindowGoes ==
  ASSUME WindowTypes, NEW b \in Builds, buildStage[b] \in Resolving, NEW tokens, UseWindow(b, tokens)
  PROVE  /\ \A d \in Builds \ {b} : /\ buildStage'[d] = buildStage[d]
                                    /\ sentNumCtx'[d] = sentNumCtx[d] /\ window'[d] = window[d]
         /\ \/ /\ buildStage[b] \in {"wire", "askWire"} /\ buildStage'[b] = "window"
               /\ sentNumCtx'[b] = tokens
            \/ /\ buildStage[b] \in {"window", "askWindow"} /\ buildStage'[b] = "list"
               /\ sentNumCtx'[b] = sentNumCtx[b] /\ window'[b] = tokens
         /\ buildStage' \in [Builds -> Stages]
         /\ DOMAIN sentNumCtx' = Builds /\ DOMAIN window' = Builds
<1>1. CASE buildStage[b] \in {"wire", "askWire"}
  BY <1>1 DEF UseWindow, StepTo, WindowTypes, Stages
<1>2. CASE buildStage[b] \notin {"wire", "askWire"}
  BY <1>2 DEF UseWindow, StepTo, WindowTypes, Stages, Resolving
<1> QED BY <1>1, <1>2

(* Another provider needs no window, and a known length is used at once:   *)
(* both lookups of a task come to the same.                                *)
LEMMA NoLookupKeepsWindows ==
  ASSUME WindowFacts, NEW b \in Builds, Resolve(b), NeedsNoLookup(b) \/ ResolveKnown(b)
  PROVE  WindowFacts'
<1>1. PICK tokens :
        /\ UseWindow(b, tokens) /\ buildStage[b] \in {"wire", "window"}
        /\ UNCHANGED <<trained, numCtx, role, clampWith, trainedContextLengthCache, disturbed>>
        /\ \/ role = "cloud" /\ tokens = IF buildStage[b] = "wire" THEN 0 ELSE DefaultWindow
           \/ role = "ollama" /\ trainedContextLengthCache # Unknown /\ tokens = WindowNow
  BY DEF Resolve, NeedsNoLookup, ResolveKnown, KnownLength, WindowNow, worldVars
<1> DEFINE goes ==
  /\ \A d \in Builds \ {b} : /\ buildStage'[d] = buildStage[d]
                             /\ sentNumCtx'[d] = sentNumCtx[d] /\ window'[d] = window[d]
  /\ \/ buildStage[b] = "wire" /\ buildStage'[b] = "window" /\ sentNumCtx'[b] = tokens
     \/ /\ buildStage[b] = "window" /\ buildStage'[b] = "list"
        /\ sentNumCtx'[b] = sentNumCtx[b] /\ window'[b] = tokens
<1>2. WindowTypes' /\ goes
  BY <1>1, UseWindowGoes DEF WindowFacts, WindowTypes, Resolving
<1>3. WindowNow' = WindowNow
  BY <1>1 DEF WindowNow
<1>4. ASSUME NEW d \in Builds \ disturbed
      PROVE  InOneWorld(d)'
  <2>1. CASE d # b
    BY <1>1, <1>2, <1>3, <2>1 DEF WindowFacts, InOneWorld
  <2>2. CASE d = b /\ buildStage[b] = "wire"
    BY <1>1, <1>2, <1>3, <2>2 DEF WindowFacts, InOneWorld, Resolving
  <2>3. CASE d = b /\ buildStage[b] = "window"
    BY <1>1, <1>2, <1>3, <2>3 DEF WindowFacts, InOneWorld, Resolving
  <2> QED BY <1>1, <2>1, <2>2, <2>3
<1> QED BY <1>1, <1>2, <1>4 DEF WindowFacts

(* Only the first lookup of an undisturbed task asks the model; the second *)
(* finds its answer.                                                       *)
LEMMA AskKeepsWindows ==
  ASSUME WindowFacts, NEW b \in Builds, Resolve(b), AskModel(b)
  PROVE  WindowFacts'
<1>1. /\ UNCHANGED <<trained, numCtx, role, sentNumCtx, window, trainedContextLengthCache, disturbed>>
      /\ role = "ollama" /\ trainedContextLengthCache = Unknown
      /\ clampWith' = [clampWith EXCEPT ![b] = numCtx]
      /\ buildStage' = [buildStage EXCEPT ![b] = IF buildStage[b] = "wire" THEN "askWire"
                                                 ELSE "askWindow"]
      /\ buildStage[b] \in {"wire", "window"}
  BY DEF Resolve, AskModel, KnownLength, StepTo, worldVars
<1>2. WindowTypes'
  BY <1>1 DEF WindowFacts, WindowTypes, Stages
<1>3. ASSUME NEW d \in Builds \ disturbed
      PROVE  InOneWorld(d)'
  <2>1. CASE d # b
    BY <1>1, <2>1 DEF WindowFacts, WindowTypes, InOneWorld, WindowNow
  <2>2. CASE d = b
    <3>1. buildStage[b] = "wire"
      BY <1>1, <2>2 DEF WindowFacts, InOneWorld
    <3>2. buildStage'[b] = "askWire" /\ clampWith'[b] = numCtx
      BY <1>1, <3>1 DEF WindowFacts, WindowTypes
    <3> QED BY <1>1, <2>2, <3>2 DEF InOneWorld, Resolving
  <2> QED BY <2>1, <2>2
<1> QED BY <1>1, <1>2, <1>3 DEF WindowFacts

(* An answer is used and cached. One that replaces another length, because *)
(* the model was pulled again between two lookups under way, disturbs      *)
(* every other task between its own two; without that WindowsAgree fails   *)
(* as soon as three tasks build.                                           *)
LEMMA ReturnKeepsWindows ==
  ASSUME WindowFacts, NEW b \in Builds, Resolve(b), LookupReturns(b)
  PROVE  WindowFacts'
<1> DEFINE tokens == ResolveEffectiveNumCtx(trained, clampWith[b])
<1>1. /\ UseWindow(b, tokens) /\ buildStage[b] \in {"askWire", "askWindow"}
      /\ UNCHANGED <<trained, numCtx, role>> /\ trainedContextLengthCache' = trained
      /\ clampWith' = [clampWith EXCEPT ![b] = 0]
      /\ disturbed' = IF trainedContextLengthCache \in {Unknown, trained} THEN disturbed
                      ELSE disturbed \cup (Between \ {b})
  BY DEF Resolve, LookupReturns, worldVars
<1>2. trained # Unknown
  BY BuilderAssumption DEF WindowFacts, WindowTypes, Unknown
<1> DEFINE goes ==
  /\ \A d \in Builds \ {b} : /\ buildStage'[d] = buildStage[d]
                             /\ sentNumCtx'[d] = sentNumCtx[d] /\ window'[d] = window[d]
                             /\ clampWith'[d] = clampWith[d]
  /\ \/ buildStage[b] = "askWire" /\ buildStage'[b] = "window" /\ sentNumCtx'[b] = tokens
     \/ buildStage[b] = "askWindow" /\ buildStage'[b] = "list"
<1>3. WindowTypes' /\ goes
  <2> HIDE DEF tokens
  <2> QED BY <1>1, UseWindowGoes DEF WindowFacts, WindowTypes, Resolving
<1>4. WindowNow' = ResolveEffectiveNumCtx(trained, numCtx)
  BY <1>1 DEF WindowNow
<1>5. ASSUME NEW d \in Builds \ disturbed'
      PROVE  InOneWorld(d)'
  <2>1. d \in Builds \ disturbed /\ InOneWorld(d)
    BY <1>1 DEF WindowFacts
  <2>2. d = b \/ trainedContextLengthCache \in {Unknown, trained} \/ buildStage[d] \notin Resolving
    BY <1>1, <1>5 DEF Between
  <2>3. CASE d # b /\ trainedContextLengthCache \in {Unknown, trained}
    <3>1. trainedContextLengthCache # Unknown => WindowNow' = WindowNow
      BY <1>4, <2>3 DEF WindowNow
    <3> QED BY <1>1, <1>2, <1>3, <2>1, <2>3, <3>1 DEF InOneWorld
  <2>4. CASE d # b /\ buildStage[d] \notin Resolving
    BY <1>1, <1>3, <2>1, <2>4 DEF InOneWorld, Resolving
  <2>5. CASE d = b
    <3>1. buildStage[b] = "askWire" /\ role = "ollama" /\ clampWith[b] = numCtx
      BY <1>1, <2>1, <2>5 DEF InOneWorld
    <3>2. buildStage'[b] = "window" /\ sentNumCtx'[b] = WindowNow'
      BY <1>3, <1>4, <3>1
    <3> QED BY <1>1, <1>2, <2>5, <3>1, <3>2 DEF InOneWorld, Resolving
  <2> QED BY <2>2, <2>3, <2>4, <2>5
<1> QED BY <1>3, <1>5 DEF WindowFacts

(* A lookup that fails disturbs its own task only: nothing is cached.      *)
LEMMA UnreachableKeepsWindows ==
  ASSUME WindowFacts, NEW b \in Builds, ModelUnreachable(b)
  PROVE  WindowFacts'
<1>1. PICK tokens :
        /\ UseWindow(b, tokens) /\ buildStage[b] \in Resolving
        /\ UNCHANGED <<trained, numCtx, role, trainedContextLengthCache>>
        /\ disturbed' = disturbed \cup {b} /\ clampWith' = [clampWith EXCEPT ![b] = 0]
  BY DEF ModelUnreachable, Resolving
<1> DEFINE goes ==
  \A d \in Builds \ {b} : /\ buildStage'[d] = buildStage[d] /\ clampWith'[d] = clampWith[d]
                          /\ sentNumCtx'[d] = sentNumCtx[d] /\ window'[d] = window[d]
<1>2. WindowTypes' /\ goes
  BY <1>1, UseWindowGoes DEF WindowFacts, WindowTypes
<1>3. ASSUME NEW d \in Builds \ disturbed'
      PROVE  InOneWorld(d)'
  <2>1. d # b /\ InOneWorld(d)
    BY <1>1 DEF WindowFacts
  <2> QED BY <1>1, <1>2, <2>1 DEF InOneWorld, WindowNow
<1> QED BY <1>2, <1>3 DEF WindowFacts

(* A change of the configuration disturbs the tasks between their lookups; *)
(* a model pulled again does not while its old length is cached and nobody *)
(* asks.                                                                   *)
LEMMA SettingsKeepWindows ==
  ASSUME WindowFacts, ChangeSettings
  PROVE  WindowFacts'
<1>1. /\ UNCHANGED <<buildStage, clampWith, sentNumCtx, window>>
      /\ role' \in {"ollama", "cloud"} /\ trained' \in TrainedLengths
      /\ \/ disturbed' = disturbed \cup Between
         \/ /\ disturbed' = disturbed /\ Asking = {} /\ trained' # trained
            /\ UNCHANGED <<numCtx, role, trainedContextLengthCache>>
  BY DEF ChangeSettings, WindowFacts, WindowTypes
<1>2. WindowTypes'
  BY <1>1 DEF WindowFacts, WindowTypes
<1>3. ASSUME NEW d \in Builds \ disturbed'
      PROVE  InOneWorld(d)'
  <2>1. InOneWorld(d)
    BY <1>1 DEF WindowFacts
  <2>2. CASE disturbed' = disturbed \cup Between
    <3>1. buildStage[d] \notin Resolving
      BY <1>3, <2>2 DEF Between
    <3> QED BY <1>1, <2>1, <3>1 DEF InOneWorld, Resolving
  <2>3. CASE UNCHANGED <<numCtx, role, trainedContextLengthCache>>
    BY <1>1, <2>1, <2>3 DEF InOneWorld, WindowNow
  <2> QED BY <1>1, <2>2, <2>3
<1> QED BY <1>2, <1>3 DEF WindowFacts

(* A step of reading the files leaves the windows as they are.             *)
LEMMA ReadingKeepsWindows ==
  ASSUME WindowFacts, NEW b \in Builds, BeginBuild(b) \/ LoadFiles(b)
  PROVE  WindowFacts'
<1>1. /\ UNCHANGED <<trained, numCtx, role, clampWith, sentNumCtx, window,
                     trainedContextLengthCache, disturbed>>
      /\ buildStage[b] \notin Resolving
      /\ buildStage[b] = "idle" => buildStage' = [buildStage EXCEPT ![b] = "wire"]
      /\ buildStage[b] # "idle" =>
           \E stage \in Stages \ (Resolving \cup {"idle"}) : buildStage' = [buildStage EXCEPT ![b] = stage]
  BY DEF BeginBuild, LoadFiles, ListPatterns, StatPattern, ReadPattern, StatHints,
         ReadHints, StepTo,
         worldVars, windowVars, Resolving, Stages
<1>2. WindowTypes'
  BY <1>1 DEF WindowFacts, WindowTypes, Stages, Resolving
<1>3. ASSUME NEW d \in Builds \ disturbed
      PROVE  InOneWorld(d)'
  <2>1. InOneWorld(d) /\ WindowNow' = WindowNow /\ DOMAIN buildStage = Builds /\ buildStage[b] \in Stages
    BY <1>1 DEF WindowFacts, WindowTypes, WindowNow
  <2>2. CASE d # b
    <3>1. buildStage'[d] = buildStage[d]
      BY <1>1, <2>1, <2>2
    <3> QED BY <1>1, <2>1, <3>1 DEF InOneWorld
  <2>3. CASE d = b /\ buildStage[b] = "idle"
    <3>1. buildStage'[d] = "wire"
      BY <1>1, <2>1, <2>3
    <3> QED BY <3>1 DEF InOneWorld, Resolving
  <2>4. CASE d = b /\ buildStage[b] # "idle"
    <3>1. buildStage'[d] \in Stages \ (Resolving \cup {"idle"})
          /\ buildStage[d] \in Stages \ (Resolving \cup {"idle"})
      BY <1>1, <2>1, <2>4
    <3> QED BY <1>1, <2>1, <3>1 DEF InOneWorld, Resolving
  <2> QED BY <2>2, <2>3, <2>4
<1> QED BY <1>1, <1>2, <1>3 DEF WindowFacts

(* Every step keeps the windows of undisturbed tasks one.                  *)
LEMMA WindowKeeps ==
  ASSUME WindowFacts, [BuilderNext]_builderVars
  PROVE  WindowFacts'
<1>1. ASSUME NEW b \in Builds, Resolve(b)
      PROVE  WindowFacts'
  BY <1>1, NoLookupKeepsWindows, AskKeepsWindows, ReturnKeepsWindows DEF Resolve
<1>2. ASSUME NEW f \in Cached, EditFile(f)
      PROVE  WindowFacts'
  BY <1>2 DEF EditFile, windowVars, WindowFacts, WindowTypes, InOneWorld, WindowNow
<1>3. CASE UNCHANGED builderVars
  BY <1>3
     DEF builderVars, worldVars, windowVars, WindowFacts, WindowTypes, InOneWorld,
         WindowNow
<1> QED BY <1>1, <1>2, <1>3, UnreachableKeepsWindows, SettingsKeepWindows,
           ReadingKeepsWindows DEF BuilderNext

-----------------------------------------------------------------------------
CacheEntries == [mtime : FileTimes, body : FileTimes]
FileTypes ==
  /\ buildStage \in [Builds -> Stages] /\ mtimes \in [Cached -> FileTimes]
  /\ changes \in 0..MaxChanges
  /\ fileCache \in [Cached -> CacheEntries] /\ statted \in [Builds -> FileTimes]
  /\ bodies \in [Builds -> [Cached -> FileTimes]]
  /\ onDisk \in [Builds -> [Cached -> SUBSET FileTimes]]

(* A time of change is new whenever a file gets one, so an entry that was  *)
(* read under another time than it was read at never counts as fresh.      *)
EntryIsRight(f) ==
  /\ mtimes[f] <= changes + 1
  /\ fileCache[f] # NoEntry => fileCache[f].mtime \in 1..(changes + 1)
  /\ fileCache[f] # NoEntry /\ fileCache[f].mtime = mtimes[f] => fileCache[f].body = mtimes[f]
Building == Stages \ {"idle", "done", "failed"}
BeforePattern == {"idle", "wire", "askWire", "window", "askWindow", "list", "stat", "read"}
BodyFacts(b) ==
  /\ buildStage[b] \in {"read", "readHints"} => statted[b] \in 1..(changes + 1)
  /\ buildStage[b] \in Building => \A f \in Cached : mtimes[f] \in onDisk[b][f]
  /\ buildStage[b] \in BeforePattern => bodies[b]["pattern"] = 0
  /\ buildStage[b] \in {"statHints", "readHints", "done"} =>
       bodies[b]["pattern"] \in onDisk[b]["pattern"]
  /\ buildStage[b] = "done" => bodies[b]["hints"] \in onDisk[b]["hints"]
FileFacts ==
  /\ FileTypes /\ \A f \in Cached : EntryIsRight(f)
  /\ \A b \in Builds : BodyFacts(b)

(* Nothing is cached or quoted at first.                                   *)
LEMMA FilesStart == BuilderInit => FileFacts
<1> SUFFICES ASSUME BuilderInit
             PROVE  FileFacts
  OBVIOUS
<1>0. MaxChanges \in Nat
  BY BuilderAssumption
<1>1. FileTypes
  BY <1>0 DEF BuilderInit, FileTypes, FileTimes, CacheEntries, NoEntry, Stages
<1>2. \A f \in Cached : EntryIsRight(f)
  BY <1>0 DEF BuilderInit, EntryIsRight, NoEntry
<1>3. ASSUME NEW b \in Builds
      PROVE  BodyFacts(b)
  BY DEF BuilderInit, BodyFacts, Building, Cached
<1> QED BY <1>1, <1>2, <1>3 DEF FileFacts

(* An edit gives a file a time it never had, so no cached entry becomes    *)
(* fresh by it.                                                            *)
LEMMA EditKeepsFiles ==
  ASSUME FileFacts, NEW f \in Cached, EditFile(f)
  PROVE  FileFacts'
<1>0. MaxChanges \in Nat /\ changes \in Nat /\ changes < MaxChanges
  BY BuilderAssumption DEF EditFile, FileFacts, FileTypes
<1>1. PICK t \in {0, changes + 2} : mtimes' = [mtimes EXCEPT ![f] = t]
  BY DEF EditFile
<1>2. /\ UNCHANGED <<fileCache, buildStage, statted, bodies>> /\ changes' = changes + 1
      /\ onDisk' = [b \in Builds |-> IF buildStage[b] \in {"idle", "done", "failed"} THEN onDisk[b]
                                     ELSE [onDisk[b] EXCEPT ![f] = @ \cup {mtimes'[f]}]]
  BY DEF EditFile
<1>3. t \in FileTimes /\ mtimes' \in [Cached -> FileTimes] /\ mtimes'[f] = t
      /\ \A g \in Cached \ {f} : mtimes'[g] = mtimes[g]
  BY <1>0, <1>1 DEF FileFacts, FileTypes, FileTimes
<1>4. ASSUME NEW b \in Builds
      PROVE  /\ onDisk'[b] \in [Cached -> SUBSET FileTimes]
             /\ \A g \in Cached : onDisk[b][g] \subseteq onDisk'[b][g]
             /\ buildStage[b] \in Building => t \in onDisk'[b][f]
  BY <1>2, <1>3 DEF FileFacts, FileTypes, Building
<1>5. FileTypes'
  <2>1. onDisk' \in [Builds -> [Cached -> SUBSET FileTimes]]
    BY <1>2, <1>4
  <2> QED BY <1>0, <1>2, <1>3, <2>1 DEF FileFacts, FileTypes
<1>6. ASSUME NEW g \in Cached
      PROVE  EntryIsRight(g)'
  <2>1. /\ mtimes[g] \in Nat /\ fileCache[g] \in CacheEntries /\ EntryIsRight(g)
    BY <1>0 DEF FileFacts, FileTypes, FileTimes
  <2> QED BY <1>0, <1>1, <1>2, <1>3, <2>1 DEF EntryIsRight, CacheEntries, FileTimes
<1>7. ASSUME NEW b \in Builds
      PROVE  BodyFacts(b)'
  <2>1. BodyFacts(b)
    BY DEF FileFacts
  <2>2. buildStage[b] \in {"read", "readHints"} => statted'[b] \in 1..(changes' + 1)
    BY <1>0, <1>2, <2>1 DEF BodyFacts
  <2>3. buildStage[b] \in Building => \A g \in Cached : mtimes'[g] \in onDisk'[b][g]
    BY <1>3, <1>4, <2>1 DEF BodyFacts
  <2> QED BY <1>2, <1>4, <2>1, <2>2, <2>3 DEF BodyFacts, Cached
<1> QED BY <1>5, <1>6, <1>7 DEF FileFacts

(* Steps that neither change nor read a file.                              *)
LEMMA FilesUntouched ==
  ASSUME FileFacts, UNCHANGED <<mtimes, fileCache, statted, bodies, onDisk>>,
         changes' \in {changes, changes + 1}, changes' \in 0..MaxChanges,
         buildStage' \in [Builds -> Stages],
         \A b \in Builds : buildStage'[b] = buildStage[b] \/
                           {buildStage[b], buildStage'[b]} \subseteq Resolving \cup {"list"}
  PROVE  FileFacts'
<1>0. MaxChanges \in Nat /\ changes \in Nat
  BY BuilderAssumption DEF FileFacts, FileTypes
<1>1. FileTypes'
  BY DEF FileFacts, FileTypes
<1>2. ASSUME NEW f \in Cached
      PROVE  EntryIsRight(f)'
  <2>1. mtimes[f] \in Nat /\ fileCache[f] \in CacheEntries /\ EntryIsRight(f)
    BY <1>0 DEF FileFacts, FileTypes, FileTimes
  <2> QED BY <1>0, <2>1 DEF EntryIsRight, CacheEntries, FileTimes
<1>3. ASSUME NEW b \in Builds
      PROVE  BodyFacts(b)'
  <2>1. BodyFacts(b) /\ statted[b] \in Nat
    BY <1>0 DEF FileFacts, FileTypes, FileTimes
  <2>2. CASE buildStage'[b] = buildStage[b]
    BY <1>0, <2>1, <2>2 DEF BodyFacts
  <2>3. CASE {buildStage[b], buildStage'[b]} \subseteq Resolving \cup {"list"}
    BY <1>0, <2>1, <2>3 DEF BodyFacts, Resolving, Building, BeforePattern, Stages
  <2> QED BY <2>2, <2>3
<1> QED BY <1>1, <1>2, <1>3 DEF FileFacts

(* A build begins with what the files hold now.                            *)
LEMMA BeginKeepsFiles ==
  ASSUME FileFacts, NEW b \in Builds, BeginBuild(b)
  PROVE  FileFacts'
<1>1. /\ UNCHANGED <<mtimes, changes, fileCache, statted, bodies>>
      /\ buildStage[b] = "idle" /\ buildStage' = [buildStage EXCEPT ![b] = "wire"]
      /\ onDisk' = [onDisk EXCEPT ![b] = [f \in Cached |-> {mtimes[f]}]]
  BY DEF BeginBuild, StepTo, worldVars
<1>2. FileTypes'
  BY <1>1 DEF FileFacts, FileTypes, Stages
<1>3. ASSUME NEW f \in Cached
      PROVE  EntryIsRight(f)'
  BY <1>1 DEF FileFacts, EntryIsRight
<1>4. ASSUME NEW d \in Builds
      PROVE  BodyFacts(d)'
  <2>1. CASE d # b
    BY <1>1, <2>1 DEF FileFacts, FileTypes, BodyFacts
  <2>2. CASE d = b
    <3>1. buildStage'[b] = "wire" /\ onDisk'[b] = [f \in Cached |-> {mtimes[f]}]
          /\ bodies[b]["pattern"] = 0
      BY <1>1 DEF FileFacts, FileTypes, BodyFacts, BeforePattern
    <3> QED BY <1>1, <2>2, <3>1 DEF BodyFacts
  <2> QED BY <2>1, <2>2
<1> QED BY <1>2, <1>3, <1>4 DEF FileFacts

(* A step of one task that reads: what is left to show of it.              *)
LEMMA LoadStepKeeps ==
  ASSUME FileFacts, NEW b \in Builds, UNCHANGED <<mtimes, changes, onDisk>>,
         NEW stage \in Stages, buildStage' = [buildStage EXCEPT ![b] = stage],
         fileCache' \in [Cached -> CacheEntries], \A f \in Cached : EntryIsRight(f)',
         NEW t \in FileTimes, statted' = [statted EXCEPT ![b] = t],
         NEW bs \in [Cached -> FileTimes], bodies' = [bodies EXCEPT ![b] = bs],
         BodyFacts(b)'
  PROVE  FileFacts'
<1>1. FileTypes'
  BY DEF FileFacts, FileTypes
<1>2. ASSUME NEW d \in Builds, d # b
      PROVE  BodyFacts(d)'
  BY <1>2 DEF FileFacts, FileTypes, BodyFacts
<1> QED BY <1>1, <1>2 DEF FileFacts

(* Listing, stating and reading a file: an entry read under an older time  *)
(* is never fresh again, so a body that is used is the one the file has.   *)
LEMMA LoadingKeepsFiles ==
  ASSUME FileFacts, NEW b \in Builds, LoadFiles(b)
  PROVE  FileFacts'
<1>0. MaxChanges \in Nat /\ changes \in Nat /\ FileTimes \subseteq Nat /\ 0 \in FileTimes
  BY BuilderAssumption DEF FileFacts, FileTypes, FileTimes
<1>1. /\ UNCHANGED <<mtimes, changes, onDisk>>
      /\ buildStage[b] \in Building \ Resolving
      /\ \A f \in Cached : /\ mtimes[f] \in FileTimes /\ mtimes[f] <= changes + 1
                           /\ mtimes[f] \in onDisk[b][f] /\ fileCache[f] \in CacheEntries
      /\ statted[b] \in FileTimes /\ bodies[b] \in [Cached -> FileTimes] /\ BodyFacts(b)
  <2>1. UNCHANGED <<mtimes, changes, onDisk>> /\ buildStage[b] \in Building \ Resolving
    BY DEF LoadFiles, worldVars, ListPatterns, StatPattern, ReadPattern, StatHints,
           ReadHints,
           Building, Resolving, Stages
  <2> QED BY <2>1 DEF FileFacts, FileTypes, EntryIsRight, BodyFacts
<1>2. /\ "pattern" \in Cached /\ "hints" \in Cached /\ Cached = {"pattern", "hints"}
      /\ DOMAIN buildStage = Builds /\ DOMAIN statted = Builds /\ DOMAIN bodies = Builds
      /\ DOMAIN fileCache = Cached
  BY DEF Cached, FileFacts, FileTypes
<1>3. \A f \in Cached : EntryIsRight(f)
  BY DEF FileFacts
<1>4. /\ statted = [statted EXCEPT ![b] = statted[b]] /\ bodies = [bodies EXCEPT ![b] = bodies[b]]
      /\ fileCache \in [Cached -> CacheEntries]
  BY DEF FileFacts, FileTypes
<1>5. CASE ListPatterns(b)
  <2>1. buildStage[b] = "list" /\ UNCHANGED <<statted, bodies>>
    BY <1>5 DEF ListPatterns
  <2>2. bodies[b]["pattern"] = 0
    BY <1>1, <2>1 DEF BodyFacts, BeforePattern
  <2>3. CASE mtimes["pattern"] = 0
    <3>1. /\ fileCache' = [fileCache EXCEPT !["pattern"] = NoEntry]
          /\ buildStage' = [buildStage EXCEPT ![b] = "statHints"]
      BY <1>5, <2>3 DEF ListPatterns, Remember, StepTo
    <3>2. fileCache' \in [Cached -> CacheEntries]
      BY <1>0, <1>4, <3>1 DEF CacheEntries, NoEntry
    <3>3. \A f \in Cached : EntryIsRight(f)'
      BY <1>1, <1>2, <1>3, <1>4, <3>1 DEF EntryIsRight, NoEntry
    <3>4. BodyFacts(b)'
      <4>1. buildStage'[b] = "statHints" /\ bodies'[b]["pattern"] = 0 /\ 0 \in onDisk[b]["pattern"]
        BY <1>1, <1>2, <2>1, <2>2, <2>3, <3>1
      <4> QED BY <1>1, <4>1 DEF BodyFacts, Building, BeforePattern, Stages
    <3> QED BY <1>1, <1>4, <2>1, <3>1, <3>2, <3>3, <3>4, LoadStepKeeps DEF Stages
  <2>4. CASE mtimes["pattern"] # 0
    <3>1. fileCache' = fileCache /\ buildStage' = [buildStage EXCEPT ![b] = "stat"]
      BY <1>5, <2>4 DEF ListPatterns, StepTo
    <3>2. \A f \in Cached : EntryIsRight(f)'
      BY <1>1, <1>3, <3>1 DEF EntryIsRight
    <3>3. BodyFacts(b)'
      <4>1. buildStage'[b] = "stat" /\ bodies'[b]["pattern"] = 0
        BY <1>2, <2>1, <2>2, <3>1
      <4> QED BY <1>1, <4>1 DEF BodyFacts, Building, BeforePattern, Stages
    <3> QED BY <1>1, <1>4, <2>1, <3>1, <3>2, <3>3, LoadStepKeeps DEF Stages
  <2> QED BY <2>3, <2>4
<1>6. CASE StatPattern(b)
  <2>1. buildStage[b] = "stat" /\ fileCache' = fileCache
    BY <1>6 DEF StatPattern
  <2>2. bodies[b]["pattern"] = 0
    BY <1>1, <2>1 DEF BodyFacts, BeforePattern
  <2>3. \A f \in Cached : EntryIsRight(f)'
    BY <1>1, <1>3, <2>1 DEF EntryIsRight
  <2>4. CASE mtimes["pattern"] = 0
    <3>1. buildStage' = [buildStage EXCEPT ![b] = "failed"] /\ UNCHANGED <<statted, bodies>>
      BY <1>6, <2>4 DEF StatPattern, StepTo
    <3>2. buildStage'[b] = "failed"
      BY <1>2, <3>1
    <3>3. BodyFacts(b)'
      BY <1>1, <3>2 DEF BodyFacts, Building, BeforePattern
    <3> QED BY <1>1, <1>4, <2>1, <2>3, <3>1, <3>3, LoadStepKeeps DEF Stages
  <2>5. CASE mtimes["pattern"] # 0 /\ IsFresh("pattern", mtimes["pattern"])
    <3>1. /\ buildStage' = [buildStage EXCEPT ![b] = "statHints"] /\ statted' = statted
          /\ bodies' = [bodies EXCEPT ![b]["pattern"] = fileCache["pattern"].body]
      BY <1>6, <2>5 DEF StatPattern, StepTo, Use
    <3>2. fileCache["pattern"].body = mtimes["pattern"]
      BY <1>2, <1>3, <2>5 DEF EntryIsRight, IsFresh
    <3> DEFINE bs == [bodies[b] EXCEPT !["pattern"] = mtimes["pattern"]]
    <3>3. /\ bodies' = [bodies EXCEPT ![b] = bs] /\ bs \in [Cached -> FileTimes]
          /\ bodies'[b]["pattern"] = mtimes["pattern"] /\ buildStage'[b] = "statHints"
      BY <1>1, <1>2, <3>1, <3>2
    <3>4. BodyFacts(b)'
      BY <1>1, <1>2, <3>3 DEF BodyFacts, Building, BeforePattern, Stages
    <3> HIDE DEF bs
    <3> QED BY <1>1, <1>4, <2>1, <2>3, <3>1, <3>3, <3>4, LoadStepKeeps DEF Stages
  <2>6. CASE mtimes["pattern"] # 0 /\ ~IsFresh("pattern", mtimes["pattern"])
    <3>1. /\ buildStage' = [buildStage EXCEPT ![b] = "read"] /\ bodies' = bodies
          /\ statted' = [statted EXCEPT ![b] = mtimes["pattern"]]
      BY <1>6, <2>6 DEF StatPattern, StepTo
    <3>2. buildStage'[b] = "read" /\ statted'[b] = mtimes["pattern"]
      BY <1>2, <3>1
    <3>3. statted'[b] \in 1..(changes' + 1)
      <4>1. mtimes["pattern"] \in Nat /\ mtimes["pattern"] <= changes + 1 /\ changes' = changes
        BY <1>0, <1>1, <1>2
      <4> QED BY <1>0, <2>6, <3>2, <4>1
    <3>4. BodyFacts(b)'
      BY <1>1, <2>2, <3>1, <3>2, <3>3 DEF BodyFacts, Building, BeforePattern, Stages
    <3> QED BY <1>1, <1>2, <1>4, <2>1, <2>3, <3>1, <3>4, LoadStepKeeps DEF Stages
  <2> QED BY <2>4, <2>5, <2>6
<1>7. CASE ReadPattern(b)
  <2>1. buildStage[b] = "read" /\ statted' = [statted EXCEPT ![b] = 0]
    BY <1>7 DEF ReadPattern
  <2>2. CASE mtimes["pattern"] = 0
    <3>1. buildStage' = [buildStage EXCEPT ![b] = "failed"] /\ UNCHANGED <<fileCache, bodies>>
      BY <1>7, <2>2 DEF ReadPattern, StepTo
    <3>2. buildStage'[b] = "failed"
      BY <1>2, <3>1
    <3>3. BodyFacts(b)'
      BY <1>1, <3>2 DEF BodyFacts, Building, BeforePattern
    <3>4. \A f \in Cached : EntryIsRight(f)'
      BY <1>1, <1>3, <3>1 DEF EntryIsRight
    <3> QED BY <1>0, <1>1, <1>4, <2>1, <3>1, <3>3, <3>4, LoadStepKeeps DEF Stages
  <2>3. CASE mtimes["pattern"] # 0
    <3> DEFINE bs == [bodies[b] EXCEPT !["pattern"] = mtimes["pattern"]]
               entry == [mtime |-> statted[b], body |-> mtimes["pattern"]]
    <3>1. /\ buildStage' = [buildStage EXCEPT ![b] = "statHints"]
          /\ bodies' = [bodies EXCEPT ![b] = bs] /\ bs \in [Cached -> FileTimes]
          /\ fileCache' = [fileCache EXCEPT !["pattern"] = entry]
      BY <1>1, <1>2, <1>7, <2>3 DEF ReadPattern, StepTo, Use, Remember
    <3>2. statted[b] \in 1..(changes + 1)
      BY <1>1, <2>1 DEF BodyFacts
    <3>3. fileCache' \in [Cached -> CacheEntries]
      BY <1>1, <1>2, <1>4, <3>1 DEF CacheEntries
    <3>4. ASSUME NEW f \in Cached
          PROVE  EntryIsRight(f)'
      <4>1. CASE f = "pattern"
        <5>1. fileCache'[f] = entry
          BY <1>2, <3>1, <4>1
        <5> QED BY <1>1, <3>2, <4>1, <5>1 DEF EntryIsRight
      <4>2. CASE f # "pattern"
        <5>1. fileCache'[f] = fileCache[f]
          BY <3>1, <4>2, <1>2
        <5> QED BY <1>1, <1>3, <5>1 DEF EntryIsRight
      <4> QED BY <4>1, <4>2
    <3>5. bodies'[b]["pattern"] = mtimes["pattern"] /\ buildStage'[b] = "statHints"
      BY <1>1, <1>2, <3>1
    <3>6. BodyFacts(b)'
      BY <1>1, <1>2, <3>5 DEF BodyFacts, Building, BeforePattern, Stages
    <3> HIDE DEF bs, entry
    <3> QED BY <1>0, <1>1, <2>1, <3>1, <3>3, <3>4, <3>6, LoadStepKeeps DEF Stages
  <2> QED BY <2>2, <2>3
<1>8. CASE StatHints(b)
  <2>1. buildStage[b] = "statHints"
    BY <1>8 DEF StatHints
  <2>2. bodies[b]["pattern"] \in onDisk[b]["pattern"]
    BY <1>1, <2>1 DEF BodyFacts
  <2>3. CASE mtimes["hints"] = 0
    <3> DEFINE bs == [bodies[b] EXCEPT !["hints"] = 0]
    <3>1. /\ buildStage' = [buildStage EXCEPT ![b] = "done"] /\ statted' = statted
          /\ bodies' = [bodies EXCEPT ![b] = bs] /\ bs \in [Cached -> FileTimes]
          /\ fileCache' = [fileCache EXCEPT !["hints"] = NoEntry]
      BY <1>0, <1>1, <1>2, <1>8, <2>3 DEF StatHints, StepTo, Use, Remember
    <3>2. fileCache' \in [Cached -> CacheEntries]
      BY <1>0, <1>4, <3>1 DEF CacheEntries, NoEntry
    <3>3. \A f \in Cached : EntryIsRight(f)'
      BY <1>1, <1>2, <1>3, <1>4, <3>1 DEF EntryIsRight, NoEntry
    <3>4. bodies'[b]["hints"] = 0 /\ bodies'[b]["pattern"] = bodies[b]["pattern"]
          /\ buildStage'[b] = "done"
      BY <1>1, <1>2, <3>1
    <3>5. BodyFacts(b)'
      BY <1>1, <1>2, <2>2, <2>3, <3>4 DEF BodyFacts, Building, BeforePattern
    <3> HIDE DEF bs
    <3> QED BY <1>1, <1>4, <3>1, <3>2, <3>3, <3>5, LoadStepKeeps DEF Stages
  <2>4. CASE mtimes["hints"] # 0 /\ IsFresh("hints", mtimes["hints"])
    <3> DEFINE bs == [bodies[b] EXCEPT !["hints"] = mtimes["hints"]]
    <3>1. /\ buildStage' = [buildStage EXCEPT ![b] = "done"] /\ statted' = statted
          /\ bodies' = [bodies EXCEPT ![b]["hints"] = fileCache["hints"].body]
          /\ fileCache' = fileCache
      BY <1>8, <2>4 DEF StatHints, StepTo, Use
    <3>2. fileCache["hints"].body = mtimes["hints"]
      BY <1>2, <1>3, <2>4 DEF EntryIsRight, IsFresh
    <3>3. /\ bodies' = [bodies EXCEPT ![b] = bs] /\ bs \in [Cached -> FileTimes]
          /\ bodies'[b]["hints"] = mtimes["hints"] /\ bodies'[b]["pattern"] = bodies[b]["pattern"]
          /\ buildStage'[b] = "done"
      BY <1>1, <1>2, <3>1, <3>2
    <3>4. BodyFacts(b)'
      BY <1>1, <1>2, <2>2, <3>3 DEF BodyFacts, Building, BeforePattern
    <3>5. \A f \in Cached : EntryIsRight(f)'
      BY <1>1, <1>3, <3>1 DEF EntryIsRight
    <3> HIDE DEF bs
    <3> QED BY <1>1, <1>4, <3>1, <3>3, <3>4, <3>5, LoadStepKeeps DEF Stages
  <2>5. CASE mtimes["hints"] # 0 /\ ~IsFresh("hints", mtimes["hints"])
    <3>1. /\ buildStage' = [buildStage EXCEPT ![b] = "readHints"] /\ UNCHANGED <<bodies, fileCache>>
          /\ statted' = [statted EXCEPT ![b] = mtimes["hints"]]
      BY <1>8, <2>5 DEF StatHints, StepTo
    <3>2. buildStage'[b] = "readHints" /\ statted'[b] = mtimes["hints"]
      BY <1>2, <3>1
    <3>3. statted'[b] \in 1..(changes' + 1)
      <4>1. mtimes["hints"] \in Nat /\ mtimes["hints"] <= changes + 1 /\ changes' = changes
        BY <1>0, <1>1, <1>2
      <4> QED BY <1>0, <2>5, <3>2, <4>1
    <3>4. BodyFacts(b)'
      BY <1>1, <2>2, <3>1, <3>2, <3>3 DEF BodyFacts, Building, BeforePattern, Stages
    <3>5. \A f \in Cached : EntryIsRight(f)'
      BY <1>1, <1>3, <3>1 DEF EntryIsRight
    <3> QED BY <1>1, <1>2, <1>4, <3>1, <3>4, <3>5, LoadStepKeeps DEF Stages
  <2> QED BY <2>3, <2>4, <2>5
<1>9. CASE ReadHints(b)
  <2> DEFINE bs == [bodies[b] EXCEPT !["hints"] = mtimes["hints"]]
             entry == [mtime |-> statted[b], body |-> mtimes["hints"]]
  <2>1. /\ buildStage[b] = "readHints" /\ statted' = [statted EXCEPT ![b] = 0]
        /\ buildStage' = [buildStage EXCEPT ![b] = "done"]
        /\ bodies' = [bodies EXCEPT ![b] = bs] /\ bs \in [Cached -> FileTimes]
        /\ fileCache' = [fileCache EXCEPT !["hints"] = entry]
    BY <1>1, <1>2, <1>9 DEF ReadHints, StepTo, Use, Remember
  <2>2. statted[b] \in 1..(changes + 1) /\ bodies[b]["pattern"] \in onDisk[b]["pattern"]
    BY <1>1, <2>1 DEF BodyFacts
  <2>3. fileCache' \in [Cached -> CacheEntries]
    BY <1>1, <1>2, <1>4, <2>1 DEF CacheEntries
  <2>4. ASSUME NEW f \in Cached
        PROVE  EntryIsRight(f)'
    <3>1. CASE f = "hints"
      <4>1. fileCache'[f] = entry
        BY <1>2, <2>1, <3>1
      <4> QED BY <1>1, <2>2, <3>1, <4>1 DEF EntryIsRight
    <3>2. CASE f # "hints"
      <4>1. fileCache'[f] = fileCache[f]
        BY <2>1, <3>2, <1>2
      <4> QED BY <1>1, <1>3, <4>1 DEF EntryIsRight
    <3> QED BY <3>1, <3>2
  <2>5. bodies'[b]["hints"] = mtimes["hints"] /\ bodies'[b]["pattern"] = bodies[b]["pattern"]
        /\ buildStage'[b] = "done"
    BY <1>1, <1>2, <2>1
  <2>6. BodyFacts(b)'
    BY <1>1, <1>2, <2>2, <2>5 DEF BodyFacts, Building, BeforePattern
  <2> HIDE DEF bs, entry
  <2> QED BY <1>0, <1>1, <2>1, <2>3, <2>4, <2>6, LoadStepKeeps DEF Stages
<1> QED BY <1>5, <1>6, <1>7, <1>8, <1>9 DEF LoadFiles

(* Every step keeps the entries and the bodies right.                      *)
LEMMA FilesKeep ==
  ASSUME FileFacts, [BuilderNext]_builderVars
  PROVE  FileFacts'
<1>0. /\ MaxChanges \in Nat /\ changes \in 0..MaxChanges /\ buildStage \in [Builds -> Stages]
  BY BuilderAssumption DEF FileFacts, FileTypes
<1>1. ASSUME NEW b \in Builds, buildStage[b] \in Resolving, NEW tokens, UseWindow(b, tokens)
      PROVE  \E stage \in Resolving \cup {"list"} : buildStage' = [buildStage EXCEPT ![b] = stage]
  BY <1>1 DEF UseWindow, StepTo, Resolving
<1>2. ASSUME NEW b \in Builds, Resolve(b)
      PROVE  FileFacts'
  <2>1. /\ UNCHANGED <<mtimes, changes, fileCache, statted, bodies, onDisk>>
        /\ buildStage[b] \in Resolving
        /\ \E stage \in Resolving \cup {"list"} : buildStage' = [buildStage EXCEPT ![b] = stage]
    BY <1>1, <1>2
       DEF Resolve, NeedsNoLookup, ResolveKnown, AskModel, LookupReturns, worldVars,
                      Resolving, StepTo
  <2> QED BY <1>0, <2>1, FilesUntouched DEF Resolving, Stages
<1>3. ASSUME NEW b \in Builds, ModelUnreachable(b)
      PROVE  FileFacts'
  <2>1. /\ UNCHANGED <<mtimes, fileCache, statted, bodies, onDisk>>
        /\ changes < MaxChanges /\ changes' = changes + 1 /\ buildStage[b] \in Resolving
        /\ \E stage \in Resolving \cup {"list"} : buildStage' = [buildStage EXCEPT ![b] = stage]
    BY <1>1, <1>3 DEF ModelUnreachable, Resolving
  <2> QED BY <1>0, <2>1, FilesUntouched DEF Resolving, Stages
<1>4. CASE ChangeSettings
  BY <1>0, <1>4, FilesUntouched DEF ChangeSettings
<1>5. CASE UNCHANGED builderVars
  BY <1>0, <1>5, FilesUntouched DEF builderVars, worldVars
<1> QED BY <1>2, <1>3, <1>4, <1>5, EditKeepsFiles, BeginKeepsFiles, LoadingKeepsFiles
           DEF BuilderNext

(* What is known of windows and files gives the three promises.            *)
LEMMA HeaderFactsMean == WindowFacts /\ FileFacts => BuilderInv
<1> SUFFICES ASSUME WindowFacts, FileFacts
             PROVE  BuilderInv
  OBVIOUS
<1>1. BuilderTypeOK
  BY DEF FileFacts, FileTypes, BuilderTypeOK, FileTimes, CacheEntries
<1>2. BodiesAreCurrent
  BY DEF FileFacts, BodyFacts, BodiesAreCurrent, Complete, Cached
<1>3. WindowsAgree
  BY DEF WindowFacts, InOneWorld, WindowsAgree
<1> QED BY <1>1, <1>2, <1>3 DEF BuilderInv

(* For any number of tasks and edits: a header quotes only what its files  *)
(* held while it was built, and the window it is budgeted against is the   *)
(* one that is sent, unless something came between its two lookups         *)
(* (loadPatterns, loadLanguageHintsCached, ContextWindowResolver).         *)
THEOREM HeaderIsCurrent == BuilderInit /\ [][BuilderNext]_builderVars => []BuilderInv
BY WindowStarts, WindowKeeps, FilesStart, FilesKeep, HeaderFactsMean, PTL

-----------------------------------------------------------------------------
(* A task's stream, from the server's handler to the screen: for any       *)
(* number of tasks, tokens and lost connections.  ScreenInv is not         *)
(* inductive.  That an answer is whole needs where its tokens are: of a    *)
(* task under way those on the screen, in the buffer, in the chain and on  *)
(* the wire follow one another (OrderInv), as long as no frame is dropped  *)
(* for another reason than that the task was cut off (StagesInv, WireInv). *)
(* That no error is shown twice needs that one is under way once           *)
(* (ErrorsInv), and that a plan is shown by the stream of its task that a  *)
(* broker is bound to a stream of its own connection (ReviewsInv).         *)
(* The types of everything a task's stream passes through.                 *)
StreamFrames == [kind : {"token", "plan", "error", "complete", "fail"}, of : Streams, n : Nat]
PlanBrokers ==
  [exists : BOOLEAN, emit : 0..MaxStreams, active : 0..MaxStreams, waiting : Seq(Streams)]

LinkTypes ==
  /\ activeSessions \subseteq Conns /\ controllers \subseteq Streams
     /\ abortedTasks \subseteq Streams
  /\ brokerByRequester \in [Conns -> PlanBrokers]
  /\ serving \in [Streams -> Serving]
  /\ link \in {"up", "down"} /\ conn \in Conns /\ connOf \in [Streams -> 0..conn]
  /\ upstream \in [Streams -> Seq({"request", "cancel"})]

FrameTypes ==
  /\ wire \in [Streams -> Seq(StreamFrames)] /\ frameChain \in [Streams -> Seq(StreamFrames)]
  /\ buffer \in [Streams -> Seq(StreamFrames)] /\ transcript \in Seq(StreamFrames)
  /\ sentTokens \in [Streams -> Nat]

ScreenTypes ==
  /\ \A r \in responses : r.by \in Streams /\ r.on \in 0..conn
  /\ handler \in [Streams -> {"free", "asking", "answering"}]
  /\ done \in [Streams -> {"open", "draining", "resolved", "rejected"}]
  /\ screen \in [Streams -> {"idle", "streaming", "ended"}]
  /\ errorShown \subseteq Streams /\ cancelledByUser \subseteq Streams /\ late \subseteq Streams

StreamTypes == LinkTypes /\ FrameTypes /\ ScreenTypes

(* What the server holds for a connection: a task it works on has its      *)
(* controller, a request that is under way comes to an open connection.    *)
SessionsInv ==
  /\ link = "up" => conn \in activeSessions
  /\ link = "down" => conn <= MaxLosses
  /\ \A t \in Streams : serving[t] \in Working => t \in controllers
  /\ \A t \in Streams : \A i \in 1..Len(upstream[t]) :
       upstream[t][i] = "request" =>
         i = 1 /\ serving[t] = "none" /\ connOf[t] = conn /\ link = "up"
  /\ \A t \in Streams : serving[t] # "none" => connOf[t] # 0

(* The reviews of a connection are those of its tasks, each asked for once *)
(* and shown through a stream of the connection.                           *)
ServedOn(c) == {t \in Streams : serving[t] # "none" /\ connOf[t] = c}
UnderReview(c) == {t \in Streams : serving[t] = "review" /\ connOf[t] = c}
WellBound(b, served, reviewed) ==
  /\ b.emit # 0 => b.emit \in served
  /\ b.active # 0 => b.active \in reviewed
  /\ \A i \in 1..Len(b.waiting) : b.waiting[i] \in reviewed /\ b.waiting[i] # b.active
  /\ \A i, j \in 1..Len(b.waiting) : b.waiting[i] = b.waiting[j] => i = j
ReviewsInv ==
  /\ \A c \in Conns : WellBound(brokerByRequester[c], ServedOn(c), UnderReview(c))
  /\ \A t \in Streams :
       serving[t] # "none" /\ connOf[t] = conn /\ link = "up" => brokerByRequester[conn].exists

(* The stages of a stream on the client: nothing of one that has not been  *)
(* sent, and no frame waits of one that ended, unless it was cut off.      *)
NotSentYet(t) ==
  /\ connOf[t] = 0 /\ serving[t] = "none" /\ sentTokens[t] = 0
  /\ upstream[t] = <<>> /\ wire[t] = <<>> /\ frameChain[t] = <<>> /\ buffer[t] = <<>>
  /\ handler[t] = "free" /\ done[t] = "open"
  /\ t \notin cancelledByUser /\ t \notin late /\ t \notin errorShown
  /\ \A i \in 1..Len(transcript) : transcript[i].kind \in {"token", "error"}
     => transcript[i].of # t

Completes(t) == done[t] = "draining" \/ (done[t] = "resolved" /\ t \notin cancelledByUser)
StageOf(t) ==
  /\ screen[t] = "idle" => NotSentYet(t)
  /\ screen[t] # "idle" => connOf[t] # 0
  /\ screen[t] = "streaming" => t \notin late
     /\ (done[t] = "open" => connOf[t] = conn /\ link = "up")
  /\ screen[t] = "ended" => done[t] \in {"resolved", "rejected"} /\ (NoNews(t) \/ t \in late)
  /\ t \in cancelledByUser => done[t] \in {"resolved", "rejected"}
  /\ done[t] = "resolved" /\ t \notin cancelledByUser => NoNews(t)
  /\ serving[t] = "none" => wire[t] = <<>> /\ frameChain[t] = <<>> /\ handler[t] = "free"
  /\ Completes(t) => serving[t] = "over"
  /\ done[t] # "open" /\ t \notin cancelledByUser /\ connOf[t] = conn /\ link = "up"
       => serving[t] = "over"
StagesInv ==
  /\ \A t \in Streams : StageOf(t)
  /\ \A t, u \in Streams : u < t /\ screen[t] # "idle" => screen[u] = "ended"
ResponsesInv ==
  /\ \A r \in responses : handler[r.by] = "answering" /\ (r.on # 0 => connOf[r.by] <= r.on)
  /\ \A r, s \in responses : r.by = s.by => r = s

(* A stream carries the frames of its task, the one that ends it last; a   *)
(* plan of another task only if that one was cancelled.                    *)
ItsPlan(f, t) == f.kind = "plan" => f.of = t \/ f.of \in cancelledByUser
WireOf(t) ==
  /\ \A k \in 1..Len(wire[t]) :
       /\ wire[t][k].kind # "plan" => wire[t][k].of = t
       /\ wire[t][k].kind \in {"complete", "fail"} => k = Len(wire[t]) /\ serving[t] = "over"
       /\ done[t] = "open" => ItsPlan(wire[t][k], t)
  /\ wire[t] # <<>> => connOf[t] = conn /\ link = "up"
WireInv == \A t \in Streams : WireOf(t)
ChainInv ==
  /\ \A t \in Streams : \A k \in 1..Len(frameChain[t]) :
       LET f == frameChain[t][k] IN
       /\ f.kind \in {"token", "plan", "error"} /\ (f.kind # "plan" => f.of = t)
       /\ ItsPlan(f, t)
  /\ \A t \in Streams : \A k \in 1..Len(buffer[t]) : buffer[t][k].kind = "token"
     /\ buffer[t][k].of = t

(* The tokens of stream t among the entries s are those after the a-th up  *)
(* to the b-th, each once and in order.                                    *)
Counts(s, t, a, b) ==
  /\ {s[i].n : i \in PlacesOf(s, "token", t)} = (a + 1)..b
  /\ \A i, j \in PlacesOf(s, "token", t) : i < j => s[i].n < s[j].n

Flows(t, a, b, c) ==
  /\ a <= b /\ b <= c /\ c <= sentTokens[t]
  /\ Counts(transcript, t, 0, a) /\ Counts(buffer[t], t, a, b) /\ Counts(frameChain[t], t, b, c)
  /\ done[t] = "open" => Counts(wire[t], t, c, sentTokens[t])
  /\ Completes(t) => c = sentTokens[t]
KeptUpTo(t, a) ==
  Counts(transcript, t, 0, a) /\ (Completes(t) => a = sentTokens[t])
OrderOf(t) ==
  /\ screen[t] = "streaming" => \E a, b, c \in 0..sentTokens[t] : Flows(t, a, b, c)
  /\ screen[t] = "ended" /\ t \notin late => \E a \in 0..sentTokens[t] : KeptUpTo(t, a)
OrderInv == \A t \in Streams : OrderOf(t)

(* An error is on its way once, and then it is shown once.                 *)
NoError(s, t) == PlacesOf(s, "error", t) = {}
OnceUnderWay(t) ==
  /\ IF t \in errorShown
     THEN OneError(transcript, t) /\ NoError(frameChain[t], t) /\ NoError(wire[t], t)
     ELSE NoError(transcript, t)
  /\ OneError(frameChain[t], t) /\ OneError(wire[t], t)
  /\ NoError(frameChain[t], t) \/ NoError(wire[t], t)
  /\ \/ t \notin errorShown /\ NoError(frameChain[t], t) /\ NoError(wire[t], t)
     \/ serving[t] \in {"failed", "over"}
ErrorsFor(t) ==
  /\ screen[t] = "streaming" => OnceUnderWay(t)
  /\ screen[t] = "ended" /\ t \notin late => OneError(transcript, t)
ErrorsInv == \A t \in Streams : ErrorsFor(t)

ScreenIInv ==
  /\ StreamTypes /\ SessionsInv /\ ReviewsInv /\ StagesInv /\ ResponsesInv /\ WireInv /\ ChainInv
  /\ OrderInv /\ ErrorsInv /\ QuietPrompt /\ LateOnlyIfCut /\ PlanOfItsTask /\ ClosedIsReleased

(* Where the entries of a kind are in a text that another one follows ...  *)
LEMMA PlacesOfConcat ==
  ASSUME NEW X, NEW s \in Seq(X), NEW u \in Seq(X), NEW kind, NEW t
  PROVE  /\ s \o u \in Seq(X) /\ Len(s \o u) = Len(s) + Len(u) /\ Len(s) \in Nat /\ Len(u) \in Nat
         /\ \A i \in 1..Len(s) : (s \o u)[i] = s[i]
         /\ \A i \in 1..Len(u) : (s \o u)[Len(s) + i] = u[i]
         /\ \A i \in PlacesOf(s \o u, kind, t) :
              i \in PlacesOf(s, kind, t)
                \/ (i - Len(s) \in PlacesOf(u, kind, t) /\ i = Len(s) + (i - Len(s)))
         /\ \A i \in PlacesOf(s, kind, t) : i \in PlacesOf(s \o u, kind, t) /\ i <= Len(s)
         /\ \A i \in PlacesOf(u, kind, t) : Len(s) + i \in PlacesOf(s \o u, kind, t)
            /\ Len(s) + i > Len(s)
<1>1. /\ s \o u \in Seq(X) /\ Len(s \o u) = Len(s) + Len(u) /\ Len(s) \in Nat /\ Len(u) \in Nat
  OBVIOUS
<1>2. \A i \in 1..Len(s) : (s \o u)[i] = s[i]
  OBVIOUS
<1>3. \A i \in 1..Len(u) : (s \o u)[Len(s) + i] = u[i]
  OBVIOUS
<1>. DEFINE w == s \o u
<1>. HIDE DEF w
<1>4. ASSUME NEW i \in PlacesOf(w, kind, t)
      PROVE  i \in PlacesOf(s, kind, t)
               \/ (i - Len(s) \in PlacesOf(u, kind, t) /\ i = Len(s) + (i - Len(s)))
  <2>1. i \in 1..(Len(s) + Len(u)) /\ w[i].kind = kind /\ w[i].of = t
    BY <1>1 DEF PlacesOf, w
  <2>2. CASE i <= Len(s)
    BY <1>1, <1>2, <2>1, <2>2 DEF PlacesOf, w
  <2>3. CASE i > Len(s)
    <3>1. i - Len(s) \in 1..Len(u) /\ i = Len(s) + (i - Len(s))
      BY <1>1, <2>1, <2>3
    <3>2. w[i] = u[i - Len(s)]
      BY <1>3, <3>1 DEF w
    <3>. QED
      BY <2>1, <3>1, <3>2 DEF PlacesOf
  <2>. QED
    BY <1>1, <2>1, <2>2, <2>3
<1>5. ASSUME NEW i \in PlacesOf(s, kind, t)
      PROVE  i \in PlacesOf(w, kind, t) /\ i <= Len(s)
  BY <1>1, <1>2 DEF PlacesOf, w
<1>6. ASSUME NEW i \in PlacesOf(u, kind, t)
      PROVE  Len(s) + i \in PlacesOf(w, kind, t) /\ Len(s) + i > Len(s)
  BY <1>1, <1>3 DEF PlacesOf, w
<1>. QED
  BY <1>1, <1>2, <1>3, <1>4, <1>5, <1>6 DEF w

(* ... and what of it counts on.                                           *)
LEMMA CountsConcat ==
  ASSUME NEW s \in Seq(StreamFrames), NEW u \in Seq(StreamFrames), NEW t,
         NEW a \in Nat, NEW b \in Nat, NEW c \in Nat, a <= b, b <= c,
         Counts(s, t, a, b), Counts(u, t, b, c)
  PROVE  Counts(s \o u, t, a, c)
<1>. DEFINE w == s \o u
            n == Len(s)
<1>1. /\ w \in Seq(StreamFrames) /\ n \in Nat
      /\ \A i \in 1..n : w[i] = s[i]
      /\ \A i \in 1..Len(u) : w[n + i] = u[i]
      /\ \A i \in PlacesOf(w, "token", t) :
           i \in PlacesOf(s, "token", t) \/ (i - n \in PlacesOf(u, "token", t) /\ i = n + (i - n))
      /\ \A i \in PlacesOf(s, "token", t) : i \in PlacesOf(w, "token", t) /\ i <= n
      /\ \A i \in PlacesOf(u, "token", t) : n + i \in PlacesOf(w, "token", t) /\ n + i > n
  BY PlacesOfConcat
<1>. HIDE DEF w, n
<1>2. /\ \A i \in PlacesOf(s, "token", t) : i \in 1..n /\ s[i].n \in (a + 1)..b /\ w[i].n = s[i].n
      /\ \A i \in PlacesOf(u, "token", t) : i \in 1..Len(u) /\ u[i].n \in (b + 1)..c
         /\ w[n + i].n = u[i].n
  BY <1>1 DEF Counts, PlacesOf, n
<1>3. ASSUME NEW i \in PlacesOf(w, "token", t) PROVE w[i].n \in (a + 1)..c
  <2>1. CASE i \in PlacesOf(s, "token", t)
    <3>1. w[i].n \in (a + 1)..b
      BY <1>2, <2>1
    <3>. QED
      BY <3>1
  <2>2. CASE i - n \in PlacesOf(u, "token", t) /\ i = n + (i - n)
    <3>1. w[i].n \in (b + 1)..c
      BY <1>2, <2>2
    <3>. QED
      BY <3>1
  <2>. QED
    BY <1>1, <2>1, <2>2
<1>4. ASSUME NEW m \in (a + 1)..c PROVE \E i \in PlacesOf(w, "token", t) : w[i].n = m
  <2>1. CASE m <= b
    <3>1. PICK i \in PlacesOf(s, "token", t) : s[i].n = m
      BY <2>1 DEF Counts
    <3>. QED
      BY <1>1, <1>2, <3>1
  <2>2. CASE m > b
    <3>1. PICK i \in PlacesOf(u, "token", t) : u[i].n = m
      BY <2>2 DEF Counts
    <3>. QED
      BY <1>1, <1>2, <3>1
  <2>. QED
    BY <2>1, <2>2
<1>5. ASSUME NEW i \in PlacesOf(w, "token", t), NEW j \in PlacesOf(w, "token", t), i < j
      PROVE  w[i].n < w[j].n
  <2>1. CASE i \in PlacesOf(s, "token", t) /\ j \in PlacesOf(s, "token", t)
    BY <1>2, <1>5, <2>1 DEF Counts
  <2>2. CASE i \in PlacesOf(s, "token", t) /\ j - n \in PlacesOf(u, "token", t) /\ j = n + (j - n)
    BY <1>2, <2>2
  <2>3. CASE i - n \in PlacesOf(u, "token", t) /\ j \in PlacesOf(s, "token", t) /\ i = n + (i - n)
    BY <1>1, <1>2, <1>5, <2>3
  <2>4. CASE /\ i - n \in PlacesOf(u, "token", t) /\ j - n \in PlacesOf(u, "token", t)
             /\ i = n + (i - n) /\ j = n + (j - n)
    <3>1. i - n \in Nat /\ j - n \in Nat /\ i - n < j - n
      BY <1>1, <1>2, <1>5, <2>4
    <3>2. u[i - n].n < u[j - n].n
      BY <2>4, <3>1 DEF Counts
    <3>. QED
      BY <1>2, <2>4, <3>2
  <2>. QED
    BY <1>1, <2>1, <2>2, <2>3, <2>4
<1>6. {w[i].n : i \in PlacesOf(w, "token", t)} = (a + 1)..c
  BY <1>3, <1>4
<1>. QED
  BY <1>5, <1>6 DEF Counts, w

(* Entries without a token of the stream do not count.                     *)
LEMMA CountsOthers ==
  ASSUME NEW u \in Seq(StreamFrames), NEW t, NEW a \in Nat, PlacesOf(u, "token", t) = {}
  PROVE  Counts(u, t, a, a)
<1>1. (a + 1)..a = {}
  OBVIOUS
<1>. QED
  BY <1>1 DEF Counts

(* The next token counts.                                                  *)
LEMMA CountsToken ==
  ASSUME NEW t \in Streams, NEW n \in Nat
  PROVE  Token(t, n + 1) \in StreamFrames /\ Counts(<<Token(t, n + 1)>>, t, n, n + 1)
<1>. DEFINE s == <<Token(t, n + 1)>>
<1>1. Token(t, n + 1) \in StreamFrames /\ Len(s) = 1 /\ s[1].kind = "token" /\ s[1].of = t
      /\ s[1].n = n + 1
  BY DEF StreamFrames, Token
<1>2. PlacesOf(s, "token", t) = {1}
  BY <1>1 DEF PlacesOf
<1>. HIDE DEF s
<1>3. (n + 1)..(n + 1) = {n + 1}
  OBVIOUS
<1>. QED
  BY <1>1, <1>2, <1>3 DEF Counts, s

(* A text that is cut counts up to some token, and on from it.             *)
LEMMA CountsSplit ==
  ASSUME NEW s \in Seq(StreamFrames), NEW u \in Seq(StreamFrames), NEW t,
         NEW a \in Nat, NEW c \in Nat, a <= c, Counts(s \o u, t, a, c)
  PROVE  \E b \in a..c : Counts(s, t, a, b) /\ Counts(u, t, b, c)
<1>. DEFINE w == s \o u
            n == Len(s)
<1>1. /\ w \in Seq(StreamFrames) /\ n \in Nat
      /\ \A i \in 1..n : w[i] = s[i]
      /\ \A i \in 1..Len(u) : w[n + i] = u[i]
      /\ \A i \in PlacesOf(w, "token", t) :
           i \in PlacesOf(s, "token", t) \/ (i - n \in PlacesOf(u, "token", t) /\ i = n + (i - n))
      /\ \A i \in PlacesOf(s, "token", t) : i \in PlacesOf(w, "token", t) /\ i <= n
      /\ \A i \in PlacesOf(u, "token", t) : n + i \in PlacesOf(w, "token", t) /\ n + i > n
  BY PlacesOfConcat
<1>2. Counts(w, t, a, c)
  OBVIOUS
<1>. HIDE DEF w, n
<1>3. /\ \A i \in PlacesOf(s, "token", t) : i \in 1..n /\ s[i].n \in (a + 1)..c /\ w[i].n = s[i].n
      /\ \A i \in PlacesOf(u, "token", t) : i \in 1..Len(u) /\ u[i].n \in (a + 1)..c
         /\ w[n + i].n = u[i].n
  BY <1>1, <1>2 DEF Counts, PlacesOf, n
<1>4. \A i, j \in PlacesOf(s, "token", t) : i < j => s[i].n < s[j].n
  BY <1>1, <1>2, <1>3 DEF Counts
<1>5. ASSUME NEW i \in PlacesOf(u, "token", t), NEW j \in PlacesOf(u, "token", t), i < j
      PROVE  u[i].n < u[j].n
  <2>1. n + i < n + j
    BY <1>1, <1>3, <1>5
  <2>. QED
    BY <1>1, <1>2, <1>3, <2>1 DEF Counts
<1>6. \A i \in PlacesOf(s, "token", t), j \in PlacesOf(u, "token", t) : s[i].n < u[j].n
  <2>. SUFFICES ASSUME NEW i \in PlacesOf(s, "token", t), NEW j \in PlacesOf(u, "token", t)
                PROVE  s[i].n < u[j].n
    OBVIOUS
  <2>1. i < n + j
    BY <1>1, <1>3
  <2>. QED
    BY <1>1, <1>2, <1>3, <2>1 DEF Counts
<1>7. \A m \in (a + 1)..c :
        \/ \E i \in PlacesOf(s, "token", t) : s[i].n = m
        \/ \E i \in PlacesOf(u, "token", t) : u[i].n = m
  <2>. SUFFICES ASSUME NEW m \in (a + 1)..c
                PROVE  \/ \E i \in PlacesOf(s, "token", t) : s[i].n = m
                       \/ \E i \in PlacesOf(u, "token", t) : u[i].n = m
    OBVIOUS
  <2>1. PICK i \in PlacesOf(w, "token", t) : w[i].n = m
    BY <1>2 DEF Counts
  <2>. QED
    BY <1>1, <1>3, <2>1
<1>8. CASE PlacesOf(u, "token", t) = {}
  <2>1. Counts(s, t, a, c)
    BY <1>3, <1>4, <1>7, <1>8 DEF Counts
  <2>. QED
    BY <1>8, <2>1, CountsOthers
<1>9. CASE PlacesOf(u, "token", t) # {}
  <2>. DEFINE N == {u[i].n : i \in PlacesOf(u, "token", t)}
  <2>1. N \subseteq Nat /\ N # {}
    BY <1>3, <1>9
  <2>2. PICK x \in N : \A y \in N : x <= y
    BY <2>1, LeastNumber
  <2>3. PICK k \in PlacesOf(u, "token", t) : x = u[k].n
    BY <2>2
  <2>4. x \in (a + 1)..c /\ x - 1 \in a..c /\ (x - 1) + 1 = x
    BY <1>3, <2>3
  <2>5. Counts(s, t, a, x - 1)
    <3>1. \A i \in PlacesOf(s, "token", t) : s[i].n \in (a + 1)..(x - 1)
      <4>. SUFFICES ASSUME NEW i \in PlacesOf(s, "token", t) PROVE s[i].n \in (a + 1)..(x - 1)
        OBVIOUS
      <4>1. PICK y \in (a + 1)..c : y = s[i].n
        BY <1>3
      <4>2. y < x
        BY <1>6, <2>3, <4>1
      <4>3. y \in (a + 1)..(x - 1)
        BY <2>4, <4>2
      <4>. QED
        BY <4>1, <4>3
    <3>2. \A m \in (a + 1)..(x - 1) : \E i \in PlacesOf(s, "token", t) : s[i].n = m
      <4>. SUFFICES ASSUME NEW m \in (a + 1)..(x - 1) PROVE \E i \in PlacesOf(s, "token", t)
                             : s[i].n = m
        OBVIOUS
      <4>1. m \in (a + 1)..c /\ ~(x <= m)
        BY <2>4
      <4>2. m \notin N
        BY <2>2, <4>1
      <4>3. ~ \E i \in PlacesOf(u, "token", t) : u[i].n = m
        BY <4>2
      <4>. QED
        BY <1>7, <4>1, <4>3
    <3>3. {s[i].n : i \in PlacesOf(s, "token", t)} = (a + 1)..(x - 1)
      BY <3>1, <3>2
    <3>. QED
      BY <1>4, <3>3 DEF Counts
  <2>6. Counts(u, t, x - 1, c)
    <3>1. \A i \in PlacesOf(u, "token", t) : u[i].n \in x..c
      BY <1>3, <2>2, <2>4
    <3>2. \A m \in x..c : \E i \in PlacesOf(u, "token", t) : u[i].n = m
      <4>. SUFFICES ASSUME NEW m \in x..c PROVE \E i \in PlacesOf(u, "token", t) : u[i].n = m
        OBVIOUS
      <4>1. m \in (a + 1)..c
        BY <2>4
      <4>2. ~ \E i \in PlacesOf(s, "token", t) : s[i].n = m
        BY <1>3, <1>6, <2>3, <2>4
      <4>. QED
        BY <1>7, <4>1, <4>2
    <3>3. {u[i].n : i \in PlacesOf(u, "token", t)} = ((x - 1) + 1)..c
      BY <2>4, <3>1, <3>2
    <3>. QED
      BY <1>5, <3>3 DEF Counts
  <2>. QED
    BY <2>4, <2>5, <2>6
<1>. QED
  BY <1>8, <1>9

(* The entries of two texts together.                                      *)
LEMMA ConcatParts ==
  ASSUME NEW s \in Seq(StreamFrames), NEW u \in Seq(StreamFrames)
  PROVE  /\ s \o u \in Seq(StreamFrames) /\ Len(s \o u) = Len(s) + Len(u) /\ Len(s) \in Nat
            /\ Len(u) \in Nat
         /\ \A i \in 1..Len(s) : (s \o u)[i] = s[i]
         /\ \A i \in 1..Len(u) : (s \o u)[Len(s) + i] = u[i]
  OBVIOUS

(* An empty text counts nothing.                                           *)
LEMMA CountsEmpty ==
  ASSUME NEW t, NEW a \in Nat
  PROVE  /\ <<>> \in Seq(StreamFrames) /\ Counts(<<>>, t, a, a)
         /\ \A b \in Nat : a <= b /\ Counts(<<>>, t, a, b) => b = a
<1>. DEFINE s == <<>>
<1>1. s \in Seq(StreamFrames) /\ PlacesOf(s, "token", t) = {}
  BY DEF PlacesOf
<1>2. Counts(s, t, a, a)
  BY <1>1, CountsOthers
<1>3. ASSUME NEW b \in Nat, a <= b, Counts(s, t, a, b) PROVE b = a
  <2>1. (a + 1)..b = {}
    BY <1>1, <1>3 DEF Counts
  <2>. QED
    BY <1>3, <2>1
<1>. QED
  BY <1>1, <1>2, <1>3

(* Text without a token of the stream, behind a text that counts.          *)
LEMMA CountsBeside ==
  ASSUME NEW s \in Seq(StreamFrames), NEW u \in Seq(StreamFrames), NEW t,
         NEW a \in Nat, NEW b \in Nat, a <= b, Counts(s, t, a, b),
         \A i \in 1..Len(u) : ~(u[i].kind = "token" /\ u[i].of = t)
  PROVE  Counts(s \o u, t, a, b)
<1>1. PlacesOf(u, "token", t) = {}
  BY DEF PlacesOf
<1>2. Counts(u, t, b, b)
  BY <1>1, CountsOthers
<1>. QED
  BY <1>2, CountsConcat

(* One frame at the end of a text.                                         *)
LEMMA AppendedIsConcat ==
  ASSUME NEW s \in Seq(StreamFrames), NEW f \in StreamFrames
  PROVE  /\ Append(s, f) = s \o <<f>> /\ <<f>> \in Seq(StreamFrames)
            /\ Append(s, f) \in Seq(StreamFrames)
         /\ Len(Append(s, f)) = Len(s) + 1 /\ Append(s, f)[Len(s) + 1] = f
         /\ \A i \in 1..Len(s) : Append(s, f)[i] = s[i]
  OBVIOUS

(* The next token extends a text that counts, another frame does not.      *)
LEMMA CountsAppend ==
  ASSUME NEW s \in Seq(StreamFrames), NEW t \in Streams, NEW a \in Nat, NEW b \in Nat, a <= b,
         Counts(s, t, a, b), NEW f \in StreamFrames
  PROVE  /\ f.kind = "token" /\ f.of = t /\ f.n = b + 1 => Counts(Append(s, f), t, a, b + 1)
         /\ f.kind # "token" \/ f.of # t => Counts(Append(s, f), t, a, b)
<1>1. Append(s, f) = s \o <<f>> /\ <<f>> \in Seq(StreamFrames)
  BY AppendedIsConcat
<1>2. ASSUME f.kind = "token", f.of = t, f.n = b + 1
      PROVE  Counts(Append(s, f), t, a, b + 1)
  <2>1. f = Token(t, b + 1)
    BY <1>2 DEF StreamFrames, Token
  <2>2. Counts(<<f>>, t, b, b + 1)
    BY <2>1, CountsToken
  <2>3. b + 1 \in Nat /\ b <= b + 1
    OBVIOUS
  <2>4. Counts(s \o <<f>>, t, a, b + 1)
    BY <1>1, <2>2, <2>3, CountsConcat
  <2>. QED
    BY <1>1, <2>4
<1>3. ASSUME f.kind # "token" \/ f.of # t
      PROVE  Counts(Append(s, f), t, a, b)
  <2>1. \A i \in 1..Len(<<f>>) : ~(<<f>>[i].kind = "token" /\ <<f>>[i].of = t)
    BY <1>3
  <2>. QED
    BY <1>1, <2>1, CountsBeside
<1>. QED
  BY <1>2, <1>3

(* What one frame alone counts.                                            *)
LEMMA CountsOne ==
  ASSUME NEW f \in StreamFrames, NEW t, NEW a \in Nat, NEW b \in Nat, a <= b, Counts(<<f>>, t, a,
           b)
  PROVE  /\ f.kind = "token" /\ f.of = t => f.n = a + 1 /\ b = a + 1
         /\ f.kind # "token" \/ f.of # t => b = a
<1>. DEFINE s == <<f>>
<1>1. Len(s) = 1 /\ s[1] = f /\ Counts(s, t, a, b)
  OBVIOUS
<1>. HIDE DEF s
<1>2. ASSUME f.kind = "token", f.of = t PROVE f.n = a + 1 /\ b = a + 1
  <2>1. PlacesOf(s, "token", t) = {1}
    BY <1>1, <1>2 DEF PlacesOf
  <2>2. (a + 1)..b = {f.n}
    BY <1>1, <2>1 DEF Counts
  <2>3. f.n \in (a + 1)..b
    BY <2>2
  <2>4. a + 1 \in (a + 1)..b /\ b \in (a + 1)..b
    BY <2>3
  <2>. QED
    BY <2>2, <2>4
<1>3. ASSUME f.kind # "token" \/ f.of # t PROVE b = a
  <2>1. PlacesOf(s, "token", t) = {}
    BY <1>1, <1>3 DEF PlacesOf
  <2>2. (a + 1)..b = {}
    BY <1>1, <2>1 DEF Counts
  <2>. QED
    BY <2>2
<1>. QED
  BY <1>2, <1>3

(* A text that is not empty is its head and the rest.                      *)
LEMMA HeadAndTail ==
  ASSUME NEW s \in Seq(StreamFrames), s # <<>>
  PROVE  /\ s = <<Head(s)>> \o Tail(s) /\ Head(s) \in StreamFrames
            /\ Tail(s) \in Seq(StreamFrames)
         /\ Len(s) \in Nat \ {0} /\ Head(s) = s[1] /\ Len(Tail(s)) = Len(s) - 1
         /\ \A i \in 1..Len(Tail(s)) : i + 1 \in 1..Len(s) /\ Tail(s)[i] = s[i + 1]
  OBVIOUS

(* The head of a text that counts is the next token, or does not count.    *)
LEMMA CountsHead ==
  ASSUME NEW s \in Seq(StreamFrames), s # <<>>, NEW t, NEW a \in Nat, NEW c \in Nat, a <= c,
         Counts(s, t, a, c)
  PROVE  LET f == Head(s) IN
         \/ f.kind = "token" /\ f.of = t /\ f.n = a + 1 /\ a + 1 <= c
            /\ Counts(Tail(s), t, a + 1, c)
         \/ (f.kind # "token" \/ f.of # t) /\ Counts(Tail(s), t, a, c)
<1>1. s = <<Head(s)>> \o Tail(s) /\ Head(s) \in StreamFrames /\ Tail(s) \in Seq(StreamFrames)
  BY HeadAndTail
<1>2. <<Head(s)>> \in Seq(StreamFrames)
  BY <1>1
<1>4. \A x : s = x => Counts(x, t, a, c)
  OBVIOUS
<1>5. Counts(<<Head(s)>> \o Tail(s), t, a, c)
  BY <1>1, <1>4, Zenon
<1>3. PICK b \in a..c : Counts(<<Head(s)>>, t, a, b) /\ Counts(Tail(s), t, b, c)
  BY <1>1, <1>2, <1>5, CountsSplit
<1>. QED
  BY <1>1, <1>3, CountsOne

(* Texts of one length are the same if their entries are.                  *)
LEMMA SameText ==
  ASSUME NEW s \in Seq(StreamFrames), NEW u \in Seq(StreamFrames), Len(u) = Len(s),
         \A i \in 1..Len(s) : u[i] = s[i]
  PROVE  s = u
  OBVIOUS

(* A text of frames is what comes before a place of it and what comes      *)
(* after.                                                                  *)
LEMMA CutAt ==
  ASSUME NEW s \in Seq(StreamFrames), NEW k \in 1..Len(s)
  PROVE  /\ SubSeq(s, 1, k) \in Seq(StreamFrames)
            /\ SubSeq(s, k + 1, Len(s)) \in Seq(StreamFrames)
         /\ SubSeq(s, 1, k - 1) \in Seq(StreamFrames) /\ s[k] \in StreamFrames
         /\ s = SubSeq(s, 1, k) \o SubSeq(s, k + 1, Len(s))
         /\ SubSeq(s, 1, k) = Append(SubSeq(s, 1, k - 1), s[k])
         /\ Len(SubSeq(s, 1, k)) = k /\ Len(SubSeq(s, 1, k - 1)) = k - 1
         /\ Len(SubSeq(s, k + 1, Len(s))) = Len(s) - k
         /\ \A i \in 1..k : SubSeq(s, 1, k)[i] = s[i]
         /\ \A i \in 1..(k - 1) : SubSeq(s, 1, k - 1)[i] = s[i]
         /\ \A i \in 1..(Len(s) - k) : SubSeq(s, k + 1, Len(s))[i] = s[k + i]
<1>. DEFINE n == Len(s)
            p == SubSeq(s, 1, k)
            q == SubSeq(s, k + 1, n)
            o == SubSeq(s, 1, k - 1)
<1>1. n \in Nat /\ k \in Nat /\ 1 <= k /\ k <= n /\ \A i \in 1..n : s[i] \in StreamFrames
  OBVIOUS
<1>2. p \in Seq(StreamFrames) /\ Len(p) = k /\ \A i \in 1..k : p[i] = s[i]
  BY <1>1
<1>3. q \in Seq(StreamFrames) /\ Len(q) = n - k /\ \A i \in 1..(n - k) : q[i] = s[k + i]
  BY <1>1
<1>4. o \in Seq(StreamFrames) /\ Len(o) = k - 1 /\ \A i \in 1..(k - 1) : o[i] = s[i]
  BY <1>1
<1>. HIDE DEF p, q, o
<1>5. s = p \o q
  <2>a. p \o q \in Seq(StreamFrames)
    BY <1>2, <1>3
  <2>b. Len(p \o q) = Len(p) + Len(q)
    BY <1>2, <1>3, PlacesOfConcat
  <2>c. Len(p) + Len(q) = n
    BY <1>1, <1>2, <1>3
  <2>1. p \o q \in Seq(StreamFrames) /\ Len(p \o q) = n
    BY <2>a, <2>b, <2>c
  <2>2. ASSUME NEW i \in 1..n PROVE (p \o q)[i] = s[i]
    <3>1. CASE i <= k
      BY <1>1, <1>2, <1>3, <3>1
    <3>2. CASE i > k
      <4>1. i - k \in 1..(n - k) /\ k + (i - k) = i
        BY <1>1, <3>2
      <4>2. (p \o q)[i] = q[i - k]
        BY <1>1, <1>2, <1>3, <3>2
      <4>. QED
        BY <1>3, <4>1, <4>2
    <3>3. i \in Nat /\ (i <= k \/ i > k)
      BY <1>1
    <3>. QED
      BY <3>1, <3>2, <3>3
  <2>3. Len(p \o q) = Len(s)
    BY <2>1
  <2>. QED
    BY <2>1, <2>2, <2>3, SameText
<1>6. p = Append(o, s[k])
  <2>1. Append(o, s[k]) \in Seq(StreamFrames) /\ Len(Append(o, s[k])) = k
    BY <1>1, <1>4
  <2>2. ASSUME NEW i \in 1..k PROVE Append(o, s[k])[i] = p[i]
    BY <1>1, <1>2, <1>4
  <2>. QED
    BY <1>2, <2>1, <2>2
<1>. QED
  BY <1>1, <1>2, <1>3, <1>4, <1>5, <1>6 DEF p, q, o

(* Where the errors are in two texts together.                             *)
LEMMA ErrorsConcat ==
  ASSUME NEW s \in Seq(StreamFrames), NEW u \in Seq(StreamFrames), NEW t
  PROVE  /\ NoError(s \o u, t) <=> NoError(s, t) /\ NoError(u, t)
         /\ OneError(s, t) /\ NoError(u, t) => OneError(s \o u, t)
         /\ NoError(s, t) /\ OneError(u, t) => OneError(s \o u, t)
         /\ OneError(s \o u, t) => OneError(s, t) /\ OneError(u, t)
            /\ (NoError(s, t) \/ NoError(u, t))
<1>. DEFINE w == s \o u
            n == Len(s)
<1>1. /\ w \in Seq(StreamFrames) /\ n \in Nat
      /\ \A i \in PlacesOf(w, "error", t) :
           i \in PlacesOf(s, "error", t) \/ (i - n \in PlacesOf(u, "error", t) /\ i = n + (i - n))
      /\ \A i \in PlacesOf(s, "error", t) : i \in PlacesOf(w, "error", t) /\ i <= n
      /\ \A i \in PlacesOf(u, "error", t) : n + i \in PlacesOf(w, "error", t) /\ n + i > n
  BY PlacesOfConcat
<1>2. \A i \in PlacesOf(u, "error", t) : i \in Nat
  BY DEF PlacesOf
<1>3. \A i \in PlacesOf(s, "error", t) : i \in Nat
  BY DEF PlacesOf
<1>. HIDE DEF w, n
<1>4. NoError(w, t) <=> NoError(s, t) /\ NoError(u, t)
  BY <1>1 DEF NoError
<1>5. ASSUME OneError(s, t), NoError(u, t) PROVE OneError(w, t)
  BY <1>1, <1>5 DEF NoError, OneError
<1>6. ASSUME NoError(s, t), OneError(u, t) PROVE OneError(w, t)
  BY <1>1, <1>2, <1>6 DEF NoError, OneError
<1>7. ASSUME OneError(w, t)
      PROVE  OneError(s, t) /\ OneError(u, t) /\ (NoError(s, t) \/ NoError(u, t))
  <2>1. OneError(s, t)
    BY <1>1, <1>7 DEF OneError
  <2>2. ASSUME NEW i \in PlacesOf(u, "error", t), NEW j \in PlacesOf(u, "error", t) PROVE i = j
    <3>1. n + i = n + j
      BY <1>1, <1>7 DEF OneError
    <3>. QED
      BY <1>1, <1>2, <3>1
  <2>3. ASSUME NEW i \in PlacesOf(s, "error", t), NEW j \in PlacesOf(u, "error", t) PROVE FALSE
    <3>1. i = n + j /\ i <= n /\ n + j > n
      BY <1>1, <1>7 DEF OneError
    <3>. QED
      BY <1>1, <1>2, <1>3, <3>1
  <2>. QED
    BY <2>1, <2>2, <2>3 DEF OneError, NoError
<1>. QED
  BY <1>4, <1>5, <1>6, <1>7 DEF w

(* An empty text has no error, nor has one whose frames are of another     *)
(* kind or stream; the one of a single frame is the only one.              *)
LEMMA ErrorsOf ==
  ASSUME NEW t
  PROVE  /\ NoError(<<>>, t)
         /\ \A s : (\A i \in 1..Len(s) : ~(s[i].kind = "error" /\ s[i].of = t)) => NoError(s, t)
         /\ \A s : NoError(s, t) => OneError(s, t)
         /\ \A f : OneError(<<f>>, t) /\ (NoError(<<f>>, t) <=> ~(f.kind = "error" /\ f.of = t))
<1>1. NoError(<<>>, t)
  BY DEF NoError, PlacesOf
<1>2. \A s : (\A i \in 1..Len(s) : ~(s[i].kind = "error" /\ s[i].of = t)) => NoError(s, t)
  BY DEF NoError, PlacesOf
<1>3. \A s : NoError(s, t) => OneError(s, t)
  BY DEF NoError, OneError
<1>4. ASSUME NEW f PROVE OneError(<<f>>, t)
               /\ (NoError(<<f>>, t) <=> ~(f.kind = "error" /\ f.of = t))
  <2>. DEFINE s == <<f>>
  <2>1. Len(s) = 1 /\ s[1] = f
    OBVIOUS
  <2>. HIDE DEF s
  <2>2. PlacesOf(s, "error", t) \subseteq {1}
    BY <2>1 DEF PlacesOf
  <2>3. 1 \in PlacesOf(s, "error", t) <=> f.kind = "error" /\ f.of = t
    BY <2>1 DEF PlacesOf
  <2>4. OneError(s, t) /\ (NoError(s, t) <=> ~(f.kind = "error" /\ f.of = t))
    BY <2>2, <2>3 DEF OneError, NoError
  <2>. QED
    BY <2>4 DEF s
<1>. QED
  BY <1>1, <1>2, <1>3, <1>4

(* What a step of the server is to a stream: its stage moves on, and at    *)
(* most one frame is put on its wire.                                      *)
MovedStage(t) ==
  /\ serving[t] = "over" => serving'[t] = "over"
  /\ serving[t] = "failed" => serving'[t] \in {"failed", "over"}
Sent(t, f) ==
  \/ f.kind = "token" /\ f.of = t /\ f.n = sentTokens[t] + 1 /\ sentTokens'[t] = sentTokens[t] + 1
  \/ f.kind = "plan" /\ sentTokens'[t] = sentTokens[t] /\ (done[t] = "open" => ItsPlan(f, t))
  \/ /\ f.kind = "error" /\ f.of = t /\ sentTokens'[t] = sentTokens[t]
     /\ serving[t] = "turn" /\ serving'[t] = "failed"
  \/ f.kind \in {"complete", "fail"} /\ f.of = t /\ sentTokens'[t] = sentTokens[t]
     /\ serving'[t] = "over"
MovedWire(t) ==
  \/ wire'[t] = wire[t] /\ sentTokens'[t] = sentTokens[t]
  \/ /\ wire'[t] = wire[t] /\ sentTokens'[t] = sentTokens[t] + 1 /\ serving[t] = "turn"
     /\ ~(connOf[t] = conn /\ link = "up")
  \/ /\ serving[t] \notin {"over", "none"} /\ connOf[t] = conn /\ link = "up"
     /\ \E f \in StreamFrames : wire'[t] = Append(wire[t], f) /\ Sent(t, f)
ServerMoves ==
  /\ \A t \in Streams : MovedStage(t) /\ MovedWire(t)
  /\ wire' \in [Streams -> Seq(StreamFrames)] /\ sentTokens' \in [Streams -> Nat]
  /\ UNCHANGED <<linkVars, frameChain, done, screen, buffer, errorShown, cancelledByUser,
                 transcript, late>>

(* A step of the server leaves the wire in order.                          *)
LEMMA MovesKeepWire ==
  ASSUME ScreenIInv, ServerMoves
  PROVE  WireInv'
<1>. SUFFICES ASSUME NEW t \in Streams
              PROVE  WireOf(t)'
  BY DEF WireInv
<1>1. /\ wire[t] \in Seq(StreamFrames)
      /\ WireOf(t)
  BY DEF ScreenIInv, StreamTypes, FrameTypes, WireInv
<1>2. /\ MovedStage(t) /\ MovedWire(t) /\ connOf' = connOf /\ conn' = conn /\ link' = link
      /\ done' = done /\ cancelledByUser' = cancelledByUser
  BY DEF ServerMoves, linkVars
<1>3. CASE wire'[t] = wire[t]
  BY <1>1, <1>2, <1>3 DEF MovedStage, ItsPlan, WireOf
<1>4. ASSUME serving[t] \notin {"over", "none"}, connOf[t] = conn, link = "up",
             NEW f \in StreamFrames, wire'[t] = Append(wire[t], f), Sent(t, f)
      PROVE  WireOf(t)'
  <2>1. /\ Len(wire'[t]) = Len(wire[t]) + 1 /\ wire'[t][Len(wire[t]) + 1] = f
        /\ \A i \in 1..Len(wire[t]) : wire'[t][i] = wire[t][i]
    BY <1>1, <1>4, AppendedIsConcat
  <2>2. Len(wire[t]) \in Nat
    BY <1>1
  <2>3. \A k \in 1..Len(wire'[t]) : k \in 1..Len(wire[t]) \/ k = Len(wire[t]) + 1
    BY <2>1, <2>2
  <2>4. /\ f.kind # "plan" => f.of = t
        /\ f.kind \in {"complete", "fail"} => serving'[t] = "over"
        /\ done[t] = "open" => ItsPlan(f, t)
    BY <1>4 DEF Sent, ItsPlan
  <2>5. \A k \in 1..Len(wire[t]) : wire[t][k].kind \notin {"complete", "fail"}
    BY <1>1, <1>4 DEF WireOf
  <2>. QED
    BY <1>1, <1>2, <1>4, <2>1, <2>3, <2>4, <2>5 DEF ItsPlan, WireOf
<1>. QED
  BY <1>2, <1>3, <1>4 DEF MovedWire

(* A step of the server leaves the tokens in order.                        *)
LEMMA MovesKeepOrder ==
  ASSUME ScreenIInv, ServerMoves
  PROVE  OrderInv'
<1>. SUFFICES ASSUME NEW t \in Streams
              PROVE  OrderOf(t)'
  BY DEF OrderInv
<1>1. /\ MovedStage(t) /\ MovedWire(t) /\ connOf' = connOf /\ conn' = conn /\ link' = link
      /\ done' = done /\ cancelledByUser' = cancelledByUser /\ screen' = screen /\ late' = late
      /\ transcript' = transcript /\ buffer' = buffer /\ frameChain' = frameChain
  BY DEF ServerMoves, linkVars
<1>2. /\ wire[t] \in Seq(StreamFrames) /\ sentTokens[t] \in Nat
      /\ screen[t] = "streaming" => \E a, b, c \in 0..sentTokens[t] : Flows(t, a, b, c)
      /\ screen[t] = "ended" /\ t \notin late => \E a \in 0..sentTokens[t] : KeptUpTo(t, a)
      /\ StageOf(t)
  BY DEF ScreenIInv, StreamTypes, FrameTypes, OrderInv, OrderOf, StagesInv
<1>3. sentTokens'[t] \in Nat /\ sentTokens[t] <= sentTokens'[t]
  BY <1>1, <1>2 DEF MovedWire, Sent, ServerMoves
<1>4. Completes(t) => sentTokens'[t] = sentTokens[t]
  BY <1>1, <1>2 DEF MovedWire, Sent, StageOf
<1>5. ASSUME NEW a \in 0..sentTokens[t], KeptUpTo(t, a) PROVE a \in 0..sentTokens'[t]
               /\ KeptUpTo(t, a)'
  <2>1. a \in 0..sentTokens'[t]
    BY <1>2, <1>3
  <2>2. Counts(transcript', t, 0, a)
    BY <1>1, <1>5 DEF KeptUpTo
  <2>3. Completes(t)' => a = sentTokens'[t]
    BY <1>1, <1>4, <1>5 DEF KeptUpTo, Completes
  <2>. QED
    BY <2>1, <2>2, <2>3 DEF KeptUpTo
<1>6. ASSUME NEW a \in 0..sentTokens[t], NEW b \in 0..sentTokens[t], NEW c \in 0..sentTokens[t],
             Flows(t, a, b, c), screen[t] = "streaming"
      PROVE  a \in 0..sentTokens'[t] /\ b \in 0..sentTokens'[t] /\ c \in 0..sentTokens'[t]
               /\ Flows(t, a, b, c)'
  <2>1. a \in 0..sentTokens'[t] /\ b \in 0..sentTokens'[t] /\ c \in 0..sentTokens'[t]
          /\ c <= sentTokens'[t]
        /\ c \in Nat /\ a \in Nat /\ b \in Nat /\ c <= sentTokens[t]
    BY <1>2, <1>3
  <2>2. /\ a <= b /\ b <= c
        /\ Counts(transcript', t, 0, a) /\ Counts(buffer'[t], t, a, b)
           /\ Counts(frameChain'[t], t, b, c)
    BY <1>1, <1>6 DEF Flows
  <2>3. Completes(t)' => c = sentTokens'[t]
    BY <1>1, <1>4, <1>6 DEF Flows, Completes
  <2>4. ASSUME done[t] = "open" PROVE Counts(wire'[t], t, c, sentTokens'[t])
    <3>1. Counts(wire[t], t, c, sentTokens[t])
      BY <1>6, <2>4 DEF Flows
    <3>2. CASE wire'[t] = wire[t] /\ sentTokens'[t] = sentTokens[t]
      BY <3>1, <3>2
    <3>3. connOf[t] = conn /\ link = "up"
      BY <1>2, <1>6, <2>4 DEF StageOf
    <3>4. ASSUME NEW f \in StreamFrames, wire'[t] = Append(wire[t], f), Sent(t, f)
          PROVE  Counts(wire'[t], t, c, sentTokens'[t])
      <4>1. /\ f.kind = "token" /\ f.of = t /\ f.n = sentTokens[t] + 1 =>
                 Counts(Append(wire[t], f), t, c, sentTokens[t] + 1)
            /\ f.kind # "token" \/ f.of # t => Counts(Append(wire[t], f), t, c, sentTokens[t])
        BY <1>2, <2>1, <3>1, CountsAppend
      <4>. QED
        BY <3>4, <4>1 DEF Sent
    <3>. QED
      BY <1>1, <3>2, <3>3, <3>4 DEF MovedWire
  <2>. QED
    BY <1>1, <2>1, <2>2, <2>3, <2>4 DEF Flows
<1>7. ASSUME screen[t] = "streaming" PROVE \E a, b, c \in 0..sentTokens'[t] : Flows(t, a, b, c)'
  <2>1. PICK a \in 0..sentTokens[t], b \in 0..sentTokens[t], c \in 0..sentTokens[t] : Flows(t, a,
               b, c)
    BY <1>2, <1>7
  <2>2. a \in 0..sentTokens'[t] /\ b \in 0..sentTokens'[t] /\ c \in 0..sentTokens'[t]
          /\ Flows(t, a, b, c)'
    BY <1>6, <1>7, <2>1
  <2>. QED
    BY <2>2
<1>8. ASSUME screen[t] = "ended", t \notin late PROVE \E a \in 0..sentTokens'[t] : KeptUpTo(t, a)'
  <2>1. PICK a \in 0..sentTokens[t] : KeptUpTo(t, a)
    BY <1>2, <1>8
  <2>2. a \in 0..sentTokens'[t] /\ KeptUpTo(t, a)'
    BY <1>5, <2>1
  <2>. QED
    BY <2>2
<1>. QED
  BY <1>1, <1>7, <1>8 DEF OrderOf

(* A step of the server sends an error once at most.                       *)
LEMMA MovesKeepErrors ==
  ASSUME ScreenIInv, ServerMoves
  PROVE  ErrorsInv'
<1>. SUFFICES ASSUME NEW t \in Streams
              PROVE  ErrorsFor(t)'
  BY DEF ErrorsInv
<1>1. /\ MovedStage(t) /\ MovedWire(t) /\ errorShown' = errorShown
      /\ screen' = screen /\ late' = late /\ transcript' = transcript /\ frameChain' = frameChain
  BY DEF ServerMoves, linkVars
<1>2. wire[t] \in Seq(StreamFrames) /\ ErrorsFor(t)
  BY DEF ScreenIInv, StreamTypes, FrameTypes, ErrorsInv
<1>3. serving[t] \in {"failed", "over"} => serving'[t] \in {"failed", "over"}
  BY <1>1 DEF MovedStage
<1>4. CASE wire'[t] = wire[t]
  BY <1>1, <1>2, <1>3, <1>4 DEF ErrorsFor, OnceUnderWay
<1>6. ASSUME NEW f \in StreamFrames, wire'[t] = Append(wire[t], f), Sent(t, f)
      PROVE  /\ NoError(wire[t], t) => OneError(wire'[t], t)
             /\ f.kind # "error" /\ OneError(wire[t], t) => OneError(wire'[t], t)
             /\ f.kind # "error" => (NoError(wire[t], t) => NoError(wire'[t], t))
             /\ f.kind = "error" => serving[t] = "turn" /\ serving'[t] = "failed"
  <2>1. wire'[t] = wire[t] \o <<f>> /\ <<f>> \in Seq(StreamFrames)
    BY <1>2, <1>6, AppendedIsConcat
  <2>2. /\ NoError(wire[t] \o <<f>>, t) <=> NoError(wire[t], t) /\ NoError(<<f>>, t)
        /\ OneError(wire[t], t) /\ NoError(<<f>>, t) => OneError(wire[t] \o <<f>>, t)
        /\ NoError(wire[t], t) /\ OneError(<<f>>, t) => OneError(wire[t] \o <<f>>, t)
    BY <1>2, <2>1, ErrorsConcat
  <2>3. OneError(<<f>>, t) /\ (f.kind # "error" => NoError(<<f>>, t))
    BY ErrorsOf
  <2>4. f.kind = "error" => serving[t] = "turn" /\ serving'[t] = "failed"
    BY <1>6 DEF Sent
  <2>. QED
    BY <2>1, <2>2, <2>3, <2>4
<1>7. ASSUME NEW f \in StreamFrames, wire'[t] = Append(wire[t], f), Sent(t, f),
               screen[t] = "streaming"
      PROVE  OnceUnderWay(t)'
  <2>1. CASE f.kind = "error"
    BY <1>1, <1>2, <1>6, <1>7, <2>1 DEF ErrorsFor, OnceUnderWay
  <2>2. CASE f.kind # "error"
    BY <1>1, <1>2, <1>3, <1>6, <1>7, <2>2 DEF ErrorsFor, OnceUnderWay
  <2>. QED
    BY <2>1, <2>2
<1>. QED
  BY <1>1, <1>2, <1>4, <1>7 DEF MovedWire, ErrorsFor

(* A frame is put on the wire of a stream, or lost.                        *)
LEMMA EmitOne ==
  ASSUME wire \in [Streams -> Seq(StreamFrames)], NEW e, NEW f, f \in StreamFrames, Emit(e, <<f>>)
  PROVE  /\ wire' \in [Streams -> Seq(StreamFrames)]
         /\ \A u \in Streams : u # e => wire'[u] = wire[u]
         /\ e \in Streams => \/ Delivers(e) /\ wire'[e] = Append(wire[e], f)
                             \/ ~Delivers(e) /\ wire'[e] = wire[e]
<1>1. wire' = [wire EXCEPT ![e] = IF Delivers(e) THEN @ \o <<f>> ELSE @]
  BY DEF Emit
<1>2. CASE e \in Streams
  <2>1. wire[e] \in Seq(StreamFrames) /\ wire[e] \o <<f>> \in Seq(StreamFrames)
        /\ Append(wire[e], f) = wire[e] \o <<f>>
    BY <1>2, AppendedIsConcat
  <2>2. /\ wire'[e] = (IF Delivers(e) THEN wire[e] \o <<f>> ELSE wire[e])
        /\ \A u \in Streams : u # e => wire'[u] = wire[u]
        /\ wire' \in [Streams -> Seq(StreamFrames)]
    BY <1>1, <1>2, <2>1
  <2>. QED
    BY <2>1, <2>2
<1>3. CASE e \notin Streams
  <2>1. wire' = wire
    BY <1>1, <1>3
  <2>. QED
    BY <1>3, <2>1
<1>. QED
  BY <1>2, <1>3

(* Two streams that are open on the connection of now are one.             *)
LEMMA OneIsOpen ==
  ASSUME ScreenIInv, NEW t \in Streams, NEW u \in Streams,
         serving[t] # "none", serving[u] # "none",
         done[t] = "open", done[u] = "open"
  PROVE  t = u
<1>1. StageOf(t) /\ StageOf(u)
      /\ screen[t] \in {"idle", "streaming", "ended"}
         /\ screen[u] \in {"idle", "streaming", "ended"}
      /\ (u < t /\ screen[t] # "idle" => screen[u] = "ended")
      /\ (t < u /\ screen[u] # "idle" => screen[t] = "ended")
  BY DEF ScreenIInv, StagesInv, StreamTypes, ScreenTypes
<1>2. screen[t] = "streaming" /\ screen[u] = "streaming"
  BY <1>1 DEF StageOf, NotSentYet
<1>. QED
  BY <1>1, <1>2, StreamsAssumption DEF Streams

(* The reviews of a PerConnection, typed.                                  *)
LEMMA BrokerOf ==
  ASSUME ScreenIInv, NEW c \in Conns
  PROVE  LET b == brokerByRequester[c] IN
         /\ b \in PlanBrokers /\ b.waiting \in Seq(Streams) /\ Len(b.waiting) \in Nat
         /\ \A i \in 1..Len(b.waiting) : b.waiting[i] \in Streams
         /\ b.emit \in 0..MaxStreams /\ b.active \in 0..MaxStreams /\ b.exists \in BOOLEAN
         /\ b.emit # 0 => b.emit \in Streams /\ serving[b.emit] # "none" /\ connOf[b.emit] = c
         /\ b.active # 0 => b.active \in Streams /\ serving[b.active] = "review"
            /\ connOf[b.active] = c
         /\ \A i \in 1..Len(b.waiting) :
              /\ b.waiting[i] # b.active
              /\ serving[b.waiting[i]] = "review" /\ connOf[b.waiting[i]] = c
         /\ \A i, j \in 1..Len(b.waiting) : b.waiting[i] = b.waiting[j] => i = j
         /\ WellBound(b, ServedOn(c), UnderReview(c))
<1>. DEFINE b == brokerByRequester[c]
<1>1. b \in PlanBrokers
  BY DEF ScreenIInv, StreamTypes, LinkTypes
<1>2. b.waiting \in Seq(Streams) /\ b.emit \in 0..MaxStreams /\ b.active \in 0..MaxStreams
        /\ b.exists \in BOOLEAN
  BY <1>1 DEF PlanBrokers
<1>3. Len(b.waiting) \in Nat /\ \A i \in 1..Len(b.waiting) : b.waiting[i] \in Streams
  BY <1>2
<1>4. WellBound(b, ServedOn(c), UnderReview(c))
  BY DEF ScreenIInv, ReviewsInv
<1>5. /\ b.emit # 0 => b.emit \in Streams
      /\ b.active # 0 => b.active \in Streams
  BY <1>2, StreamsAssumption DEF Streams
<1>. QED
  BY <1>1, <1>2, <1>3, <1>4, <1>5 DEF WellBound, ServedOn, UnderReview

(* A plan goes to the stream its PerConnection is bound to: that of its    *)
(* task, unless that one was cancelled or nobody listens.                  *)
LEMMA FlushSends ==
  ASSUME ScreenIInv, NEW c \in Conns, NEW b \in PlanBrokers, b.emit = brokerByRequester[c].emit,
         \A i \in 1..Len(b.waiting) : connOf[b.waiting[i]] = c
           /\ serving[b.waiting[i]] \in {"turn", "review"},
         Flush(c, b)
  PROVE  /\ wire' \in [Streams -> Seq(StreamFrames)]
         /\ \A u \in Streams :
              \/ wire'[u] = wire[u]
              \/ /\ serving[u] \notin {"over", "none"} /\ connOf[u] = conn /\ link = "up"
                 /\ \E f \in StreamFrames :
                      /\ wire'[u] = Append(wire[u], f) /\ f.kind = "plan"
                      /\ done[u] = "open" => ItsPlan(f, u)
<1>1. wire \in [Streams -> Seq(StreamFrames)]
  BY DEF ScreenIInv, StreamTypes, FrameTypes
<1>2. CASE ~(b.active = 0 /\ b.waiting # <<>>)
  BY <1>1, <1>2 DEF Flush
<1>3. CASE b.active = 0 /\ b.waiting # <<>>
  <2>. DEFINE p == Head(b.waiting)
              f == Frame("plan", p)
              e == b.emit
  <2>1. p \in Streams /\ connOf[p] = c /\ serving[p] \in {"turn", "review"}
    <3>1. b.waiting \in Seq(Streams)
      BY DEF PlanBrokers
    <3>2. p = b.waiting[1] /\ 1 \in 1..Len(b.waiting) /\ p \in Streams
      BY <1>3, <3>1
    <3>. QED
      BY <3>2
  <2>2. f \in StreamFrames /\ f.kind = "plan" /\ f.of = p
    BY <2>1 DEF Frame, StreamFrames
  <2>3. Emit(e, <<f>>)
    BY <1>3 DEF Flush
  <2>4. e \in 0..MaxStreams /\ (e # 0 => e \in Streams /\ serving[e] # "none" /\ connOf[e] = c)
    BY BrokerOf
  <2>. HIDE DEF p, f, e
  <2>5. /\ wire' \in [Streams -> Seq(StreamFrames)]
        /\ \A u \in Streams : u # e => wire'[u] = wire[u]
        /\ e \in Streams => \/ Delivers(e) /\ wire'[e] = Append(wire[e], f)
                            \/ ~Delivers(e) /\ wire'[e] = wire[e]
    BY <1>1, <2>2, <2>3, EmitOne
  <2>6. ASSUME e \in Streams, Delivers(e), done[e] = "open" PROVE ItsPlan(f, e)
    <3>1. connOf[e] = conn /\ link = "up" /\ serving[e] # "none" /\ connOf[p] = conn
      BY <2>1, <2>4, <2>6, StreamsAssumption DEF Delivers, Streams
    <3>2. ASSUME p # e, p \notin cancelledByUser PROVE FALSE
      <4>1. StageOf(p) /\ done[p] \in {"open", "draining", "resolved", "rejected"}
        BY <2>1 DEF ScreenIInv, StagesInv, StreamTypes, ScreenTypes
      <4>2. done[p] = "open"
        BY <2>1, <3>1, <3>2, <4>1 DEF StageOf
      <4>. QED
        BY <2>1, <2>6, <3>1, <3>2, <4>2, OneIsOpen
    <3>. QED
      BY <2>2, <3>2 DEF ItsPlan
  <2>7. ASSUME e \in Streams, Delivers(e)
        PROVE  serving[e] \notin {"over", "none"} /\ connOf[e] = conn /\ link = "up"
    BY <2>4, <2>7, StreamsAssumption DEF Delivers, Streams
  <2>. QED
    BY <2>2, <2>5, <2>6, <2>7
<1>. QED
  BY <1>2, <1>3

(* A broker without the plan it shows.                                     *)
LEMMA Cleared ==
  ASSUME NEW b \in PlanBrokers
  PROVE  LET d == [b EXCEPT !.active = 0] IN
         d \in PlanBrokers /\ d.emit = b.emit /\ d.waiting = b.waiting /\ d.active = 0
           /\ d.exists = b.exists
<1>1. b = [exists |-> b.exists, emit |-> b.emit, active |-> b.active, waiting |-> b.waiting]
      /\ b.exists \in BOOLEAN /\ b.emit \in 0..MaxStreams /\ b.active \in 0..MaxStreams
         /\ b.waiting \in Seq(Streams)
  BY DEF PlanBrokers
<1>2. [b EXCEPT !.active = 0] = [exists |-> b.exists, emit |-> b.emit, active |-> 0,
        waiting |-> b.waiting]
  BY <1>1
<1>3. 0 \in 0..MaxStreams
  BY StreamsAssumption
<1>. QED
  BY <1>1, <1>2, <1>3 DEF PlanBrokers

(* A broker with another queue.                                            *)
LEMMA Queued ==
  ASSUME NEW b \in PlanBrokers, NEW w \in Seq(Streams)
  PROVE  LET d == [b EXCEPT !.waiting = w] IN
         d \in PlanBrokers /\ d.emit = b.emit /\ d.waiting = w /\ d.active = b.active
           /\ d.exists = b.exists
  BY DEF PlanBrokers

(* A request that is first in line comes to a stream that is not served.   *)
LEMMA RequestFirst ==
  ASSUME ScreenIInv, NEW t \in Streams, upstream[t] # <<>>
  PROVE  /\ upstream[t] \in Seq({"request", "cancel"})
            /\ Tail(upstream[t]) \in Seq({"request", "cancel"})
         /\ \A i \in 1..Len(Tail(upstream[t])) : Tail(upstream[t])[i] # "request"
         /\ Head(upstream[t]) = "request" =>
              serving[t] = "none" /\ connOf[t] = conn /\ link = "up" /\ screen[t] # "idle"
<1>1. upstream[t] \in Seq({"request", "cancel"}) /\ StageOf(t)
      /\ \A i \in 1..Len(upstream[t]) :
            upstream[t][i] = "request" => i = 1 /\ serving[t] = "none" /\ connOf[t] = conn
              /\ link = "up"
  BY DEF ScreenIInv, StreamTypes, LinkTypes, SessionsInv, StagesInv
<1>. DEFINE s == upstream[t]
<1>2. /\ Tail(s) \in Seq({"request", "cancel"}) /\ Head(s) = s[1] /\ 1 \in 1..Len(s)
      /\ \A i \in 1..Len(Tail(s)) : i + 1 \in 1..Len(s) /\ i + 1 # 1 /\ Tail(s)[i] = s[i + 1]
  BY <1>1
<1>3. \A i \in 1..Len(Tail(s)) : Tail(s)[i] # "request"
  BY <1>1, <1>2
<1>4. screen[t] # "idle"
  BY <1>1 DEF StageOf, NotSentYet
<1>. QED
  BY <1>1, <1>2, <1>3, <1>4

(* A step that emits nothing.                                              *)
LEMMA QuietMoves ==
  ASSUME ScreenIInv, \A t \in Streams : MovedStage(t), UNCHANGED <<wire, sentTokens>>,
         UNCHANGED <<linkVars, frameChain, done, screen, buffer, errorShown, cancelledByUser,
                     transcript, late>>
  PROVE  ServerMoves
  BY DEF ServerMoves, MovedWire, ScreenIInv, StreamTypes, FrameTypes

(* A step that moves the stage of one stream.                              *)
LEMMA Staged ==
  ASSUME ScreenIInv, NEW t, NEW stage, stage \in Serving, Serve(t, stage)
  PROVE  /\ serving' \in [Streams -> Serving]
         /\ t \in Streams => serving'[t] = stage
         /\ \A u \in Streams : u # t => serving'[u] = serving[u]
  BY DEF Serve, ScreenIInv, StreamTypes, LinkTypes

(* The moves of the server's actions.                                      *)
LEMMA ReceivesMoves ==
  ASSUME ScreenIInv, NEW t \in Streams, ServerReceives(t)
  PROVE  ServerMoves
<1>1. UNCHANGED <<wire, sentTokens>>
      /\ UNCHANGED <<linkVars, frameChain, done, screen, buffer, errorShown, cancelledByUser,
                     transcript, late>>
  BY DEF ServerReceives, clientVars, shownVars
<1>2. \A u \in Streams : MovedStage(u)
  <2>1. CASE Accept(t)
    <3>1. serving[t] = "none" /\ Serve(t, "turn")
      BY <2>1, RequestFirst DEF Accept, ServerReceives
    <3>2. \A u \in Streams : u # t => serving'[u] = serving[u]
      BY <3>1, Staged DEF Serving
    <3>. QED
      BY <3>1, <3>2 DEF MovedStage
  <2>2. CASE CancelArrives(t)
    BY <2>2 DEF CancelArrives, MovedStage
  <2>. QED
    BY <2>1, <2>2 DEF ServerReceives
<1>. QED
  BY <1>1, <1>2, QuietMoves

(* The first request of a connection may come before any task of it.       *)
LEMMA SyncMoves ==
  ASSUME ScreenIInv, SyncTools
  PROVE  ServerMoves
<1>1. UNCHANGED <<wire, sentTokens>>
      /\ UNCHANGED <<linkVars, frameChain, done, screen, buffer, errorShown, cancelledByUser,
                     transcript, late>> /\ serving' = serving
  BY DEF SyncTools, clientVars, shownVars, netVars
<1>2. \A u \in Streams : MovedStage(u)
  BY <1>1 DEF MovedStage
<1>. QED
  BY <1>1, <1>2, QuietMoves

(* A connection that closes takes its reviews with it: its tasks go on.    *)
LEMMA ClosesMoves ==
  ASSUME ScreenIInv, NEW c \in Conns, ServerCloses(c)
  PROVE  ServerMoves
<1>1. UNCHANGED <<wire, sentTokens>>
      /\ UNCHANGED <<linkVars, frameChain, done, screen, buffer, errorShown, cancelledByUser,
                     transcript, late>>
  BY DEF ServerCloses, clientVars, shownVars, netVars
<1>2. \A u \in Streams : MovedStage(u)
  BY DEF ServerCloses, MovedStage
<1>. QED
  BY <1>1, <1>2, QuietMoves

(* A step that may emit one frame to one stream.                           *)
LEMMA EmitMoves ==
  ASSUME ScreenIInv, NEW t \in Streams, NEW f, f \in StreamFrames, Emit(t, <<f>>),
         serving[t] # "none",
         \A u \in Streams : MovedStage(u),
         \A u \in Streams : u # t => sentTokens'[u] = sentTokens[u],
         sentTokens' \in [Streams -> Nat],
         Sent(t, f),
         \/ sentTokens'[t] = sentTokens[t]
         \/ sentTokens'[t] = sentTokens[t] + 1 /\ serving[t] = "turn" /\ t \notin abortedTasks,
         UNCHANGED <<linkVars, frameChain, done, screen, buffer, errorShown, cancelledByUser,
                     transcript, late>>
  PROVE  ServerMoves
<1>1. wire \in [Streams -> Seq(StreamFrames)]
  BY DEF ScreenIInv, StreamTypes, FrameTypes
<1>2. /\ wire' \in [Streams -> Seq(StreamFrames)]
      /\ \A u \in Streams : u # t => wire'[u] = wire[u]
      /\ \/ Delivers(t) /\ wire'[t] = Append(wire[t], f)
         \/ ~Delivers(t) /\ wire'[t] = wire[t]
  BY <1>1, EmitOne
<1>3. \A u \in Streams : u # t => MovedWire(u)
  BY <1>2 DEF MovedWire
<1>4. MovedWire(t)
  BY <1>2 DEF MovedWire, Delivers
<1>. QED
  BY <1>2, <1>3, <1>4 DEF ServerMoves

(* A token is sent on its own stream.                                      *)
LEMMA TokenMoves ==
  ASSUME ScreenIInv, NEW t \in Streams, EmitToken(t)
  PROVE  ServerMoves
<1>1. sentTokens \in [Streams -> Nat]
  BY DEF ScreenIInv, StreamTypes, FrameTypes
<1>2. /\ sentTokens' \in [Streams -> Nat] /\ sentTokens'[t] = sentTokens[t] + 1
      /\ \A u \in Streams : u # t => sentTokens'[u] = sentTokens[u]
  BY <1>1 DEF EmitToken
<1>. DEFINE f == Token(t, sentTokens[t] + 1)
<1>3. f \in StreamFrames /\ f.kind = "token" /\ f.of = t /\ f.n = sentTokens[t] + 1
  BY <1>1 DEF Token, StreamFrames
<1>4. Emit(t, <<f>>) /\ serving[t] = "turn" /\ t \notin abortedTasks /\ serving' = serving
      /\ UNCHANGED <<linkVars, frameChain, done, screen, buffer, errorShown, cancelledByUser,
                     transcript, late>>
  BY DEF EmitToken, clientVars, shownVars
<1>. HIDE DEF f
<1>5. Sent(t, f) /\ \A u \in Streams : MovedStage(u)
  BY <1>2, <1>3, <1>4 DEF Sent, MovedStage
<1>6. serving[t] # "none"
  BY <1>4
<1>. QED
  BY <1>2, <1>3, <1>4, <1>5, <1>6, EmitMoves

(* The last frame of a stream is sent on it as it ends.                    *)
LEMMA EndMoves ==
  ASSUME ScreenIInv, NEW t \in Streams, TurnEnds(t) \/ StreamEnds(t)
  PROVE  ServerMoves
<1>1. sentTokens \in [Streams -> Nat]
  BY DEF ScreenIInv, StreamTypes, FrameTypes
<1>2. /\ sentTokens' = sentTokens
      /\ UNCHANGED <<linkVars, frameChain, done, screen, buffer, errorShown, cancelledByUser,
                     transcript, late>>
  BY DEF TurnEnds, StreamEnds, clientVars, shownVars
<1>3. CASE serving[t] = "turn" /\ Serve(t, "succeeded") /\ UNCHANGED wire
  <2>1. \A u \in Streams : MovedStage(u)
    BY <1>3, Staged DEF MovedStage, Serving
  <2>. QED
    BY <1>2, <1>3, <2>1, QuietMoves
<1>4. CASE serving[t] = "turn" /\ Serve(t, "failed") /\ Emit(t, <<Frame("error", t)>>)
  <2>. DEFINE f == Frame("error", t)
  <2>1. f \in StreamFrames /\ f.kind = "error" /\ f.of = t
    BY DEF Frame, StreamFrames
  <2>2. serving'[t] = "failed" /\ \A u \in Streams : MovedStage(u)
    BY <1>4, Staged DEF MovedStage, Serving
  <2>3. Sent(t, f)
    BY <1>2, <1>4, <2>1, <2>2 DEF Sent
  <2>4. Emit(t, <<f>>) /\ serving[t] # "none"
    BY <1>4
  <2>. HIDE DEF f
  <2>. QED
    BY <1>1, <1>2, <2>1, <2>2, <2>3, <2>4, EmitMoves
<1>5. CASE StreamEnds(t)
  <2>. DEFINE f == LastFrame(t)
  <2>1. f \in StreamFrames /\ f.kind \in {"complete", "fail"} /\ f.of = t
    BY DEF LastFrame, Frame, StreamFrames
  <2>2. serving'[t] = "over" /\ \A u \in Streams : MovedStage(u)
    BY <1>5, Staged DEF StreamEnds, MovedStage, Serving
  <2>3. Sent(t, f)
    BY <1>2, <2>1, <2>2 DEF Sent
  <2>4. Emit(t, <<f>>) /\ serving[t] # "none"
    BY <1>5 DEF StreamEnds
  <2>. HIDE DEF f
  <2>. QED
    BY <1>1, <1>2, <2>1, <2>2, <2>3, <2>4, EmitMoves
<1>. QED
  BY <1>3, <1>4, <1>5 DEF TurnEnds

(* A step that may send a plan.                                            *)
LEMMA PlanMoves ==
  ASSUME ScreenIInv, \A u \in Streams : MovedStage(u), sentTokens' = sentTokens,
         wire' \in [Streams -> Seq(StreamFrames)],
         \A u \in Streams :
              \/ wire'[u] = wire[u]
              \/ /\ serving[u] \notin {"over", "none"} /\ connOf[u] = conn /\ link = "up"
                 /\ \E f \in StreamFrames :
                      /\ wire'[u] = Append(wire[u], f) /\ f.kind = "plan"
                      /\ done[u] = "open" => ItsPlan(f, u),
         UNCHANGED <<linkVars, frameChain, done, screen, buffer, errorShown, cancelledByUser,
                     transcript, late>>
  PROVE  ServerMoves
<1>1. sentTokens' \in [Streams -> Nat]
  BY DEF ScreenIInv, StreamTypes, FrameTypes
<1>2. \A u \in Streams : MovedWire(u)
  BY DEF MovedWire, Sent
<1>. QED
  BY <1>1, <1>2 DEF ServerMoves

(* A task asks for a review: a plan is shown if none was.                  *)
LEMMA AskMoves ==
  ASSUME ScreenIInv, NEW t \in Streams, AskPlan(t)
  PROVE  ServerMoves
<1>. DEFINE c == connOf[t]
            b == brokerByRequester[c]
            d == [b EXCEPT !.waiting = Append(b.waiting, t)]
<1>1. c \in Conns
  BY StreamsAssumption
     DEF AskPlan, ScreenIInv, SessionsInv, StreamTypes, LinkTypes, Conns
<1>2. /\ b \in PlanBrokers /\ b.waiting \in Seq(Streams) /\ Len(b.waiting) \in Nat
      /\ \A i \in 1..Len(b.waiting) : serving[b.waiting[i]] = "review" /\ connOf[b.waiting[i]] = c
  BY <1>1, BrokerOf
<1>3. Append(b.waiting, t) \in Seq(Streams)
  BY <1>2
<1>4. PICK e \in PlanBrokers :
        e = d /\ e.emit = b.emit /\ e.waiting = Append(b.waiting, t)
  BY <1>2, <1>3, Queued
<1>5. d \in PlanBrokers /\ d.emit = b.emit /\ d.waiting = Append(b.waiting, t)
  BY <1>4
<1>6. serving[t] = "turn"
  BY DEF AskPlan
<1>7. \A i \in 1..Len(d.waiting) : connOf[d.waiting[i]] = c
        /\ serving[d.waiting[i]] \in {"turn", "review"}
  <2>. SUFFICES ASSUME NEW i \in 1..Len(Append(b.waiting, t))
                PROVE  LET p == Append(b.waiting, t)[i] IN connOf[p] = c
                         /\ serving[p] \in {"turn", "review"}
    BY <1>5
  <2>1. CASE i \in 1..Len(b.waiting)
    <3>1. Append(b.waiting, t)[i] = b.waiting[i]
      BY <1>2, <2>1
    <3>. QED
      BY <1>2, <2>1, <3>1
  <2>2. CASE i = Len(b.waiting) + 1
    <3>1. Append(b.waiting, t)[i] = t
      BY <1>2, <2>2
    <3>. QED
      BY <1>6, <3>1
  <2>3. i \in 1..Len(b.waiting) \/ i = Len(b.waiting) + 1
    BY <1>2
  <2>. QED
    BY <2>1, <2>2, <2>3
<1>8. Flush(c, d) /\ Serve(t, "review") /\ sentTokens' = sentTokens
      /\ UNCHANGED <<linkVars, frameChain, done, screen, buffer, errorShown, cancelledByUser,
                     transcript, late>>
  BY DEF AskPlan, clientVars, shownVars
<1>. HIDE DEF c, d
<1>9. /\ wire' \in [Streams -> Seq(StreamFrames)]
      /\ \A u \in Streams :
           \/ wire'[u] = wire[u]
           \/ /\ serving[u] \notin {"over", "none"} /\ connOf[u] = conn /\ link = "up"
              /\ \E f \in StreamFrames :
                   /\ wire'[u] = Append(wire[u], f) /\ f.kind = "plan"
                   /\ done[u] = "open" => ItsPlan(f, u)
  BY <1>1, <1>5, <1>7, <1>8, FlushSends
<1>10. \A u \in Streams : MovedStage(u)
  BY <1>6, <1>8, Staged DEF MovedStage, Serving
<1>. QED
  BY <1>8, <1>9, <1>10, PlanMoves

(* The review of a plan ends: the task goes on, and the next plan is sent. *)
LEMMA SettleMoves ==
  ASSUME ScreenIInv, NEW c \in Conns, NEW p, Settle(c, p), sentTokens' = sentTokens,
         UNCHANGED <<linkVars, frameChain, done, screen, buffer, errorShown, cancelledByUser,
                     transcript, late>>
  PROVE  ServerMoves
<1>. DEFINE b == brokerByRequester[c]
            d == [b EXCEPT !.active = 0]
<1>1. CASE b.active # p
  <2>1. UNCHANGED <<wire, sentTokens>> /\ serving' = serving
    BY <1>1 DEF Settle
  <2>2. \A u \in Streams : MovedStage(u)
    BY <2>1 DEF MovedStage
  <2>. QED
    BY <2>1, <2>2, QuietMoves
<1>2. CASE b.active = p
  <2>1. /\ b \in PlanBrokers
        /\ b.active # 0 => b.active \in Streams /\ serving[b.active] = "review"
        /\ \A i \in 1..Len(b.waiting) : serving[b.waiting[i]] = "review"
           /\ connOf[b.waiting[i]] = c
    BY BrokerOf
  <2>2. d \in PlanBrokers /\ d.emit = b.emit /\ d.waiting = b.waiting
    BY <2>1, Cleared
  <2>3. Serve(p, "turn") /\ Flush(c, d)
    BY <1>2 DEF Settle
  <2>. HIDE DEF d
  <2>4. \A i \in 1..Len(d.waiting) : connOf[d.waiting[i]] = c
          /\ serving[d.waiting[i]] \in {"turn", "review"}
    BY <2>1, <2>2
  <2>5. /\ wire' \in [Streams -> Seq(StreamFrames)]
        /\ \A u \in Streams :
             \/ wire'[u] = wire[u]
             \/ /\ serving[u] \notin {"over", "none"} /\ connOf[u] = conn /\ link = "up"
                /\ \E f \in StreamFrames :
                     /\ wire'[u] = Append(wire[u], f) /\ f.kind = "plan"
                     /\ done[u] = "open" => ItsPlan(f, u)
    BY <2>2, <2>3, <2>4, FlushSends
  <2>6. \A u \in Streams : MovedStage(u)
    <3>1. \A u \in Streams : u = p => serving[u] = "review"
      BY <1>2, <2>1, StreamsAssumption DEF Streams
    <3>. QED
      BY <2>3, <3>1, Staged DEF MovedStage, Serving
  <2>. QED
    BY <2>5, <2>6, PlanMoves
<1>. QED
  BY <1>1, <1>2

(* A step of the server leaves the stages of the streams in order.         *)
LEMMA MovesKeepStages ==
  ASSUME ScreenIInv, ServerMoves,
         \A t \in Streams : handler'[t] = handler[t] \/ handler'[t] = "free",
         \A t \in Streams : serving'[t] = "none" => serving[t] = "none",
         \A t \in Streams : screen[t] = "idle" => serving'[t] = serving[t]
           /\ upstream'[t] = upstream[t]
  PROVE  StagesInv'
<1>1. /\ connOf' = connOf /\ conn' = conn /\ link' = link
      /\ done' = done /\ cancelledByUser' = cancelledByUser /\ screen' = screen /\ late' = late
      /\ transcript' = transcript /\ buffer' = buffer /\ frameChain' = frameChain
         /\ errorShown' = errorShown
  BY DEF ServerMoves, linkVars
<1>2. \A t, u \in Streams : u < t /\ screen'[t] # "idle" => screen'[u] = "ended"
  BY <1>1 DEF ScreenIInv, StagesInv
<1>3. ASSUME NEW t \in Streams PROVE StageOf(t)'
  <2>1. StageOf(t) /\ MovedStage(t) /\ MovedWire(t)
    BY DEF ScreenIInv, StagesInv, ServerMoves
  <2>2. serving[t] = "none" => wire'[t] = wire[t] /\ sentTokens'[t] = sentTokens[t]
    BY <2>1 DEF MovedWire
  <2>3. NotSentYet(t) /\ screen[t] = "idle" => NotSentYet(t)'
    BY <1>1, <2>2 DEF NotSentYet
  <2>4. serving'[t] = "none" => wire'[t] = <<>> /\ frameChain'[t] = <<>> /\ handler'[t] = "free"
    BY <1>1, <2>1, <2>2 DEF StageOf
  <2>5. NoNews(t) => NoNews(t)'
    BY <1>1 DEF NoNews
  <2>6. serving[t] = "over" => serving'[t] = "over"
    BY <2>1 DEF MovedStage
  <2>. QED
    BY <1>1, <2>1, <2>3, <2>4, <2>5, <2>6 DEF StageOf, Completes
<1>. QED
  BY <1>2, <1>3 DEF StagesInv

(* What else a step of the server leaves as it is.                         *)
LEMMA MovesKeepRest ==
  ASSUME ScreenIInv, ServerMoves
  PROVE  ChainInv' /\ LateOnlyIfCut' /\ PlanOfItsTask'
<1>1. /\ done' = done /\ cancelledByUser' = cancelledByUser /\ late' = late
      /\ transcript' = transcript /\ buffer' = buffer /\ frameChain' = frameChain
  BY DEF ServerMoves
<1>2. ChainInv'
  BY <1>1 DEF ScreenIInv, ChainInv, ItsPlan
<1>3. LateOnlyIfCut' /\ PlanOfItsTask'
  BY <1>1 DEF ScreenIInv, LateOnlyIfCut, PlanOfItsTask
<1>. QED
  BY <1>2, <1>3

(* The types of what a step of the server moves.                           *)
LEMMA MovesKeepTypes ==
  ASSUME ScreenIInv, ServerMoves,
         activeSessions' \subseteq Conns, controllers' \subseteq Streams,
           abortedTasks' \subseteq Streams,
         brokerByRequester' \in [Conns -> PlanBrokers], serving' \in [Streams -> Serving],
         upstream' \in [Streams -> Seq({"request", "cancel"})],
         handler' \in [Streams -> {"free", "asking", "answering"}],
         responses' \subseteq responses
  PROVE  StreamTypes'
<1>1. /\ connOf' = connOf /\ conn' = conn /\ link' = link
      /\ done' = done /\ cancelledByUser' = cancelledByUser /\ screen' = screen /\ late' = late
      /\ transcript' = transcript /\ buffer' = buffer /\ frameChain' = frameChain
         /\ errorShown' = errorShown
      /\ wire' \in [Streams -> Seq(StreamFrames)] /\ sentTokens' \in [Streams -> Nat]
  BY DEF ServerMoves, linkVars
<1>2. LinkTypes'
  BY <1>1 DEF ScreenIInv, StreamTypes, LinkTypes
<1>3. FrameTypes'
  BY <1>1 DEF ScreenIInv, StreamTypes, FrameTypes
<1>4. ScreenTypes'
  BY <1>1 DEF ScreenIInv, StreamTypes, ScreenTypes
<1>. QED
  BY <1>2, <1>3, <1>4 DEF StreamTypes

(* A PerConnection stays in order when more is served and reviewed.        *)
LEMMA BoundOnMore ==
  ASSUME NEW b, NEW S, NEW U, NEW S2, NEW U2, S \subseteq S2, U \subseteq U2, WellBound(b, S, U)
  PROVE  WellBound(b, S2, U2)
  BY DEF WellBound

(* flush makes the first plan that waits the active one.                   *)
LEMMA FlushBinds ==
  ASSUME brokerByRequester \in [Conns -> PlanBrokers], NEW c \in Conns, NEW b \in PlanBrokers,
         NEW S, NEW U, WellBound(b, S, U), Flush(c, b)
  PROVE  /\ brokerByRequester' \in [Conns -> PlanBrokers]
         /\ \A d \in Conns : d # c => brokerByRequester'[d] = brokerByRequester[d]
         /\ brokerByRequester'[c].exists = b.exists
         /\ WellBound(brokerByRequester'[c], S, U)
<1>1. CASE ~(b.active = 0 /\ b.waiting # <<>>)
  <2>1. brokerByRequester' = [brokerByRequester EXCEPT ![c] = b]
    BY <1>1 DEF Flush
  <2>. QED
    BY <2>1
<1>2. CASE b.active = 0 /\ b.waiting # <<>>
  <2>. DEFINE w == b.waiting
  <2>1. w \in Seq(Streams)
    BY DEF PlanBrokers
  <2>2. PICK x \in 0..MaxStreams, y \in Seq(Streams) :
          /\ x = Head(w) /\ y = Tail(w) /\ x = w[1] /\ 1 \in 1..Len(w)
          /\ \A i \in 1..Len(y) : i + 1 \in 1..Len(w) /\ i + 1 # 1 /\ y[i] = w[i + 1]
    <3>1. /\ Head(w) \in Streams /\ Tail(w) \in Seq(Streams) /\ Head(w) = w[1] /\ 1 \in 1..Len(w)
          /\ \A i \in 1..Len(Tail(w)) : i + 1 \in 1..Len(w) /\ i + 1 # 1 /\ Tail(w)[i] = w[i + 1]
      BY <1>2, <2>1
    <3>2. Head(w) \in 0..MaxStreams
      BY <3>1, StreamsAssumption DEF Streams
    <3>. QED
      BY <3>1, <3>2
  <2>. DEFINE d == [b EXCEPT !.active = x, !.waiting = y]
  <2>3. brokerByRequester' = [brokerByRequester EXCEPT ![c] = d]
          /\ d = [b EXCEPT !.active = x, !.waiting = y]
    BY <1>2, <2>2 DEF Flush
  <2>. HIDE DEF d
  <2>4. d \in PlanBrokers /\ d.exists = b.exists /\ d.emit = b.emit /\ d.active = x
          /\ d.waiting = y
    BY <2>3 DEF PlanBrokers
  <2>8. /\ b.emit # 0 => b.emit \in S
        /\ \A i \in 1..Len(w) : w[i] \in U
        /\ \A i, j \in 1..Len(w) : w[i] = w[j] => i = j
    BY DEF WellBound
  <2>. HIDE DEF w
  <2>9. \A i \in 1..Len(d.waiting) : d.waiting[i] \in U /\ d.waiting[i] # d.active
    BY <2>2, <2>4, <2>8
  <2>10. \A i, j \in 1..Len(d.waiting) : d.waiting[i] = d.waiting[j] => i = j
    <3>. SUFFICES ASSUME NEW i \in 1..Len(y), NEW j \in 1..Len(y), y[i] = y[j]
                  PROVE  i = j
      BY <2>4
    <3>1. i + 1 = j + 1
      BY <2>2, <2>8
    <3>. QED
      BY <3>1
  <2>11. WellBound(d, S, U)
    BY <2>2, <2>4, <2>8, <2>9, <2>10 DEF WellBound
  <2>. QED
    BY <2>3, <2>4, <2>11
<1>. QED
  BY <1>1, <1>2

(* What is left to show of a step of the server.                           *)
LEMMA MovesKeepAll ==
  ASSUME ScreenIInv, ServerMoves, StreamTypes', SessionsInv', ReviewsInv', StagesInv',
           ResponsesInv',
         QuietPrompt', ClosedIsReleased'
  PROVE  ScreenIInv'
  BY MovesKeepWire, MovesKeepOrder, MovesKeepErrors, MovesKeepRest DEF ScreenIInv

(* The rest of a step of the server that leaves the client as it is.       *)
LEMMA ClientStill ==
  ASSUME ScreenIInv, UNCHANGED <<linkVars, responses, clientVars>>
  PROVE  ResponsesInv' /\ QuietPrompt'
<1>1. handler' = handler /\ responses' = responses /\ connOf' = connOf
      /\ screen' = screen /\ late' = late /\ spinner' = spinner /\ streamingText' = streamingText
  BY DEF clientVars, shownVars, linkVars
<1>2. ResponsesInv'
  BY <1>1 DEF ScreenIInv, ResponsesInv
<1>3. QuietPrompt'
  BY <1>1 DEF ScreenIInv, QuietPrompt
<1>. QED
  BY <1>2, <1>3

(* The actions of the server, one after the other.                         *)
LEMMA ReceivesKeep ==
  ASSUME ScreenIInv, NEW t \in Streams, ServerReceives(t)
  PROVE  ScreenIInv'
<1>1. ServerMoves
  BY ReceivesMoves
<1>2. /\ UNCHANGED <<activeSessions, linkVars, responses, clientVars>> /\ handler' = handler
      /\ upstream[t] # <<>> /\ upstream' = [upstream EXCEPT ![t] = Tail(@)]
      /\ connOf' = connOf /\ conn' = conn /\ link' = link
  BY DEF ServerReceives, clientVars, linkVars
<1>3. /\ upstream \in [Streams -> Seq({"request", "cancel"})] /\ serving \in [Streams -> Serving]
      /\ brokerByRequester \in [Conns -> PlanBrokers] /\ connOf \in [Streams -> 0..conn]
         /\ conn \in Conns
      /\ controllers \subseteq Streams /\ abortedTasks \subseteq Streams
         /\ activeSessions \subseteq Conns
      /\ responses \subseteq responses /\ handler \in [Streams -> {"free", "asking", "answering"}]
  BY DEF ScreenIInv, StreamTypes, LinkTypes, ScreenTypes
<1>4. /\ Tail(upstream[t]) \in Seq({"request", "cancel"})
      /\ \A i \in 1..Len(Tail(upstream[t])) : Tail(upstream[t])[i] # "request"
  BY <1>2, RequestFirst
<1>5. /\ upstream' \in [Streams -> Seq({"request", "cancel"})] /\ upstream'[t] = Tail(upstream[t])
      /\ \A u \in Streams : u # t => upstream'[u] = upstream[u]
  BY <1>2, <1>3, <1>4
<1>6. screen[t] # "idle"
  BY <1>2 DEF ScreenIInv, StagesInv, StageOf, NotSentYet
<1>7. ResponsesInv' /\ QuietPrompt'
  BY <1>2, ClientStill
<1>8. CASE Accept(t)
  <2>1. serving[t] = "none" /\ connOf[t] = conn /\ link = "up" /\ Serve(t, "turn")
        /\ controllers' = controllers \cup {t} /\ abortedTasks' = abortedTasks
        /\ brokerByRequester' = [brokerByRequester EXCEPT ![conn] = RebindEmit(brokerByRequester[conn], t)]
    BY <1>2, <1>8, RequestFirst DEF Accept
  <2>2. /\ serving' \in [Streams -> Serving] /\ serving'[t] = "turn"
        /\ \A u \in Streams : u # t => serving'[u] = serving[u]
    BY <2>1, Staged DEF Serving
  <2>3. PICK c \in Conns, b \in PlanBrokers :
          c = conn /\ b = brokerByRequester[c] /\ WellBound(b, ServedOn(c), UnderReview(c))
    BY <1>3, BrokerOf
  <2>. DEFINE d == RebindEmit(b, t)
  <2>4. d \in PlanBrokers /\ d.exists /\ d.emit = t
        /\ ((d.active = b.active /\ d.waiting = b.waiting) \/ (d.active = 0 /\ d.waiting = <<>>))
    <3>1. t \in 0..MaxStreams
      BY StreamsAssumption DEF Streams
    <3>2. CASE b.exists
      <4>1. d = [b EXCEPT !.emit = t]
        BY <3>2 DEF RebindEmit
      <4>. HIDE DEF d
      <4>2. d \in PlanBrokers /\ d.exists = b.exists /\ d.emit = t /\ d.active = b.active
              /\ d.waiting = b.waiting
        BY <3>1, <4>1 DEF PlanBrokers
      <4>. QED
        BY <3>2, <4>2
    <3>3. CASE ~b.exists
      <4>1. d = [exists |-> TRUE, emit |-> t, active |-> 0, waiting |-> <<>>]
              /\ <<>> \in Seq(Streams)
            /\ 0 \in 0..MaxStreams
        BY <3>3, StreamsAssumption DEF RebindEmit, Fresh
      <4>. QED
        BY <3>1, <4>1 DEF PlanBrokers
    <3>. QED
      BY <3>2, <3>3
  <2>. HIDE DEF d
  <2>5. brokerByRequester' \in [Conns -> PlanBrokers] /\ brokerByRequester'[c] = d
        /\ \A e \in Conns : e # c => brokerByRequester'[e] = brokerByRequester[e]
    BY <1>3, <2>1, <2>3, <2>4 DEF d
  <2>6. \A e \in Conns : ServedOn(e) \subseteq ServedOn(e)'
          /\ UnderReview(e) \subseteq UnderReview(e)'
    BY <1>2, <2>1, <2>2 DEF ServedOn, UnderReview
  <2>7. t \in ServedOn(c)'
    BY <1>2, <2>1, <2>2, <2>3 DEF ServedOn
  <2>8. WellBound(d, ServedOn(c)', UnderReview(c)')
    BY <2>3, <2>4, <2>6, <2>7 DEF WellBound
  <2>9. ReviewsInv'
    <3>1. ASSUME NEW e \in Conns PROVE WellBound(brokerByRequester'[e], ServedOn(e)',
                   UnderReview(e)')
      <4>1. CASE e = c
        BY <2>5, <2>8, <4>1
      <4>2. CASE e # c
        <5>1. WellBound(brokerByRequester[e], ServedOn(e), UnderReview(e))
          BY DEF ScreenIInv, ReviewsInv
        <5>2. WellBound(brokerByRequester[e], ServedOn(e)', UnderReview(e)')
          BY <2>6, <5>1, BoundOnMore
        <5>. QED
          BY <2>5, <4>2, <5>2
      <4>. QED
        BY <4>1, <4>2
    <3>2. brokerByRequester'[conn'].exists
      BY <1>2, <2>3, <2>4, <2>5
    <3>. QED
      BY <3>1, <3>2 DEF ReviewsInv
  <2>10. SessionsInv'
    <3>1. \A u \in Streams : serving'[u] \in Working => u \in controllers'
      BY <2>1, <2>2 DEF ScreenIInv, SessionsInv
    <3>2. \A u \in Streams : serving'[u] # "none" => connOf'[u] # 0
      BY <1>2, <1>3, <2>1, <2>2, StreamsAssumption DEF ScreenIInv, SessionsInv, Conns
    <3>3. \A u \in Streams : \A i \in 1..Len(upstream'[u]) :
            upstream'[u][i] = "request" => i = 1 /\ serving'[u] = "none" /\ connOf'[u] = conn'
              /\ link' = "up"
      BY <1>2, <1>4, <1>5, <2>2 DEF ScreenIInv, SessionsInv
    <3>. QED
      BY <1>2, <3>1, <3>2, <3>3 DEF ScreenIInv, SessionsInv
  <2>11. ClosedIsReleased'
    <3>1. conn \in activeSessions
      BY <2>1 DEF ScreenIInv, SessionsInv
    <3>. QED
      BY <1>2, <2>1, <2>2, <2>3, <2>5, <3>1 DEF ScreenIInv, ClosedIsReleased
  <2>12. StagesInv'
    BY <1>1, <1>2, <1>5, <1>6, <2>2, MovesKeepStages
  <2>13. StreamTypes'
    <3>1. controllers' \subseteq Streams /\ abortedTasks' \subseteq Streams
            /\ activeSessions' \subseteq Conns
          /\ responses' \subseteq responses
             /\ handler' \in [Streams -> {"free", "asking", "answering"}]
      BY <1>2, <1>3, <2>1
    <3>. QED
      BY <1>1, <1>5, <2>2, <2>5, <3>1, MovesKeepTypes
  <2>. QED
    BY <1>1, <1>7, <2>9, <2>10, <2>11, <2>12, <2>13, MovesKeepAll
<1>9. CASE CancelArrives(t)
  <2>1. controllers' = controllers /\ serving' = serving /\ brokerByRequester' = brokerByRequester
        /\ abortedTasks' = abortedTasks \cup ({t} \cap controllers)
    BY <1>9 DEF CancelArrives
  <2>2. ReviewsInv'
    BY <1>2, <2>1 DEF ScreenIInv, ReviewsInv, ServedOn, UnderReview
  <2>3. SessionsInv'
    <3>1. \A u \in Streams : \A i \in 1..Len(upstream'[u]) :
            upstream'[u][i] = "request" => i = 1 /\ serving'[u] = "none" /\ connOf'[u] = conn'
              /\ link' = "up"
      BY <1>2, <1>4, <1>5, <2>1 DEF ScreenIInv, SessionsInv
    <3>. QED
      BY <1>2, <2>1, <3>1 DEF ScreenIInv, SessionsInv
  <2>4. ClosedIsReleased'
    BY <1>2, <2>1 DEF ScreenIInv, ClosedIsReleased
  <2>5. StagesInv'
    BY <1>1, <1>2, <1>5, <1>6, <2>1, MovesKeepStages
  <2>6. StreamTypes'
    <3>1. controllers' \subseteq Streams /\ abortedTasks' \subseteq Streams
            /\ activeSessions' \subseteq Conns
          /\ responses' \subseteq responses
             /\ handler' \in [Streams -> {"free", "asking", "answering"}]
          /\ brokerByRequester' \in [Conns -> PlanBrokers] /\ serving' \in [Streams -> Serving]
      BY <1>2, <1>3, <2>1
    <3>. QED
      BY <1>1, <1>5, <3>1, MovesKeepTypes
  <2>. QED
    BY <1>1, <1>7, <2>2, <2>3, <2>4, <2>5, <2>6, MovesKeepAll
<1>. QED
  BY <1>8, <1>9 DEF ServerReceives

(* SyncTools keeps the invariant: the new broker has no plan.              *)
LEMMA SyncKeeps ==
  ASSUME ScreenIInv, SyncTools
  PROVE  ScreenIInv'
<1>1. ServerMoves
  BY SyncMoves
<1>2. /\ UNCHANGED <<activeSessions, linkVars, responses, clientVars>> /\ handler' = handler
      /\ upstream' = upstream /\ connOf' = connOf /\ conn' = conn /\ link' = link
      /\ controllers' = controllers /\ serving' = serving /\ abortedTasks' = abortedTasks
      /\ link = "up" /\ \A t \in Streams : connOf[t] # conn
      /\ brokerByRequester' = [brokerByRequester EXCEPT ![conn] = Fresh(0)]
  BY DEF SyncTools, clientVars, linkVars, netVars
<1>3. /\ upstream \in [Streams -> Seq({"request", "cancel"})] /\ serving \in [Streams -> Serving]
      /\ brokerByRequester \in [Conns -> PlanBrokers] /\ connOf \in [Streams -> 0..conn]
         /\ conn \in Conns
      /\ controllers \subseteq Streams /\ abortedTasks \subseteq Streams
         /\ activeSessions \subseteq Conns
      /\ responses \subseteq responses /\ handler \in [Streams -> {"free", "asking", "answering"}]
  BY DEF ScreenIInv, StreamTypes, LinkTypes, ScreenTypes
<1>4. ResponsesInv' /\ QuietPrompt'
  BY <1>2, ClientStill
<1>5. PICK d : d = Fresh(0) /\ d \in PlanBrokers /\ d.emit = 0 /\ d.active = 0 /\ d.waiting = <<>>
  <2>1. <<>> \in Seq(Streams) /\ 0 \in 0..MaxStreams
    BY StreamsAssumption
  <2>2. Fresh(0) \in PlanBrokers /\ Fresh(0).emit = 0 /\ Fresh(0).active = 0
          /\ Fresh(0).waiting = <<>>
    BY <2>1 DEF Fresh, PlanBrokers
  <2>. QED
    BY <2>2, Zenon
<1>6. /\ brokerByRequester' \in [Conns -> PlanBrokers] /\ brokerByRequester'[conn] = d
      /\ \A e \in Conns : e # conn => brokerByRequester'[e] = brokerByRequester[e]
  BY <1>2, <1>3, <1>5
<1>7. ReviewsInv'
  <2>1. \A S, U : WellBound(d, S, U)
    BY <1>5 DEF WellBound
  <2>2. ASSUME NEW e \in Conns PROVE WellBound(brokerByRequester'[e], ServedOn(e)',
                 UnderReview(e)')
    <3>1. ServedOn(e)' = ServedOn(e) /\ UnderReview(e)' = UnderReview(e)
      BY <1>2 DEF ServedOn, UnderReview
    <3>2. WellBound(brokerByRequester[e], ServedOn(e), UnderReview(e))
      BY DEF ScreenIInv, ReviewsInv
    <3>. QED
      BY <1>6, <2>1, <3>1, <3>2
  <2>3. \A t \in Streams : connOf'[t] # conn'
    BY <1>2
  <2>. QED
    BY <2>2, <2>3 DEF ReviewsInv
<1>8. SessionsInv'
  BY <1>2 DEF ScreenIInv, SessionsInv
<1>9. ClosedIsReleased'
  <2>1. conn \in activeSessions
    BY <1>2 DEF ScreenIInv, SessionsInv
  <2>. QED
    BY <1>2, <1>6, <2>1 DEF ScreenIInv, ClosedIsReleased
<1>10. StagesInv'
  BY <1>1, <1>2, MovesKeepStages
<1>11. StreamTypes'
  BY <1>1, <1>2, <1>3, <1>6, MovesKeepTypes
<1>. QED
  BY <1>1, <1>4, <1>7, <1>8, <1>9, <1>10, <1>11, MovesKeepAll

(* A step that moves the stage of a task that is not under review.         *)
LEMMA StageKeeps ==
  ASSUME ScreenIInv, ServerMoves, NEW t \in Streams,
         serving[t] \in Working, serving[t] # "review", serving'[t] \notin {"none", "review"},
         serving' \in [Streams -> Serving], \A u \in Streams : u # t => serving'[u] = serving[u],
         controllers' = controllers \/ (controllers' = controllers \ {t} /\ serving'[t] = "over"),
         UNCHANGED <<activeSessions, abortedTasks, brokerByRequester, upstream, responses,
           clientVars,
                     linkVars>>
  PROVE  ScreenIInv'
<1>1. /\ handler' = handler /\ upstream' = upstream /\ connOf' = connOf /\ conn' = conn
         /\ link' = link
      /\ brokerByRequester' = brokerByRequester /\ activeSessions' = activeSessions
      /\ abortedTasks' = abortedTasks /\ responses' = responses
  BY DEF clientVars, linkVars
<1>2. /\ upstream \in [Streams -> Seq({"request", "cancel"})]
      /\ brokerByRequester \in [Conns -> PlanBrokers] /\ activeSessions \subseteq Conns
      /\ controllers' \subseteq Streams /\ abortedTasks \subseteq Streams
      /\ handler \in [Streams -> {"free", "asking", "answering"}]
  BY DEF ScreenIInv, StreamTypes, LinkTypes, ScreenTypes
<1>3. ResponsesInv' /\ QuietPrompt'
  BY ClientStill
<1>4. serving[t] \notin {"none", "review"} /\ serving'[t] \notin {"none", "review"}
  BY DEF Working
<1>5. ReviewsInv'
  <2>1. \A c \in Conns : ServedOn(c)' = ServedOn(c) /\ UnderReview(c)' = UnderReview(c)
    BY <1>1, <1>4 DEF ServedOn, UnderReview
  <2>. QED
    BY <1>1, <1>4, <2>1 DEF ScreenIInv, ReviewsInv
<1>6. SessionsInv'
  <2>1. \A u \in Streams : serving'[u] \in Working => u \in controllers'
    BY DEF ScreenIInv, SessionsInv, Working
  <2>. QED
    BY <1>1, <1>4, <2>1 DEF ScreenIInv, SessionsInv
<1>7. ClosedIsReleased'
  BY <1>1 DEF ScreenIInv, ClosedIsReleased
<1>8. StagesInv'
  <2>1. screen[t] # "idle"
    BY <1>4 DEF ScreenIInv, StagesInv, StageOf, NotSentYet
  <2>. QED
    BY <1>1, <1>4, <2>1, MovesKeepStages
<1>9. StreamTypes'
  BY <1>1, <1>2, MovesKeepTypes
<1>. QED
  BY <1>3, <1>5, <1>6, <1>7, <1>8, <1>9, MovesKeepAll

(* EmitToken keeps the invariant.                                          *)
LEMMA TokenKeeps ==
  ASSUME ScreenIInv, NEW t \in Streams, EmitToken(t)
  PROVE  ScreenIInv'
<1>1. ServerMoves
  BY TokenMoves
<1>2. /\ serving' = serving /\ serving[t] = "turn" /\ controllers' = controllers
      /\ UNCHANGED <<activeSessions, abortedTasks, brokerByRequester, upstream, responses,
         clientVars,
                     linkVars>>
  BY DEF EmitToken, SessionKept
<1>3. serving' \in [Streams -> Serving]
  BY <1>2 DEF ScreenIInv, StreamTypes, LinkTypes
<1>4. serving[t] \in Working /\ serving[t] # "review" /\ serving'[t] \notin {"none", "review"}
      /\ \A u \in Streams : u # t => serving'[u] = serving[u]
  BY <1>2 DEF Working, Serving
<1>. QED
  BY <1>1, <1>2, <1>3, <1>4, StageKeeps

(* StreamEnds keeps the invariant: the task needs no controller any more.  *)
LEMMA EndKeeps ==
  ASSUME ScreenIInv, NEW t \in Streams, TurnEnds(t) \/ StreamEnds(t)
  PROVE  ScreenIInv'
<1>1. ServerMoves
  BY EndMoves
<1>2. CASE TurnEnds(t)
  <2>1. /\ serving[t] = "turn" /\ (Serve(t, "succeeded") \/ Serve(t, "failed"))
           /\ controllers' = controllers
        /\ UNCHANGED <<activeSessions, abortedTasks, brokerByRequester, upstream, responses,
           clientVars,
                       linkVars>>
    BY <1>2 DEF TurnEnds, SessionKept
  <2>2. /\ serving' \in [Streams -> Serving] /\ serving'[t] \in {"succeeded", "failed"}
        /\ \A u \in Streams : u # t => serving'[u] = serving[u]
    BY <2>1, Staged DEF Serving
  <2>3. serving[t] \in Working /\ serving[t] # "review" /\ serving'[t] \notin {"none", "review"}
    BY <2>1, <2>2 DEF Working, Serving
  <2>. QED
    BY <1>1, <2>1, <2>2, <2>3, StageKeeps
<1>3. CASE StreamEnds(t)
  <2>1. /\ serving[t] \in {"failed", "succeeded"} /\ Serve(t, "over")
           /\ controllers' = controllers \ {t}
        /\ UNCHANGED <<activeSessions, abortedTasks, brokerByRequester, upstream, responses,
           clientVars,
                       linkVars>>
    BY <1>3 DEF StreamEnds
  <2>2. /\ serving' \in [Streams -> Serving] /\ serving'[t] = "over"
        /\ \A u \in Streams : u # t => serving'[u] = serving[u]
    BY <2>1, Staged DEF Serving
  <2>3. serving[t] \in Working /\ serving[t] # "review" /\ serving'[t] \notin {"none", "review"}
    BY <2>1, <2>2 DEF Working, Serving
  <2>. QED
    BY <1>1, <2>1, <2>2, <2>3, StageKeeps
<1>. QED
  BY <1>2, <1>3

(* A step that flushes the reviews of a connection, after the stage of one *)
(* of its tasks has moved between its turn and a review.                   *)
LEMMA FlushKeeps ==
  ASSUME ScreenIInv, ServerMoves, NEW c \in Conns, NEW b \in PlanBrokers,
         b.exists = brokerByRequester[c].exists,
         NEW t, t \in Streams => connOf[t] = c /\ serving[t] \in {"turn", "review"}
           /\ serving'[t] \in {"turn", "review"},
         serving' \in [Streams -> Serving], \A u \in Streams : u # t => serving'[u] = serving[u],
         WellBound(b, ServedOn(c)', UnderReview(c)'), Flush(c, b), SessionKept,
         \A u \in Streams : handler'[u] = handler[u] \/ handler'[u] = "free",
         handler' \in [Streams -> {"free", "asking", "answering"}],
         responses' \subseteq responses, upstream' = upstream
  PROVE  StreamTypes' /\ SessionsInv' /\ ReviewsInv' /\ ClosedIsReleased' /\ StagesInv'
<1>1. /\ connOf' = connOf /\ conn' = conn /\ link' = link
      /\ activeSessions' = activeSessions /\ abortedTasks' = abortedTasks
         /\ controllers' = controllers
  BY DEF ServerMoves, linkVars, SessionKept
<1>2. /\ upstream \in [Streams -> Seq({"request", "cancel"})]
      /\ brokerByRequester \in [Conns -> PlanBrokers] /\ activeSessions \subseteq Conns
      /\ controllers \subseteq Streams /\ abortedTasks \subseteq Streams /\ conn \in Conns
  BY DEF ScreenIInv, StreamTypes, LinkTypes, ScreenTypes
<1>3. /\ brokerByRequester' \in [Conns -> PlanBrokers]
      /\ \A d \in Conns : d # c => brokerByRequester'[d] = brokerByRequester[d]
      /\ brokerByRequester'[c].exists = b.exists
      /\ WellBound(brokerByRequester'[c], ServedOn(c)', UnderReview(c)')
  BY <1>2, FlushBinds
<1>4. ReviewsInv'
  <2>1. ASSUME NEW e \in Conns PROVE WellBound(brokerByRequester'[e], ServedOn(e)',
                 UnderReview(e)')
    <3>1. CASE e = c
      BY <1>3, <3>1
    <3>2. CASE e # c
      <4>1. ServedOn(e)' = ServedOn(e) /\ UnderReview(e)' = UnderReview(e)
        BY <1>1, <3>2 DEF ServedOn, UnderReview
      <4>2. WellBound(brokerByRequester[e], ServedOn(e), UnderReview(e))
        BY DEF ScreenIInv, ReviewsInv
      <4>. QED
        BY <1>3, <3>2, <4>1, <4>2
    <3>. QED
      BY <3>1, <3>2
  <2>2. \A d \in Conns : brokerByRequester'[d].exists = brokerByRequester[d].exists
    BY <1>3
  <2>3. \A u \in Streams : serving'[u] # "none" => serving[u] # "none"
    BY DEF Serving
  <2>4. \A u \in Streams :
          serving'[u] # "none" /\ connOf'[u] = conn' /\ link' = "up"
            => brokerByRequester'[conn'].exists
    BY <1>1, <1>2, <2>2, <2>3 DEF ScreenIInv, ReviewsInv
  <2>. QED
    BY <2>1, <2>4 DEF ReviewsInv
<1>5. SessionsInv'
  <2>1. \A u \in Streams : serving'[u] \in Working => u \in controllers'
    BY <1>1 DEF ScreenIInv, SessionsInv, Working, Serving
  <2>2. \A u \in Streams : serving[u] = "none" => serving'[u] = "none"
    OBVIOUS
  <2>3. \A u \in Streams : serving'[u] # "none" => serving[u] # "none"
    BY DEF Serving
  <2>. QED
    BY <1>1, <2>1, <2>2, <2>3 DEF ScreenIInv, SessionsInv
<1>6. ClosedIsReleased'
  <2>1. \A d \in Conns : brokerByRequester'[d].exists = brokerByRequester[d].exists
    BY <1>3
  <2>2. \A u \in Streams : serving'[u] \in Working => serving[u] \in Working
    BY DEF Working, Serving
  <2>. QED
    BY <1>1, <2>1, <2>2 DEF ScreenIInv, ClosedIsReleased
<1>7. StagesInv'
  <2>1. \A u \in Streams : serving'[u] = "none" => serving[u] = "none"
    OBVIOUS
  <2>2. \A u \in Streams : screen[u] = "idle" => serving[u] = "none"
    BY DEF ScreenIInv, StagesInv, StageOf, NotSentYet
  <2>3. \A u \in Streams : serving[u] = "none" => serving'[u] = "none"
    OBVIOUS
  <2>4. \A u \in Streams : screen[u] = "idle" => serving'[u] = serving[u]
          /\ upstream'[u] = upstream[u]
    BY <2>2, <2>3
  <2>. QED
    BY <2>1, <2>4, MovesKeepStages
<1>8. StreamTypes'
  <2>1. activeSessions' \subseteq Conns /\ controllers' \subseteq Streams
          /\ abortedTasks' \subseteq Streams
        /\ upstream' \in [Streams -> Seq({"request", "cancel"})]
    BY <1>1, <1>2
  <2>. QED
    BY <1>3, <2>1, MovesKeepTypes
<1>. QED
  BY <1>4, <1>5, <1>6, <1>7, <1>8

(* AskPlan keeps the invariant: the task waits once, and is under review.  *)
LEMMA AskKeeps ==
  ASSUME ScreenIInv, NEW t \in Streams, AskPlan(t)
  PROVE  ScreenIInv'
<1>1. ServerMoves
  BY AskMoves
<1>2. /\ serving[t] = "turn" /\ Serve(t, "review") /\ SessionKept
      /\ Flush(connOf[t], [brokerByRequester[connOf[t]] EXCEPT !.waiting = Append(@, t)])
      /\ UNCHANGED <<linkVars, responses, clientVars>> /\ handler' = handler
         /\ upstream' = upstream
      /\ connOf' = connOf /\ responses' = responses
  BY DEF AskPlan, clientVars, linkVars
<1>3. connOf[t] \in Conns
  BY <1>2, StreamsAssumption DEF ScreenIInv, SessionsInv, StreamTypes, LinkTypes, Conns
<1>4. PICK c \in Conns, b \in PlanBrokers :
        /\ c = connOf[t] /\ b = brokerByRequester[c]
        /\ b.waiting \in Seq(Streams) /\ Len(b.waiting) \in Nat
        /\ \A i \in 1..Len(b.waiting) : serving[b.waiting[i]] = "review"
           /\ b.waiting[i] \in Streams
        /\ WellBound(b, ServedOn(c), UnderReview(c))
           /\ (b.active # 0 => serving[b.active] = "review")
  BY <1>3, BrokerOf
<1>5. /\ serving' \in [Streams -> Serving] /\ serving'[t] = "review"
      /\ \A u \in Streams : u # t => serving'[u] = serving[u]
  BY <1>2, Staged DEF Serving
<1>. DEFINE d == [b EXCEPT !.waiting = Append(b.waiting, t)]
<1>6. /\ Append(b.waiting, t) \in Seq(Streams) /\ Len(Append(b.waiting, t)) = Len(b.waiting) + 1
      /\ Append(b.waiting, t)[Len(b.waiting) + 1] = t
      /\ \A i \in 1..Len(b.waiting) : Append(b.waiting, t)[i] = b.waiting[i]
      /\ \A i \in 1..(Len(b.waiting) + 1) : i \in 1..Len(b.waiting) \/ i = Len(b.waiting) + 1
  <2>1. PICK q \in Seq(Streams) : q = b.waiting
    BY <1>4
  <2>2. Append(q, t) \in Seq(Streams) /\ Len(Append(q, t)) = Len(q) + 1
    OBVIOUS
  <2>3. Append(q, t)[Len(q) + 1] = t
    OBVIOUS
  <2>4. \A i \in 1..Len(q) : Append(q, t)[i] = q[i]
    OBVIOUS
  <2>5. \A i \in 1..(Len(q) + 1) : i \in 1..Len(q) \/ i = Len(q) + 1
    OBVIOUS
  <2>. QED
    BY <2>1, <2>2, <2>3, <2>4, <2>5
<1>7. d \in PlanBrokers /\ d.exists = b.exists /\ d.emit = b.emit /\ d.active = b.active
      /\ d.waiting = Append(b.waiting, t)
  BY <1>6, Queued
<1>8. Flush(c, d)
  BY <1>2, <1>4
<1>. HIDE DEF d
<1>9. ServedOn(c) \subseteq ServedOn(c)' /\ UnderReview(c) \subseteq UnderReview(c)'
        /\ t \in UnderReview(c)'
  BY <1>2, <1>4, <1>5 DEF ServedOn, UnderReview
<1>10. WellBound(d, ServedOn(c)', UnderReview(c)')
  <2>1. d.emit # 0 => d.emit \in ServedOn(c)'
    BY <1>4, <1>7, <1>9 DEF WellBound
  <2>2. d.active # 0 => d.active \in UnderReview(c)'
    BY <1>4, <1>7, <1>9 DEF WellBound
  <2>3. t # b.active
    BY <1>2, <1>4, StreamsAssumption DEF Streams
  <2>4. \A i \in 1..Len(b.waiting) : b.waiting[i] # t /\ b.waiting[i] \in UnderReview(c)'
                                     /\ b.waiting[i] # b.active
    BY <1>2, <1>4, <1>9 DEF WellBound
  <2>5. \A i \in 1..Len(d.waiting) : d.waiting[i] \in UnderReview(c)' /\ d.waiting[i] # d.active
    BY <1>6, <1>7, <1>9, <2>3, <2>4
  <2>6. \A i, j \in 1..Len(b.waiting) : b.waiting[i] = b.waiting[j] => i = j
    BY <1>4 DEF WellBound
  <2>7. \A i, j \in 1..Len(d.waiting) : d.waiting[i] = d.waiting[j] => i = j
    BY <1>4, <1>6, <1>7, <2>4, <2>6
  <2>. QED
    BY <2>1, <2>2, <2>5, <2>7 DEF WellBound
<1>11. handler' \in [Streams -> {"free", "asking", "answering"}]
  BY <1>2 DEF ScreenIInv, StreamTypes, ScreenTypes
<1>12. StreamTypes' /\ SessionsInv' /\ ReviewsInv' /\ ClosedIsReleased' /\ StagesInv'
  <2>1. t \in Streams => connOf[t] = c /\ serving[t] \in {"turn", "review"}
          /\ serving'[t] \in {"turn", "review"}
    BY <1>2, <1>4, <1>5
  <2>2. d.exists = brokerByRequester[c].exists
    BY <1>4, <1>7
  <2>3. responses' \subseteq responses /\ \A u \in Streams : handler'[u] = handler[u]
          \/ handler'[u] = "free"
    BY <1>2
  <2>. QED
    BY <1>1, <1>2, <1>5, <1>7, <1>8, <1>10, <1>11, <2>1, <2>2, <2>3, FlushKeeps
<1>13. ResponsesInv' /\ QuietPrompt'
  BY <1>2, ClientStill
<1>. QED
  BY <1>1, <1>12, <1>13, MovesKeepAll

(* A review that is settled, by the user or by its timeout, keeps what the *)
(* server holds; the response of the user may be used up with it.          *)
LEMMA SettleKeeps ==
  ASSUME ScreenIInv, NEW c \in Conns, NEW p, Settle(c, p), SessionKept,
         sentTokens' = sentTokens, upstream' = upstream,
         UNCHANGED <<linkVars, frameChain, done, screen, buffer, errorShown, cancelledByUser,
                     transcript, late>>,
         \A u \in Streams : handler'[u] = handler[u] \/ handler'[u] = "free",
         handler' \in [Streams -> {"free", "asking", "answering"}],
         responses' \subseteq responses
  PROVE  ServerMoves /\ StreamTypes' /\ SessionsInv' /\ ReviewsInv' /\ ClosedIsReleased'
           /\ StagesInv'
<1>1. ServerMoves
  BY SettleMoves
<1>2. /\ connOf' = connOf /\ conn' = conn /\ link' = link
      /\ activeSessions' = activeSessions /\ abortedTasks' = abortedTasks
         /\ controllers' = controllers
  BY DEF linkVars, SessionKept
<1>3. CASE brokerByRequester[c].active # p
  <2>1. serving' = serving /\ brokerByRequester' = brokerByRequester
    BY <1>3 DEF Settle
  <2>2. ReviewsInv' /\ SessionsInv' /\ ClosedIsReleased'
    BY <1>2, <2>1
       DEF ScreenIInv, ReviewsInv, SessionsInv, ClosedIsReleased, ServedOn, UnderReview
  <2>3. StagesInv'
    BY <1>1, <2>1, MovesKeepStages
  <2>4. StreamTypes'
    <3>1. /\ activeSessions' \subseteq Conns /\ controllers' \subseteq Streams
             /\ abortedTasks' \subseteq Streams
          /\ brokerByRequester' \in [Conns -> PlanBrokers] /\ serving' \in [Streams -> Serving]
          /\ upstream' \in [Streams -> Seq({"request", "cancel"})]
      BY <1>2, <2>1 DEF ScreenIInv, StreamTypes, LinkTypes
    <3>. QED
      BY <1>1, <3>1, MovesKeepTypes
  <2>. QED
    BY <1>1, <2>2, <2>3, <2>4
<1>4. CASE brokerByRequester[c].active = p
  <2>1. PICK b \in PlanBrokers :
          /\ b = brokerByRequester[c] /\ p \in 0..MaxStreams
          /\ (b.active # 0 => b.active \in Streams /\ serving[b.active] = "review" /\ connOf[b.active] = c)
          /\ WellBound(b, ServedOn(c), UnderReview(c))
    BY <1>4, BrokerOf
  <2>2. PICK d \in PlanBrokers :
          /\ d = [b EXCEPT !.active = 0]
          /\ d.emit = b.emit /\ d.waiting = b.waiting /\ d.active = 0 /\ d.exists = b.exists
    BY Cleared
  <2>3. Serve(p, "turn") /\ Flush(c, d)
    BY <1>4, <2>1, <2>2 DEF Settle
  <2>4. /\ serving' \in [Streams -> Serving] /\ (p \in Streams => serving'[p] = "turn")
        /\ \A u \in Streams : u # p => serving'[u] = serving[u]
    BY <2>3, Staged DEF Serving
  <2>5. p \in Streams => connOf[p] = c /\ serving[p] \in {"turn", "review"}
          /\ serving'[p] \in {"turn", "review"}
    BY <1>4, <2>1, <2>4, StreamsAssumption DEF Streams
  <2>6. ServedOn(c) \subseteq ServedOn(c)' /\ UnderReview(c) \ {p} \subseteq UnderReview(c)'
    BY <1>2, <2>4, <2>5 DEF ServedOn, UnderReview
  <2>7. WellBound(d, ServedOn(c)', UnderReview(c)')
    <3>1. d.emit # 0 => d.emit \in ServedOn(c)'
      BY <2>1, <2>2, <2>6 DEF WellBound
    <3>2. \A i \in 1..Len(d.waiting) : d.waiting[i] \in UnderReview(c) /\ d.waiting[i] # p
      BY <1>4, <2>1, <2>2 DEF WellBound
    <3>3. \A i \in 1..Len(d.waiting) : d.waiting[i] # 0
      BY <3>2, StreamsAssumption DEF UnderReview, Streams
    <3>4. \A i, j \in 1..Len(d.waiting) : d.waiting[i] = d.waiting[j] => i = j
      BY <2>1, <2>2 DEF WellBound
    <3>. QED
      BY <2>2, <2>6, <3>1, <3>2, <3>3, <3>4 DEF WellBound
  <2>8. d.exists = brokerByRequester[c].exists
    BY <2>1, <2>2
  <2>. QED
    BY <1>1, <2>3, <2>4, <2>5, <2>7, <2>8, FlushKeeps
<1>. QED
  BY <1>3, <1>4

(* ReviewExpires keeps the invariant.                                      *)
LEMMA ExpiresKeeps ==
  ASSUME ScreenIInv, NEW c \in Conns, ReviewExpires(c)
  PROVE  ScreenIInv'
<1>1. /\ Settle(c, brokerByRequester[c].active) /\ SessionKept /\ sentTokens' = sentTokens
         /\ upstream' = upstream
      /\ UNCHANGED <<linkVars, responses, clientVars>>
      /\ UNCHANGED <<linkVars, frameChain, done, screen, buffer, errorShown, cancelledByUser,
                     transcript, late>>
      /\ handler' = handler /\ responses' = responses
  BY DEF ReviewExpires, clientVars, shownVars
<1>2. /\ handler' \in [Streams -> {"free", "asking", "answering"}]
         /\ responses' \subseteq responses
      /\ \A u \in Streams : handler'[u] = handler[u] \/ handler'[u] = "free"
  BY <1>1 DEF ScreenIInv, StreamTypes, ScreenTypes
<1>3. ServerMoves /\ StreamTypes' /\ SessionsInv' /\ ReviewsInv' /\ ClosedIsReleased'
        /\ StagesInv'
  BY <1>1, <1>2, SettleKeeps
<1>4. ResponsesInv' /\ QuietPrompt'
  BY <1>1, ClientStill
<1>. QED
  BY <1>3, <1>4, MovesKeepAll

(* ServerCloses keeps the invariant: what the connection held is released. *)
LEMMA ClosesKeep ==
  ASSUME ScreenIInv, NEW c \in Conns, ServerCloses(c)
  PROVE  ScreenIInv'
<1>1. ServerMoves
  BY ClosesMoves
<1>2. /\ UNCHANGED <<linkVars, responses, clientVars>> /\ handler' = handler
      /\ upstream' = upstream /\ connOf' = connOf /\ conn' = conn /\ link' = link
      /\ controllers' = controllers /\ responses' = responses
      /\ (c # conn \/ link = "down") /\ activeSessions' = activeSessions \ {c}
      /\ abortedTasks' = abortedTasks \cup AbortedAtClose(c)
      /\ serving' = [t \in Streams |-> IF serving[t] = "review" /\ connOf[t] = c THEN "turn"
                                       ELSE serving[t]]
  BY DEF ServerCloses, clientVars, linkVars, netVars
<1>3. /\ upstream \in [Streams -> Seq({"request", "cancel"})] /\ serving \in [Streams -> Serving]
      /\ brokerByRequester \in [Conns -> PlanBrokers]
      /\ controllers \subseteq Streams /\ abortedTasks \subseteq Streams
         /\ activeSessions \subseteq Conns
      /\ responses \subseteq responses /\ handler \in [Streams -> {"free", "asking", "answering"}]
  BY DEF ScreenIInv, StreamTypes, LinkTypes, ScreenTypes
<1>4. PICK b \in PlanBrokers : b = brokerByRequester[c]
             /\ WellBound(b, ServedOn(c), UnderReview(c))
  BY BrokerOf
<1>5. PICK d \in PlanBrokers :
        d = [NoConn EXCEPT !.emit = b.emit] /\ ~d.exists /\ d.emit = b.emit /\ d.active = 0
          /\ d.waiting = <<>>
  <2>1. NoConn \in PlanBrokers /\ ~NoConn.exists /\ NoConn.active = 0 /\ NoConn.waiting = <<>>
    <3>1. <<>> \in Seq(Streams) /\ 0 \in 0..MaxStreams
      BY StreamsAssumption
    <3>. QED
      BY <3>1 DEF NoConn, PlanBrokers
  <2>2. b.emit \in 0..MaxStreams
    BY DEF PlanBrokers
  <2>3. PICK e \in PlanBrokers : e = NoConn /\ ~e.exists /\ e.active = 0 /\ e.waiting = <<>>
    BY <2>1
  <2>4. PICK m \in 0..MaxStreams : m = b.emit
    BY <2>2
  <2>5. /\ [e EXCEPT !.emit = m] \in PlanBrokers /\ [e EXCEPT !.emit = m].exists = e.exists
        /\ [e EXCEPT !.emit = m].emit = m /\ [e EXCEPT !.emit = m].active = e.active
        /\ [e EXCEPT !.emit = m].waiting = e.waiting
    BY DEF PlanBrokers
  <2>. QED
    BY <2>3, <2>4, <2>5
<1>6. brokerByRequester' = [brokerByRequester EXCEPT ![c] = d]
  BY <1>4, <1>5 DEF ServerCloses
<1>7. /\ brokerByRequester' \in [Conns -> PlanBrokers] /\ brokerByRequester'[c] = d
      /\ \A e \in Conns : e # c => brokerByRequester'[e] = brokerByRequester[e]
  BY <1>3, <1>6
<1>8. /\ serving' \in [Streams -> Serving]
      /\ \A u \in Streams : serving'[u] = serving[u]
         \/ (serving[u] = "review" /\ connOf[u] = c /\ serving'[u] = "turn")
  BY <1>2, <1>3 DEF Serving
<1>9. ReviewsInv'
  <2>1. ASSUME NEW e \in Conns PROVE WellBound(brokerByRequester'[e], ServedOn(e)',
                 UnderReview(e)')
    <3>0. ServedOn(e) \subseteq ServedOn(e)'
      BY <1>2, <1>8 DEF ServedOn
    <3>1. CASE e = c
      <4>1. d.emit # 0 => d.emit \in ServedOn(e)'
        BY <1>4, <1>5, <3>0, <3>1 DEF WellBound
      <4>2. \A i \in 1..Len(d.waiting) : FALSE
        BY <1>5
      <4>3. WellBound(d, ServedOn(e)', UnderReview(e)')
        BY <1>5, <4>1, <4>2 DEF WellBound
      <4>. QED
        BY <1>7, <3>1, <4>3
    <3>2. CASE e # c
      <4>1. UnderReview(e) \subseteq UnderReview(e)'
        BY <1>2, <1>8, <3>2 DEF UnderReview
      <4>2. WellBound(brokerByRequester[e], ServedOn(e), UnderReview(e))
        BY DEF ScreenIInv, ReviewsInv
      <4>3. WellBound(brokerByRequester[e], ServedOn(e)', UnderReview(e)')
        BY <3>0, <4>1, <4>2, BoundOnMore
      <4>. QED
        BY <1>7, <3>2, <4>3
    <3>. QED
      BY <3>1, <3>2
  <2>2. \A u \in Streams : serving'[u] # "none" => serving[u] # "none"
    BY <1>8
  <2>3. conn \in Conns
    BY DEF ScreenIInv, StreamTypes, LinkTypes
  <2>4. \A u \in Streams :
          serving'[u] # "none" /\ connOf'[u] = conn' /\ link' = "up"
            => brokerByRequester'[conn'].exists
    BY <1>2, <1>7, <2>2, <2>3 DEF ScreenIInv, ReviewsInv
  <2>. QED
    BY <2>1, <2>4 DEF ReviewsInv
<1>10. \A u \in Streams : serving'[u] \in Working => serving[u] \in Working
  BY <1>8 DEF Working, Serving
<1>11. SessionsInv'
  <2>1. \A u \in Streams : serving'[u] \in Working => u \in controllers'
    BY <1>2, <1>10 DEF ScreenIInv, SessionsInv
  <2>2. \A u \in Streams : serving'[u] = "none" <=> serving[u] = "none"
    BY <1>8
  <2>. QED
    BY <1>2, <2>1, <2>2 DEF ScreenIInv, SessionsInv
<1>12. ClosedIsReleased'
  <2>. SUFFICES ASSUME NEW e \in Conns, e \notin activeSessions'
                PROVE  /\ ~brokerByRequester'[e].exists
                       /\ \A u \in Streams : connOf'[u] = e /\ serving'[u] \in Working
                          => u \in abortedTasks'
    BY DEF ClosedIsReleased
  <2>1. CASE e = c
    <3>1. \A u \in Streams : connOf[u] = c /\ serving[u] \in Working => u \in AbortedAtClose(c)
      BY DEF ScreenIInv, SessionsInv, AbortedAtClose
    <3>. QED
      BY <1>2, <1>5, <1>7, <1>10, <2>1, <3>1
  <2>2. CASE e # c
    <3>1. e \notin activeSessions
      BY <1>2, <2>2
    <3>2. /\ ~brokerByRequester[e].exists
          /\ \A u \in Streams : connOf[u] = e /\ serving[u] \in Working => u \in abortedTasks
      BY <3>1 DEF ScreenIInv, ClosedIsReleased
    <3>. QED
      BY <1>2, <1>7, <1>10, <2>2, <3>2
  <2>. QED
    BY <2>1, <2>2
<1>13. StagesInv'
  <2>1. \A u \in Streams : screen[u] = "idle" => serving[u] = "none"
    BY DEF ScreenIInv, StagesInv, StageOf, NotSentYet
  <2>2. \A u \in Streams : serving'[u] = "none" => serving[u] = "none"
    BY <1>8
  <2>3. \A u \in Streams : screen[u] = "idle" => serving'[u] = serving[u]
          /\ upstream'[u] = upstream[u]
    BY <1>2, <1>8, <2>1
  <2>. QED
    BY <1>1, <1>2, <2>2, <2>3, MovesKeepStages
<1>14. StreamTypes'
  <2>1. abortedTasks' \subseteq Streams /\ activeSessions' \subseteq Conns
          /\ controllers' \subseteq Streams
    BY <1>2, <1>3 DEF AbortedAtClose
  <2>. QED
    BY <1>1, <1>2, <1>3, <1>7, <1>8, <2>1, MovesKeepTypes
<1>15. ResponsesInv' /\ QuietPrompt'
  BY <1>2, ClientStill
<1>. QED
  BY <1>1, <1>9, <1>11, <1>12, <1>13, <1>14, <1>15, MovesKeepAll

(* What the server holds does not change by itself.                        *)
LEMMA ServerStill ==
  ASSUME ScreenIInv, UNCHANGED <<serverVars, linkVars>>
  PROVE  /\ ReviewsInv' /\ ClosedIsReleased'
         /\ upstream' = upstream => SessionsInv' /\ LinkTypes'
         /\ serving' = serving /\ sentTokens' = sentTokens /\ connOf' = connOf /\ conn' = conn
            /\ link' = link
<1>1. /\ connOf' = connOf /\ conn' = conn /\ link' = link /\ sentTokens' = sentTokens
      /\ activeSessions' = activeSessions /\ abortedTasks' = abortedTasks
         /\ controllers' = controllers
      /\ serving' = serving /\ brokerByRequester' = brokerByRequester
  BY DEF serverVars, linkVars
<1>2. ReviewsInv'
  BY <1>1 DEF ScreenIInv, ReviewsInv, ServedOn, UnderReview
<1>3. ClosedIsReleased'
  BY <1>1 DEF ScreenIInv, ClosedIsReleased
<1>4. upstream' = upstream => SessionsInv' /\ LinkTypes'
  BY <1>1 DEF ScreenIInv, StreamTypes, LinkTypes, SessionsInv
<1>. QED
  BY <1>1, <1>2, <1>3, <1>4

(* What is known of the frames and the screen of a stream.                 *)
LEMMA StreamOf ==
  ASSUME ScreenIInv, NEW t \in Streams
  PROVE  /\ wire[t] \in Seq(StreamFrames) /\ frameChain[t] \in Seq(StreamFrames)
         /\ buffer[t] \in Seq(StreamFrames) /\ transcript \in Seq(StreamFrames)
         /\ sentTokens[t] \in Nat
         /\ handler[t] \in {"free", "asking", "answering"}
         /\ done[t] \in {"open", "draining", "resolved", "rejected"}
         /\ screen[t] \in {"idle", "streaming", "ended"}
         /\ StageOf(t) /\ WireOf(t) /\ OrderOf(t) /\ ErrorsFor(t)
  BY DEF ScreenIInv, StreamTypes, FrameTypes, ScreenTypes, StagesInv, WireInv, OrderInv,
         ErrorsInv

(* The frames that come in at once leave the wire and join the chain: no   *)
(* frame that is handled is the one that ends the stream.                  *)
LEMMA ReceiveKeeps ==
  ASSUME ScreenIInv, NEW t \in Streams, Receive(t)
  PROVE  ScreenIInv'
<1>1. /\ UNCHANGED <<serverVars, linkVars>> /\ upstream' = upstream /\ responses' = responses
      /\ handler' = handler /\ screen' = screen /\ buffer' = buffer /\ errorShown' = errorShown
      /\ cancelledByUser' = cancelledByUser /\ transcript' = transcript
         /\ streamingText' = streamingText
      /\ spinner' = spinner /\ late' = late
      /\ done[t] = "open" /\ wire[t] # <<>>
  BY DEF Receive, shownVars
<1>2. /\ ReviewsInv' /\ ClosedIsReleased' /\ SessionsInv' /\ LinkTypes'
      /\ serving' = serving /\ sentTokens' = sentTokens /\ connOf' = connOf /\ conn' = conn
         /\ link' = link
  BY <1>1, ServerStill
<1>3. /\ wire \in [Streams -> Seq(StreamFrames)] /\ frameChain \in [Streams -> Seq(StreamFrames)]
      /\ done \in [Streams -> {"open", "draining", "resolved", "rejected"}]
      /\ wire[t] \in Seq(StreamFrames) /\ frameChain[t] \in Seq(StreamFrames)
         /\ buffer[t] \in Seq(StreamFrames)
      /\ transcript \in Seq(StreamFrames) /\ sentTokens[t] \in Nat
      /\ StageOf(t) /\ WireOf(t) /\ OrderOf(t) /\ ErrorsFor(t)
  BY StreamOf DEF ScreenIInv, StreamTypes, FrameTypes, ScreenTypes
<1>4. screen[t] = "streaming" /\ serving[t] # "none" /\ t \notin late /\ t \notin cancelledByUser
  BY <1>1, <1>3, StreamOf DEF StageOf, NotSentYet
<1>a. PICK s \in Seq(StreamFrames), g \in Seq(StreamFrames) :
        /\ s = wire[t] /\ g = frameChain[t]
        /\ \A i \in 1..Len(s) :
             /\ s[i].kind # "plan" => s[i].of = t
             /\ s[i].kind \in {"complete", "fail"} => i = Len(s) /\ serving[t] = "over"
             /\ s[i].kind = "plan" => s[i].of = t \/ s[i].of \in cancelledByUser
        /\ connOf[t] = conn /\ link = "up"
  BY <1>1, <1>3 DEF WireOf, ItsPlan
<1>5. PICK k \in 1..Len(s) :
        /\ wire' = [wire EXCEPT ![t] = SubSeq(s, k + 1, Len(s))]
        /\ frameChain' = [frameChain EXCEPT ![t] =
             g \o SubSeq(s, 1, IF s[k].kind \in {"complete", "fail"} THEN k - 1 ELSE k)]
        /\ done' = CASE s[k].kind = "complete" -> Conclusion(t, Completed)
                     [] s[k].kind = "fail" -> Conclusion(t, "rejected")
                     [] OTHER -> done
  BY <1>a DEF Receive
<1>b. \A i \in 1..Len(s) : s[i] \in StreamFrames
        /\ s[i].kind \in {"token", "plan", "error", "complete", "fail"}
  <2>1. \A i \in 1..Len(s) : s[i] \in StreamFrames
    OBVIOUS
  <2>. QED
    BY <2>1 DEF StreamFrames
<1>d. PICK u, v, o :
        u = SubSeq(s, 1, k) /\ v = SubSeq(s, k + 1, Len(s)) /\ o = SubSeq(s, 1, k - 1)
  OBVIOUS
<1>e. s \in Seq(StreamFrames) /\ k \in 1..Len(s) /\ Len(s) \in Nat /\ k \in Nat
  BY <1>5, <1>a
<1>6. /\ u \in Seq(StreamFrames) /\ v \in Seq(StreamFrames) /\ o \in Seq(StreamFrames)
      /\ s[k] \in StreamFrames
      /\ Len(u) = k /\ Len(v) = Len(s) - k /\ Len(o) = k - 1
      /\ \A i \in 1..k : u[i] = s[i]
      /\ \A i \in 1..(k - 1) : o[i] = s[i]
      /\ \A i \in 1..(Len(s) - k) : v[i] = s[k + i]
  BY <1>d, <1>e, CutAt
<1>f. s = u \o v
  BY <1>d, <1>e, CutAt
<1>g. u = Append(o, s[k])
  BY <1>d, <1>e, CutAt
<1>7. PICK q \in Seq(StreamFrames) :
        /\ q = (IF s[k].kind \in {"complete", "fail"} THEN o ELSE u)
        /\ frameChain' = [frameChain EXCEPT ![t] = g \o q]
  BY <1>5, <1>6, <1>d
<1>h. PICK h : h = g \o q
  OBVIOUS
<1>c. /\ h \in Seq(StreamFrames) /\ Len(h) = Len(g) + Len(q) /\ Len(g) \in Nat /\ Len(q) \in Nat
      /\ \A i \in 1..Len(g) : h[i] = g[i]
      /\ \A i \in 1..Len(q) : h[Len(g) + i] = q[i]
  <2>1. /\ g \o q \in Seq(StreamFrames) /\ Len(g \o q) = Len(g) + Len(q) /\ Len(g) \in Nat
           /\ Len(q) \in Nat
        /\ \A i \in 1..Len(g) : (g \o q)[i] = g[i]
        /\ \A i \in 1..Len(q) : (g \o q)[Len(g) + i] = q[i]
    BY <1>7, <1>a, ConcatParts
  <2>. QED
    BY <1>h, <2>1
<1>8. /\ wire'[t] = v /\ \A x \in Streams : x # t => wire'[x] = wire[x]
         /\ frameChain'[x] = frameChain[x]
      /\ frameChain'[t] = h
      /\ wire' \in [Streams -> Seq(StreamFrames)]
         /\ frameChain' \in [Streams -> Seq(StreamFrames)]
  <2>1. wire' = [wire EXCEPT ![t] = v] /\ frameChain' = [frameChain EXCEPT ![t] = h]
    BY <1>5, <1>d, <1>7, <1>h
  <2>. QED
    BY <1>3, <1>6, <1>c, <2>1
<1>9. /\ done' \in [Streams -> {"open", "draining", "resolved", "rejected"}]
      /\ \A x \in Streams : x # t => done'[x] = done[x]
      /\ s[k].kind = "complete" => done'[t] = "draining"
      /\ s[k].kind = "fail" => done'[t] = "rejected"
      /\ s[k].kind \notin {"complete", "fail"} => done' = done
  BY <1>1, <1>3, <1>5 DEF Conclusion, Completed
<1>10. s[k].kind \in {"complete", "fail"} => k = Len(s) /\ serving[t] = "over" /\ v = <<>>
  BY <1>6, <1>a, <1>e
<1>11. /\ \A i \in 1..Len(q) : i \in 1..Len(s) /\ q[i] = s[i]
          /\ s[i].kind \notin {"complete", "fail"}
       /\ \A i \in 1..Len(v) : k + i \in 1..Len(s) /\ v[i] = s[k + i]
          /\ (k + i = Len(s) => i = Len(v))
  <2>1. CASE s[k].kind \in {"complete", "fail"}
    <3>1. k = Len(s) /\ q = o /\ Len(q) = k - 1
      BY <1>6, <1>7, <1>10, <2>1
    <3>2. \A i \in 1..(k - 1) : i \in 1..Len(s) /\ i # Len(s)
      BY <1>5, <1>a, <3>1
    <3>3. \A i \in 1..(k - 1) : s[i].kind \notin {"complete", "fail"}
      BY <1>a, <3>2
    <3>4. \A i \in 1..Len(q) : i \in 1..(k - 1)
      BY <3>1
    <3>5. \A i \in 1..Len(q) : i \in 1..Len(s) /\ q[i] = s[i]
            /\ s[i].kind \notin {"complete", "fail"}
      BY <1>6, <3>1, <3>2, <3>3, <3>4
    <3>. QED
      BY <1>10, <2>1, <3>5
  <2>2. CASE s[k].kind \notin {"complete", "fail"}
    <3>1. q = u /\ Len(q) = k
      BY <1>6, <1>7, <2>2
    <3>2. \A i \in 1..k : i \in 1..Len(s) /\ (i = Len(s) => i = k)
      BY <1>5, <1>a
    <3>3. \A i \in 1..k : s[i].kind \notin {"complete", "fail"}
      BY <1>a, <2>2, <3>2
    <3>4. \A i \in 1..Len(q) : i \in 1..k
      BY <3>1
    <3>5. \A i \in 1..Len(q) : i \in 1..Len(s) /\ q[i] = s[i]
            /\ s[i].kind \notin {"complete", "fail"}
      BY <1>6, <3>1, <3>2, <3>3, <3>4
    <3>6. \A i \in 1..Len(v) : i \in 1..(Len(s) - k) /\ k + i \in 1..Len(s)
            /\ (k + i = Len(s) => i = Len(v))
      <4>1. PICK n, r \in Nat : n = Len(s) /\ r = Len(v) /\ r = n - k /\ k <= n
        BY <1>6, <1>e
      <4>2. \A i \in 1..r : i \in 1..(n - k) /\ k + i \in 1..n /\ (k + i = n => i = r)
        BY <1>e, <4>1
      <4>. QED
        BY <4>1, <4>2
    <3>. QED
      BY <1>6, <3>5, <3>6
  <2>. QED
    BY <2>1, <2>2
<1>12. StreamTypes'
  <2>1. FrameTypes'
    BY <1>1, <1>2, <1>8 DEF ScreenIInv, StreamTypes, FrameTypes
  <2>2. ScreenTypes'
    BY <1>1, <1>2, <1>9 DEF ScreenIInv, StreamTypes, ScreenTypes
  <2>. QED
    BY <1>2, <2>1, <2>2 DEF StreamTypes
<1>13. ResponsesInv' /\ QuietPrompt'
  BY <1>1, <1>2 DEF ScreenIInv, ResponsesInv, QuietPrompt
<1>14. LateOnlyIfCut' /\ PlanOfItsTask'
  BY <1>1, <1>4, <1>9
     DEF ScreenIInv, LateOnlyIfCut, PlanOfItsTask, StreamTypes, ScreenTypes
<1>15. StagesInv'
  <2>1. ASSUME NEW x \in Streams, x # t PROVE StageOf(x)'
    <3>1. StageOf(x)
      BY StreamOf
    <3>2. NotSentYet(x) => NotSentYet(x)'
      BY <1>1, <1>2, <1>8, <1>9, <2>1 DEF NotSentYet
    <3>. QED
      BY <1>1, <1>2, <1>8, <1>9, <2>1, <3>1, <3>2 DEF StageOf, Completes, NoNews
  <2>2. StageOf(t)'
    BY <1>1, <1>2, <1>3, <1>4, <1>9, <1>10 DEF StageOf, Completes, NoNews
  <2>. QED
    BY <1>1, <2>1, <2>2 DEF ScreenIInv, StagesInv
<1>16. WireInv'
  <2>1. ASSUME NEW x \in Streams, x # t PROVE WireOf(x)'
    <3>1. WireOf(x)
      BY StreamOf
    <3>. QED
      BY <1>1, <1>2, <1>8, <1>9, <2>1, <3>1 DEF WireOf, ItsPlan
  <2>2. WireOf(t)'
    <3>2. \A i \in 1..Len(v) :
            /\ v[i].kind # "plan" => v[i].of = t
            /\ v[i].kind \in {"complete", "fail"} => i = Len(v) /\ serving[t] = "over"
            /\ ItsPlan(v[i], t)
      <4>1. ASSUME NEW i \in 1..Len(v)
            PROVE  /\ v[i].kind # "plan" => v[i].of = t
                   /\ v[i].kind \in {"complete", "fail"} => i = Len(v) /\ serving[t] = "over"
                   /\ v[i].kind = "plan" => v[i].of = t \/ v[i].of \in cancelledByUser
        <5>1. k + i \in 1..Len(s) /\ v[i] = s[k + i] /\ (k + i = Len(s) => i = Len(v))
          BY <1>11
        <5>2. PICK j \in 1..Len(s) : j = k + i
          BY <5>1
        <5>3. /\ s[j].kind # "plan" => s[j].of = t
              /\ s[j].kind \in {"complete", "fail"} => j = Len(s) /\ serving[t] = "over"
              /\ s[j].kind = "plan" => s[j].of = t \/ s[j].of \in cancelledByUser
          BY <1>a
        <5>. QED
          BY <5>1, <5>2, <5>3
      <4>. QED
        BY <4>1 DEF ItsPlan
    <3>. QED
      BY <1>1, <1>2, <1>8, <1>a, <3>2 DEF WireOf, ItsPlan
  <2>. QED
    BY <2>1, <2>2 DEF WireInv
<1>17. ChainInv'
  <2>1. ASSUME NEW x \in Streams, NEW i \in 1..Len(frameChain'[x])
        PROVE  LET f == frameChain'[x][i] IN
               /\ f.kind \in {"token", "plan", "error"} /\ (f.kind # "plan" => f.of = x)
               /\ (f.kind = "plan" => f.of = x \/ f.of \in cancelledByUser)
    <3>1. \A j \in 1..Len(frameChain[x]) :
            LET f == frameChain[x][j] IN
            /\ f.kind \in {"token", "plan", "error"} /\ (f.kind # "plan" => f.of = x)
            /\ (f.kind = "plan" => f.of = x \/ f.of \in cancelledByUser)
      BY DEF ScreenIInv, ChainInv, ItsPlan
    <3>2. CASE x # t
      BY <1>8, <3>1, <3>2
    <3>3. CASE x = t
      <4>1. \A j \in 1..Len(q) :
              /\ q[j].kind \in {"token", "plan", "error"} /\ (q[j].kind # "plan" => q[j].of = t)
              /\ (q[j].kind = "plan" => q[j].of = t \/ q[j].of \in cancelledByUser)
        BY <1>a, <1>b, <1>11
      <4>2. i \in 1..Len(h) /\ frameChain'[x][i] = h[i]
        BY <1>8, <2>1, <3>3
      <4>3. CASE i <= Len(g)
        <5>1. i \in 1..Len(frameChain[x]) /\ frameChain'[x][i] = frameChain[x][i]
          BY <1>a, <1>c, <3>3, <4>2, <4>3
        <5>. QED
          BY <3>1, <5>1
      <4>4. CASE i > Len(g)
        <5>1. i - Len(g) \in 1..Len(q) /\ i = Len(g) + (i - Len(g))
          BY <1>c, <4>2, <4>4
        <5>2. h[i] = q[i - Len(g)]
          BY <1>c, <5>1
        <5>. QED
          BY <3>3, <4>1, <4>2, <5>1, <5>2
      <4>. QED
        BY <1>c, <4>2, <4>3, <4>4
    <3>. QED
      BY <3>2, <3>3
  <2>. QED
    BY <1>1, <2>1 DEF ScreenIInv, ChainInv, ItsPlan
<1>18. OrderInv'
  <2>1. ASSUME NEW x \in Streams, x # t PROVE OrderOf(x)'
    <3>1. OrderOf(x)
      BY StreamOf
    <3>. QED
      BY <1>1, <1>2, <1>8, <1>9, <2>1, <3>1 DEF OrderOf, Flows, KeptUpTo, Completes
  <2>2. OrderOf(t)'
    <3>1. PICK a \in 0..sentTokens[t], b \in 0..sentTokens[t], c \in 0..sentTokens[t] : Flows(t,
                 a, b, c)
      BY <1>3, <1>4 DEF OrderOf
    <3>. DEFINE n == sentTokens[t]
    <3>2. /\ a <= b /\ b <= c /\ c <= n /\ a \in Nat /\ b \in Nat /\ c \in Nat /\ n \in Nat
          /\ Counts(transcript, t, 0, a) /\ Counts(buffer[t], t, a, b)
             /\ Counts(frameChain[t], t, b, c)
          /\ Counts(s, t, c, n)
      BY <1>1, <1>3, <1>a, <3>1 DEF Flows
    <3>. HIDE DEF n
    <3>3. Counts(u \o v, t, c, n)
      BY <1>f, <3>2
    <3>4. PICK d \in c..n : Counts(u, t, c, d) /\ Counts(v, t, d, n)
      BY <1>6, <3>2, <3>3, CountsSplit
    <3>5. d \in Nat /\ c <= d /\ d <= n
      BY <3>2
    <3>6. Counts(q, t, c, d) /\ (s[k].kind \in {"complete", "fail"} => d = n)
      <4>1. CASE s[k].kind \notin {"complete", "fail"}
        BY <1>7, <3>4, <4>1
      <4>2. CASE s[k].kind \in {"complete", "fail"}
        <5>1. q = o /\ v = <<>>
          BY <1>7, <1>10, <4>2
        <5>2. d = n
          BY <3>2, <3>4, <3>5, <5>1, CountsEmpty
        <5>y. PICK y \in StreamFrames : y = s[k]
          BY <1>6
        <5>3. u = o \o <<s[k]>> /\ <<s[k]>> \in Seq(StreamFrames)
          <6>1. Append(o, y) = o \o <<y>> /\ <<y>> \in Seq(StreamFrames)
            BY <1>6, <5>y, AppendedIsConcat
          <6>. QED
            BY <1>g, <5>y, <6>1
        <5>4. Counts(o \o <<s[k]>>, t, c, d)
          BY <3>4, <5>3
        <5>5. PICK e \in c..d : Counts(o, t, c, e) /\ Counts(<<s[k]>>, t, e, d)
          BY <1>6, <3>2, <3>5, <5>3, <5>4, CountsSplit
        <5>6. e = d
          <6>1. Counts(<<y>>, t, e, d) /\ y.kind # "token"
            BY <4>2, <5>y, <5>5
          <6>2. e \in Nat /\ e <= d
            BY <3>2, <3>5, <5>5
          <6>. QED
            BY <3>5, <5>y, <6>1, <6>2, CountsOne
        <5>. QED
          BY <5>1, <5>2, <5>5, <5>6
      <4>. QED
        BY <4>1, <4>2
    <3>7. Counts(frameChain[t] \o q, t, b, d)
      BY <1>3, <3>2, <3>5, <3>6, CountsConcat
    <3>8. Completes(t)' => d = n
      BY <1>1, <1>4, <1>9, <3>6 DEF Completes
    <3>9. Flows(t, a, b, d)'
      BY <1>1, <1>2, <1>8, <1>a, <1>h, <3>2, <3>4, <3>5, <3>7, <3>8 DEF Flows, n
    <3>10. a \in 0..sentTokens'[t] /\ b \in 0..sentTokens'[t] /\ d \in 0..sentTokens'[t]
      BY <1>2, <3>1, <3>5 DEF n
    <3>. QED
      BY <1>1, <1>4, <3>9, <3>10 DEF OrderOf
  <2>. QED
    BY <2>1, <2>2 DEF OrderInv
<1>19. ErrorsInv'
  <2>1. ASSUME NEW x \in Streams, x # t PROVE ErrorsFor(x)'
    <3>1. ErrorsFor(x)
      BY StreamOf
    <3>. QED
      BY <1>1, <1>2, <1>8, <2>1, <3>1 DEF ErrorsFor, OnceUnderWay
  <2>2. ErrorsFor(t)'
    <3>1. OnceUnderWay(t)
      BY <1>3, <1>4 DEF ErrorsFor
    <3>2. /\ NoError(u \o v, t) <=> NoError(u, t) /\ NoError(v, t)
          /\ OneError(u \o v, t) => OneError(u, t) /\ OneError(v, t)
             /\ (NoError(u, t) \/ NoError(v, t))
      BY <1>6, ErrorsConcat
    <3>3. /\ NoError(o \o <<s[k]>>, t) <=> NoError(o, t) /\ NoError(<<s[k]>>, t)
          /\ OneError(o \o <<s[k]>>, t) => OneError(o, t)
          /\ u = o \o <<s[k]>>
      <4>1. u = o \o <<s[k]>> /\ <<s[k]>> \in Seq(StreamFrames)
        BY <1>6, <1>g, AppendedIsConcat
      <4>. QED
        BY <1>6, <4>1, ErrorsConcat
    <3>4. (NoError(u, t) => NoError(q, t)) /\ (OneError(u, t) => OneError(q, t))
      BY <1>7, <3>3
    <3>5. /\ NoError(s, t) => NoError(q, t) /\ NoError(v, t)
          /\ OneError(s, t) => OneError(q, t) /\ OneError(v, t)
             /\ (NoError(q, t) \/ NoError(v, t))
      BY <1>f, <3>2, <3>4
    <3>6. /\ NoError(frameChain[t] \o q, t) <=> NoError(frameChain[t], t) /\ NoError(q, t)
          /\ OneError(frameChain[t], t) /\ NoError(q, t) => OneError(frameChain[t] \o q, t)
          /\ NoError(frameChain[t], t) /\ OneError(q, t) => OneError(frameChain[t] \o q, t)
      BY <1>3, ErrorsConcat
    <3>7. OnceUnderWay(t)'
      BY <1>1, <1>2, <1>8, <1>a, <1>h, <3>1, <3>5, <3>6 DEF OnceUnderWay
    <3>. QED
      BY <1>1, <1>4, <3>7 DEF ErrorsFor
  <2>. QED
    BY <2>1, <2>2 DEF ErrorsInv
<1>. QED
  BY <1>2, <1>12, <1>13, <1>14, <1>15, <1>16, <1>17, <1>18, <1>19 DEF ScreenIInv

(* A stream of which nothing changes, though others add to the transcript. *)
LEMMA StreamKeeps ==
  ASSUME ScreenIInv, NEW x \in Streams, NEW add, add \in Seq(StreamFrames),
         transcript' = transcript \/ transcript' = transcript \o add,
         \A i \in 1..Len(add) : add[i].kind \in {"token", "error"} => add[i].of # x,
         wire'[x] = wire[x], frameChain'[x] = frameChain[x], buffer'[x] = buffer[x],
         upstream'[x] = upstream[x], handler'[x] = handler[x], done'[x] = done[x],
           screen'[x] = screen[x],
         sentTokens' = sentTokens, serving' = serving, connOf'[x] = connOf[x], conn' = conn,
           link' = link,
         x \in late' <=> x \in late, x \in errorShown' <=> x \in errorShown,
         x \in cancelledByUser' <=> x \in cancelledByUser,
           cancelledByUser \subseteq cancelledByUser'
  PROVE  StageOf(x)' /\ WireOf(x)' /\ OrderOf(x)' /\ ErrorsFor(x)'
<1>1. /\ transcript \in Seq(StreamFrames) /\ StageOf(x) /\ WireOf(x) /\ OrderOf(x) /\ ErrorsFor(x)
      /\ sentTokens[x] \in Nat
  BY StreamOf
<1>. DEFINE both == transcript \o add
<1>2. /\ Len(both) = Len(transcript) + Len(add) /\ Len(transcript) \in Nat /\ Len(add) \in Nat
      /\ \A i \in 1..Len(transcript) : both[i] = transcript[i]
      /\ \A i \in 1..Len(add) : both[Len(transcript) + i] = add[i]
  BY <1>1, ConcatParts
<1>3. \A i \in 1..Len(add) : ~(add[i].kind = "token" /\ add[i].of = x)
        /\ ~(add[i].kind = "error" /\ add[i].of = x)
  OBVIOUS
<1>4. \A a \in Nat : Counts(transcript, x, 0, a) => Counts(both, x, 0, a)
  BY <1>1, <1>3, CountsBeside
<1>5. NoError(both, x) <=> NoError(transcript, x)
  BY <1>1, <1>3, ErrorsConcat, ErrorsOf
<1>6. OneError(transcript, x) => OneError(both, x)
  BY <1>1, <1>3, ErrorsConcat, ErrorsOf
<1>7. \A i \in 1..Len(both) : i \in 1..Len(transcript)
        \/ \E j \in 1..Len(add) : i = Len(transcript) + j
  <2>. SUFFICES ASSUME NEW i \in 1..Len(both), ~(i \in 1..Len(transcript))
                PROVE  \E j \in 1..Len(add) : i = Len(transcript) + j
    OBVIOUS
  <2>1. i - Len(transcript) \in 1..Len(add) /\ i = Len(transcript) + (i - Len(transcript))
    BY <1>2
  <2>. QED
    BY <2>1
<1>8. (\A i \in 1..Len(transcript) : transcript[i].kind \in {"token",
        "error"} => transcript[i].of # x) =>
        \A i \in 1..Len(both) : both[i].kind \in {"token", "error"} => both[i].of # x
  BY <1>2, <1>7
<1>. HIDE DEF both
<1>9. transcript' = transcript \/ transcript' = both
  BY DEF both
<1>10. (\A i \in 1..Len(transcript) : transcript[i].kind \in {"token",
         "error"} => transcript[i].of # x) =>
        \A i \in 1..Len(transcript') : transcript'[i].kind \in {"token", "error"}
          => transcript'[i].of # x
  BY <1>8, <1>9
<1>11. /\ \A a \in Nat : Counts(transcript, x, 0, a) => Counts(transcript', x, 0, a)
       /\ NoError(transcript', x) <=> NoError(transcript, x)
       /\ OneError(transcript, x) => OneError(transcript', x)
  BY <1>4, <1>5, <1>6, <1>9
<1>12. StageOf(x)'
  <2>1. NotSentYet(x) => NotSentYet(x)'
    BY <1>10 DEF NotSentYet
  <2>. QED
    BY <1>1, <2>1 DEF StageOf, Completes, NoNews
<1>13. WireOf(x)'
  BY <1>1 DEF WireOf, ItsPlan
<1>14. OrderOf(x)'
  <2>1. \A a, b, c \in 0..sentTokens[x] : Flows(x, a, b, c) => Flows(x, a, b, c)'
    BY <1>1, <1>11 DEF Flows, Completes
  <2>2. \A a \in 0..sentTokens[x] : KeptUpTo(x, a) => KeptUpTo(x, a)'
    BY <1>1, <1>11 DEF KeptUpTo, Completes
  <2>. QED
    BY <1>1, <2>1, <2>2 DEF OrderOf
<1>15. ErrorsFor(x)'
  BY <1>1, <1>11 DEF ErrorsFor, OnceUnderWay
<1>. QED
  BY <1>12, <1>13, <1>14, <1>15

(* The stream is complete when what it received is handled.                *)
LEMMA DrainedKeeps ==
  ASSUME ScreenIInv, NEW t \in Streams, ChainDrained(t)
  PROVE  ScreenIInv'
<1>1. /\ UNCHANGED <<serverVars, linkVars>> /\ upstream' = upstream /\ responses' = responses
      /\ handler' = handler /\ screen' = screen /\ buffer' = buffer /\ errorShown' = errorShown
      /\ cancelledByUser' = cancelledByUser /\ transcript' = transcript
         /\ streamingText' = streamingText
      /\ spinner' = spinner /\ late' = late /\ wire' = wire /\ frameChain' = frameChain
      /\ done[t] = "draining" /\ frameChain[t] = <<>> /\ handler[t] = "free"
      /\ done' = [done EXCEPT ![t] = "resolved"]
  BY DEF ChainDrained, MayDrain, Conclusion, netVars, shownVars
<1>2. /\ ReviewsInv' /\ ClosedIsReleased' /\ SessionsInv' /\ LinkTypes'
      /\ serving' = serving /\ sentTokens' = sentTokens /\ connOf' = connOf /\ conn' = conn
         /\ link' = link
  BY <1>1, ServerStill
<1>3. /\ done \in [Streams -> {"open", "draining", "resolved", "rejected"}]
      /\ StageOf(t) /\ WireOf(t) /\ OrderOf(t) /\ ErrorsFor(t)
  BY StreamOf DEF ScreenIInv, StreamTypes, ScreenTypes
<1>4. /\ done'[t] = "resolved" /\ \A x \in Streams : x # t => done'[x] = done[x]
      /\ done' \in [Streams -> {"open", "draining", "resolved", "rejected"}]
  BY <1>1, <1>3
<1>5. StreamTypes'
  <2>1. FrameTypes'
    BY <1>1, <1>2 DEF ScreenIInv, StreamTypes, FrameTypes
  <2>2. ScreenTypes'
    BY <1>1, <1>2, <1>4 DEF ScreenIInv, StreamTypes, ScreenTypes
  <2>. QED
    BY <1>2, <2>1, <2>2 DEF StreamTypes
<1>6. ResponsesInv' /\ QuietPrompt' /\ ChainInv' /\ PlanOfItsTask'
  BY <1>1, <1>2
     DEF ScreenIInv, ResponsesInv, QuietPrompt, ChainInv, ItsPlan, PlanOfItsTask
<1>7. LateOnlyIfCut'
  BY <1>1, <1>4 DEF ScreenIInv, LateOnlyIfCut, StreamTypes, ScreenTypes
<1>8. t \notin cancelledByUser
  BY <1>1, <1>3 DEF StageOf
<1>9. StageOf(t)' /\ WireOf(t)' /\ OrderOf(t)' /\ ErrorsFor(t)'
  <2>1. StageOf(t)'
    BY <1>1, <1>2, <1>3, <1>4, <1>8 DEF StageOf, Completes, NoNews, NotSentYet
  <2>2. WireOf(t)'
    BY <1>1, <1>2, <1>3, <1>4 DEF WireOf, ItsPlan
  <2>3. OrderOf(t)'
    BY <1>1, <1>2, <1>3, <1>4, <1>8 DEF OrderOf, Flows, KeptUpTo, Completes
  <2>4. ErrorsFor(t)'
    BY <1>1, <1>2, <1>3 DEF ErrorsFor, OnceUnderWay
  <2>. QED
    BY <2>1, <2>2, <2>3, <2>4
<1>10. ASSUME NEW x \in Streams, x # t PROVE StageOf(x)' /\ WireOf(x)' /\ OrderOf(x)'
                /\ ErrorsFor(x)'
  <2>1. <<>> \in Seq(StreamFrames) /\ \A i \in 1..Len(<<>>) : FALSE
    OBVIOUS
  <2>. QED
    BY <1>1, <1>2, <1>4, <1>10, <2>1, StreamKeeps
<1>11. StagesInv' /\ WireInv' /\ OrderInv' /\ ErrorsInv'
  <2>1. \A x \in Streams : StageOf(x)' /\ WireOf(x)' /\ OrderOf(x)' /\ ErrorsFor(x)'
    BY <1>9, <1>10
  <2>. QED
    BY <1>1, <2>1 DEF ScreenIInv, StagesInv, WireInv, OrderInv, ErrorsInv
<1>. QED
  BY <1>2, <1>5, <1>6, <1>7, <1>11 DEF ScreenIInv

(* What a frame is to the screen: the entries it adds to the transcript,   *)
(* and what is then in the buffer.                                         *)
Handled(t, f, add, left) ==
  \/ /\ f.kind = "token" /\ add = <<>> /\ left = Append(buffer[t], f)
     /\ handler' = handler /\ errorShown' = errorShown
  \/ /\ f.kind = "error" /\ add = <<f>> /\ left = buffer[t]
     /\ handler' = handler /\ errorShown' = errorShown \cup {t}
     /\ spinner' = spinner /\ streamingText' = streamingText
  \/ /\ f.kind = "plan" /\ add = Append(buffer[t], [f EXCEPT !.n = t]) /\ left = <<>>
     /\ handler' = [handler EXCEPT ![t] = "asking"] /\ errorShown' = errorShown
     /\ spinner' = FALSE /\ streamingText' = <<>>

(* The head of a chain adds to the transcript what is of its stream, and   *)
(* leaves only tokens of its stream in the buffer.                         *)
LEMMA FrameIsHandled ==
  ASSUME ScreenIInv, NEW t \in Streams, OnFrame(t)
  PROVE  \E f \in StreamFrames :
         /\ f = Head(frameChain[t]) /\ f.kind \in {"token", "plan", "error"}
            /\ (f.kind # "plan" => f.of = t)
         /\ ItsPlan(f, t)
         /\ \E add \in Seq(StreamFrames), left \in Seq(StreamFrames) :
              /\ Handled(t, f, add, left)
              /\ transcript' = transcript \o add /\ buffer' = [buffer EXCEPT ![t] = left]
              /\ \A i \in 1..Len(add) :
                   /\ add[i].kind \in {"token", "error"} => add[i].of = t
                   /\ add[i].kind = "plan" => add[i].n = t /\ ItsPlan(add[i], t)
              /\ \A i \in 1..Len(left) : left[i].kind = "token" /\ left[i].of = t
<1>1. /\ frameChain[t] \in Seq(StreamFrames) /\ buffer[t] \in Seq(StreamFrames)
      /\ transcript \in Seq(StreamFrames) /\ frameChain[t] # <<>> /\ handler[t] = "free"
      /\ buffer \in [Streams -> Seq(StreamFrames)]
  BY StreamOf DEF OnFrame, MayHandle, ScreenIInv, StreamTypes, FrameTypes
<1>2. PICK f \in StreamFrames : f = Head(frameChain[t]) /\ f = frameChain[t][1]
             /\ 1 \in 1..Len(frameChain[t])
  <2>1. PICK g \in Seq(StreamFrames) : g = frameChain[t] /\ g # <<>>
    BY <1>1
  <2>2. Head(g) \in StreamFrames /\ Head(g) = g[1] /\ 1 \in 1..Len(g)
    BY <2>1, HeadAndTail
  <2>. QED
    BY <2>1, <2>2
<1>3. f.kind \in {"token", "plan", "error"} /\ (f.kind # "plan" => f.of = t) /\ ItsPlan(f, t)
  BY <1>2 DEF ScreenIInv, ChainInv
<1>4. PICK b \in Seq(StreamFrames) :
        b = buffer[t] /\ \A i \in 1..Len(b) : b[i].kind = "token" /\ b[i].of = t
  BY <1>1 DEF ScreenIInv, ChainInv
<1>5. Append(b, f) \in Seq(StreamFrames) /\ Len(Append(b, f)) = Len(b) + 1 /\ Len(b) \in Nat
      /\ Append(b, f)[Len(b) + 1] = f /\ \A i \in 1..Len(b) : Append(b, f)[i] = b[i]
  BY <1>2, <1>4, AppendedIsConcat
<1>6. \A i \in 1..(Len(b) + 1) : i \in 1..Len(b) \/ i = Len(b) + 1
  BY <1>5
<1>7. transcript = transcript \o <<>> /\ <<>> \in Seq(StreamFrames)
  BY <1>1
<1>8. CASE HandleToken(t, f)
  <2>1. \A i \in 1..Len(Append(b, f)) : Append(b, f)[i].kind = "token" /\ Append(b, f)[i].of = t
    BY <1>3, <1>4, <1>5, <1>6, <1>8 DEF HandleToken
  <2>2. /\ Handled(t, f, <<>>, Append(b, f)) /\ transcript' = transcript \o <<>>
        /\ buffer' = [buffer EXCEPT ![t] = Append(b, f)]
    BY <1>4, <1>7, <1>8 DEF HandleToken, Handled
  <2>3. \A i \in 1..Len(<<>>) : FALSE
    OBVIOUS
  <2>. QED
    BY <1>2, <1>3, <1>5, <1>7, <2>1, <2>2, <2>3
<1>9. CASE HandleErrorFrame(t, f)
  <2>1. \A i \in 1..Len(<<f>>) : i = 1 /\ <<f>>[i] = f
    OBVIOUS
  <2>2. <<f>> \in Seq(StreamFrames) /\ f.kind = "error" /\ f.of = t
    BY <1>2, <1>3, <1>9 DEF HandleErrorFrame
  <2>3. transcript' = transcript \o <<f>>
    BY <1>1, <1>2, <1>9, AppendedIsConcat DEF HandleErrorFrame
  <2>4. Handled(t, f, <<f>>, b) /\ buffer' = [buffer EXCEPT ![t] = b]
    BY <1>1, <1>4, <1>9 DEF HandleErrorFrame, Handled
  <2>5. \A i \in 1..Len(<<f>>) :
          /\ <<f>>[i].kind \in {"token", "error"} => <<f>>[i].of = t
          /\ <<f>>[i].kind = "plan" => <<f>>[i].n = t /\ ItsPlan(<<f>>[i], t)
    BY <2>1, <2>2
  <2>. QED
    BY <1>2, <1>3, <1>4, <2>2, <2>3, <2>4, <2>5
<1>10. CASE HandleConfirmPlan(t, f)
  <2>1. PICK p \in StreamFrames : p = [f EXCEPT !.n = t] /\ p.kind = "plan" /\ p.of = f.of
               /\ p.n = t
    <3>1. t \in Nat /\ f.kind = "plan"
      BY <1>10 DEF HandleConfirmPlan, Streams
    <3>2. \A m \in Nat : LET p == [f EXCEPT !.n = m] IN
            p \in StreamFrames /\ p.kind = f.kind /\ p.of = f.of /\ p.n = m
      BY <1>2 DEF StreamFrames
    <3>. QED
      BY <3>1, <3>2
  <2>2. Append(b, p) \in Seq(StreamFrames) /\ Len(Append(b, p)) = Len(b) + 1
        /\ Append(b, p)[Len(b) + 1] = p /\ \A i \in 1..Len(b) : Append(b, p)[i] = b[i]
    BY <1>4, <2>1, AppendedIsConcat
  <2>3. ItsPlan(p, t)
    BY <1>3, <1>10, <2>1 DEF ItsPlan, HandleConfirmPlan
  <2>4. \A i \in 1..Len(Append(b, p)) :
          /\ Append(b, p)[i].kind \in {"token", "error"} => Append(b, p)[i].of = t
          /\ Append(b, p)[i].kind = "plan" => Append(b, p)[i].n = t /\ ItsPlan(Append(b, p)[i], t)
    BY <1>4, <1>6, <2>1, <2>2, <2>3
  <2>5. Handled(t, f, Append(b, p), <<>>) /\ transcript' = transcript \o Append(b, p)
        /\ buffer' = [buffer EXCEPT ![t] = <<>>]
    BY <1>4, <1>10, <2>1 DEF HandleConfirmPlan, Handled
  <2>6. \A i \in 1..Len(<<>>) : FALSE
    OBVIOUS
  <2>. QED
    BY <1>2, <1>3, <1>7, <2>2, <2>4, <2>5, <2>6
<1>. QED
  BY <1>2, <1>8, <1>9, <1>10 DEF OnFrame

(* A frame is handled.                                                     *)
LEMMA FrameKeeps ==
  ASSUME ScreenIInv, NEW t \in Streams, OnFrame(t)
  PROVE  ScreenIInv'
<1>1. /\ UNCHANGED <<serverVars, linkVars>> /\ upstream' = upstream /\ responses' = responses
         /\ wire' = wire
      /\ done' = done /\ screen' = screen /\ cancelledByUser' = cancelledByUser /\ late' = late
      /\ frameChain' = [frameChain EXCEPT ![t] = Tail(frameChain[t])]
      /\ frameChain[t] # <<>> /\ handler[t] = "free"
  BY DEF OnFrame, MayHandle, netVars
<1>2. /\ ReviewsInv' /\ ClosedIsReleased' /\ SessionsInv' /\ LinkTypes'
      /\ serving' = serving /\ sentTokens' = sentTokens /\ connOf' = connOf /\ conn' = conn
         /\ link' = link
  BY <1>1, ServerStill
<1>3. /\ frameChain \in [Streams -> Seq(StreamFrames)]
         /\ buffer \in [Streams -> Seq(StreamFrames)]
      /\ wire[t] \in Seq(StreamFrames)
      /\ transcript \in Seq(StreamFrames) /\ sentTokens[t] \in Nat
         /\ screen[t] \in {"idle", "streaming", "ended"}
      /\ StageOf(t) /\ WireOf(t) /\ OrderOf(t) /\ ErrorsFor(t) /\ errorShown \subseteq Streams
      /\ handler \in [Streams -> {"free", "asking", "answering"}]
  BY StreamOf DEF ScreenIInv, StreamTypes, FrameTypes, ScreenTypes
<1>4. PICK f \in StreamFrames :
        /\ f = Head(frameChain[t]) /\ f.kind \in {"token", "plan", "error"}
           /\ (f.kind # "plan" => f.of = t)
        /\ ItsPlan(f, t)
        /\ \E add \in Seq(StreamFrames), left \in Seq(StreamFrames) :
              /\ Handled(t, f, add, left)
              /\ transcript' = transcript \o add /\ buffer' = [buffer EXCEPT ![t] = left]
              /\ \A i \in 1..Len(add) :
                   /\ add[i].kind \in {"token", "error"} => add[i].of = t
                   /\ add[i].kind = "plan" => add[i].n = t /\ ItsPlan(add[i], t)
              /\ \A i \in 1..Len(left) : left[i].kind = "token" /\ left[i].of = t
  BY FrameIsHandled
<1>5. PICK add \in Seq(StreamFrames), left \in Seq(StreamFrames) :
        /\ Handled(t, f, add, left)
        /\ transcript' = transcript \o add /\ buffer' = [buffer EXCEPT ![t] = left]
        /\ \A i \in 1..Len(add) :
             /\ add[i].kind \in {"token", "error"} => add[i].of = t
             /\ add[i].kind = "plan" => add[i].n = t /\ ItsPlan(add[i], t)
        /\ \A i \in 1..Len(left) : left[i].kind = "token" /\ left[i].of = t
  BY <1>4
<1>6. PICK g \in Seq(StreamFrames), r \in Seq(StreamFrames) :
        /\ g = frameChain[t] /\ r = Tail(g) /\ f = Head(g) /\ g # <<>>
        /\ Len(r) = Len(g) - 1 /\ \A i \in 1..Len(r) : i + 1 \in 1..Len(g) /\ r[i] = g[i + 1]
  <2>1. PICK g \in Seq(StreamFrames) : g = frameChain[t]
    BY <1>3
  <2>. QED
    BY <1>1, <1>4, <2>1, HeadAndTail
<1>7. /\ frameChain'[t] = r /\ \A x \in Streams : x # t => frameChain'[x] = frameChain[x]
      /\ frameChain' \in [Streams -> Seq(StreamFrames)]
      /\ buffer'[t] = left /\ \A x \in Streams : x # t => buffer'[x] = buffer[x]
      /\ buffer' \in [Streams -> Seq(StreamFrames)]
  BY <1>1, <1>3, <1>5, <1>6
<1>8. /\ transcript \o add \in Seq(StreamFrames)
         /\ Len(transcript \o add) = Len(transcript) + Len(add)
      /\ Len(transcript) \in Nat /\ Len(add) \in Nat
      /\ \A i \in 1..Len(transcript) : (transcript \o add)[i] = transcript[i]
      /\ \A i \in 1..Len(add) : (transcript \o add)[Len(transcript) + i] = add[i]
  BY <1>3, <1>5, ConcatParts
<1>9. /\ handler' \in [Streams -> {"free", "asking", "answering"}]
         /\ errorShown' \subseteq Streams
      /\ \A x \in Streams : x # t => handler'[x] = handler[x]
         /\ (x \in errorShown' <=> x \in errorShown)
  BY <1>3, <1>5 DEF Handled
<1>10. screen[t] = "streaming" \/ (screen[t] = "ended" /\ t \in late)
  BY <1>1, <1>3 DEF StageOf, NoNews, NotSentYet
<1>11. StreamTypes'
  <2>1. FrameTypes'
    BY <1>1, <1>2, <1>5, <1>7, <1>8 DEF ScreenIInv, StreamTypes, FrameTypes
  <2>2. ScreenTypes'
    BY <1>1, <1>2, <1>9 DEF ScreenIInv, StreamTypes, ScreenTypes
  <2>. QED
    BY <1>2, <2>1, <2>2 DEF StreamTypes
<1>12. ResponsesInv'
  <2>1. \A q \in responses : q.by \in Streams /\ handler[q.by] = "answering"
    BY DEF ScreenIInv, StreamTypes, ScreenTypes, ResponsesInv
  <2>2. \A q \in responses : q.by # t
    BY <1>1, <2>1
  <2>. QED
    BY <1>1, <1>2, <1>9, <2>1, <2>2 DEF ScreenIInv, ResponsesInv
<1>13. QuietPrompt'
  BY <1>1, <1>10 DEF QuietPrompt
<1>14. LateOnlyIfCut'
  BY <1>1 DEF ScreenIInv, LateOnlyIfCut
<1>15. PlanOfItsTask'
  <2>. SUFFICES ASSUME NEW i \in 1..Len(transcript \o add), (transcript \o add)[i].kind = "plan"
                PROVE  LET e == (transcript \o add)[i] IN e.n = e.of \/ e.of \in cancelledByUser
    BY <1>1, <1>5 DEF PlanOfItsTask
  <2>1. CASE i <= Len(transcript)
    <3>1. i \in 1..Len(transcript) /\ (transcript \o add)[i] = transcript[i]
      BY <1>8, <2>1
    <3>. QED
      BY <3>1 DEF ScreenIInv, PlanOfItsTask
  <2>2. CASE i > Len(transcript)
    <3>1. i - Len(transcript) \in 1..Len(add) /\ i = Len(transcript) + (i - Len(transcript))
      BY <1>8, <2>2
    <3>2. (transcript \o add)[i] = add[i - Len(transcript)]
      BY <1>8, <3>1
    <3>. QED
      BY <1>5, <3>1, <3>2 DEF ItsPlan
  <2>. QED
    BY <1>8, <2>1, <2>2
<1>16. ChainInv'
  <2>1. ASSUME NEW x \in Streams, NEW i \in 1..Len(frameChain'[x])
        PROVE  LET e == frameChain'[x][i] IN
               /\ e.kind \in {"token", "plan", "error"} /\ (e.kind # "plan" => e.of = x)
               /\ (e.kind = "plan" => e.of = x \/ e.of \in cancelledByUser)
    <3>1. \A j \in 1..Len(frameChain[x]) :
            LET e == frameChain[x][j] IN
            /\ e.kind \in {"token", "plan", "error"} /\ (e.kind # "plan" => e.of = x)
            /\ (e.kind = "plan" => e.of = x \/ e.of \in cancelledByUser)
      BY DEF ScreenIInv, ChainInv, ItsPlan
    <3>2. CASE x # t
      BY <1>7, <2>1, <3>1, <3>2
    <3>3. CASE x = t
      <4>1. i \in 1..Len(r) /\ frameChain'[x][i] = r[i]
        BY <1>7, <2>1, <3>3
      <4>2. i + 1 \in 1..Len(frameChain[x]) /\ frameChain'[x][i] = frameChain[x][i + 1]
        BY <1>6, <3>3, <4>1
      <4>. QED
        BY <3>1, <4>2
    <3>. QED
      BY <3>2, <3>3
  <2>2. \A x \in Streams : \A j \in 1..Len(buffer'[x]) : buffer'[x][j].kind = "token"
          /\ buffer'[x][j].of = x
    BY <1>5, <1>7 DEF ScreenIInv, ChainInv
  <2>. QED
    BY <1>1, <2>1, <2>2 DEF ChainInv, ItsPlan
<1>17. StageOf(t)'
  <2>1. ~NoNews(t)
    BY <1>1 DEF NoNews
  <2>. QED
    BY <1>1, <1>2, <1>3, <1>10, <2>1 DEF StageOf, Completes
<1>18. WireOf(t)'
  BY <1>1, <1>2, <1>3 DEF WireOf, ItsPlan
<1>19. OrderOf(t)'
  <2>1. CASE screen[t] = "ended" /\ t \in late
    BY <1>1, <2>1 DEF OrderOf
  <2>2. CASE screen[t] = "streaming"
    <3>1. PICK a \in 0..sentTokens[t], b \in 0..sentTokens[t], c \in 0..sentTokens[t] : Flows(t,
                 a, b, c)
      BY <1>3, <2>2 DEF OrderOf
    <3>. DEFINE n == sentTokens[t]
    <3>2. /\ a <= b /\ b <= c /\ c <= n /\ a \in Nat /\ b \in Nat /\ c \in Nat /\ n \in Nat
          /\ Counts(transcript, t, 0, a) /\ Counts(buffer[t], t, a, b) /\ Counts(g, t, b, c)
          /\ done[t] = "open" => Counts(wire[t], t, c, n)
          /\ Completes(t) => c = n
      BY <1>3, <1>6, <3>1 DEF Flows
    <3>3. \/ f.kind = "token" /\ f.of = t /\ f.n = b + 1 /\ b + 1 <= c /\ Counts(r, t, b + 1, c)
          \/ (f.kind # "token" \/ f.of # t) /\ Counts(r, t, b, c)
      BY <1>6, <3>2, CountsHead
    <3>4. /\ Completes(t)' => c = n
          /\ done'[t] = "open" => Counts(wire'[t], t, c, n)
          /\ c \in 0..sentTokens'[t] /\ n = sentTokens'[t]
      BY <1>1, <1>2, <3>1, <3>2 DEF Completes
    <3>. HIDE DEF n
    <3>5. CASE f.kind = "token"
      <4>1. f.of = t /\ f.n = b + 1 /\ b + 1 <= c /\ Counts(r, t, b + 1, c) /\ a <= b + 1
              /\ b + 1 \in Nat
        BY <1>4, <3>2, <3>3, <3>5
      <4>2. add = <<>> /\ left = Append(buffer[t], f) /\ transcript' = transcript
        BY <1>3, <1>5, <3>5 DEF Handled
      <4>3. Counts(left, t, a, b + 1)
        BY <1>3, <1>4, <3>2, <3>5, <4>1, <4>2, CountsAppend
      <4>4. Flows(t, a, b + 1, c)'
        BY <1>7, <3>2, <3>4, <4>1, <4>2, <4>3 DEF Flows
      <4>5. a \in 0..sentTokens'[t] /\ b + 1 \in 0..sentTokens'[t]
        BY <3>2, <3>4, <4>1
      <4>. QED
        BY <1>1, <2>2, <3>4, <4>4, <4>5 DEF OrderOf
    <3>6. CASE f.kind = "error"
      <4>1. Counts(r, t, b, c)
        BY <3>3, <3>6
      <4>2. add = <<f>> /\ left = buffer[t]
        BY <1>5, <3>6 DEF Handled
      <4>3. \A i \in 1..Len(<<f>>) : ~(<<f>>[i].kind = "token" /\ <<f>>[i].of = t)
        BY <3>6
      <4>4. Counts(transcript \o add, t, 0, a)
        <5>1. <<f>> \in Seq(StreamFrames) /\ 0 \in Nat /\ 0 <= a
                /\ transcript \in Seq(StreamFrames)
          BY <1>3, <1>5, <3>2, <4>2
        <5>2. Counts(transcript \o <<f>>, t, 0, a)
          BY <3>2, <4>3, <5>1, CountsBeside
        <5>. QED
          BY <4>2, <5>2
      <4>5. Flows(t, a, b, c)'
        BY <1>5, <1>7, <3>2, <3>4, <4>1, <4>2, <4>4 DEF Flows
      <4>6. a \in 0..sentTokens'[t] /\ b \in 0..sentTokens'[t]
        BY <3>2, <3>4
      <4>. QED
        BY <1>1, <2>2, <3>4, <4>5, <4>6 DEF OrderOf
    <3>7. CASE f.kind = "plan"
      <4>1. Counts(r, t, b, c)
        BY <3>3, <3>7
      <4>2. PICK p \in StreamFrames : add = Append(buffer[t], p) /\ left = <<>> /\ p.kind = "plan"
        <5>1. t \in Nat
          BY DEF Streams
        <5>2. [f EXCEPT !.n = t] \in StreamFrames /\ [f EXCEPT !.n = t].kind = f.kind
          BY <1>4, <5>1 DEF StreamFrames
        <5>. QED
          BY <1>5, <3>7, <5>2 DEF Handled
      <4>3. Counts(add, t, a, b)
        BY <1>3, <3>2, <4>2, CountsAppend
      <4>4. Counts(transcript \o add, t, 0, b)
        BY <1>3, <1>5, <3>2, <4>3, CountsConcat
      <4>5. Counts(left, t, b, b) /\ b <= b
        BY <3>2, <4>2, CountsEmpty
      <4>6. Flows(t, b, b, c)'
        BY <1>5, <1>7, <3>2, <3>4, <4>1, <4>4, <4>5 DEF Flows
      <4>7. b \in 0..sentTokens'[t]
        BY <3>2, <3>4
      <4>. QED
        BY <1>1, <2>2, <3>4, <4>6, <4>7 DEF OrderOf
    <3>. QED
      BY <1>4, <3>5, <3>6, <3>7
  <2>. QED
    BY <1>10, <2>1, <2>2
<1>20. ErrorsFor(t)'
  <2>1. CASE screen[t] = "ended" /\ t \in late
    BY <1>1, <2>1 DEF ErrorsFor
  <2>2. CASE screen[t] = "streaming"
    <3>1. OnceUnderWay(t)
      BY <1>3, <2>2 DEF ErrorsFor
    <3>2. g = <<f>> \o r /\ <<f>> \in Seq(StreamFrames)
      BY <1>4, <1>6, HeadAndTail
    <3>3. /\ NoError(<<f>> \o r, t) <=> NoError(<<f>>, t) /\ NoError(r, t)
          /\ OneError(<<f>> \o r, t) => OneError(r, t) /\ (NoError(<<f>>, t) \/ NoError(r, t))
      BY <1>6, <3>2, ErrorsConcat
    <3>4. NoError(<<f>>, t) <=> f.kind # "error"
      BY <1>4, ErrorsOf
    <3>5. /\ NoError(g, t) => f.kind # "error" /\ NoError(r, t)
          /\ OneError(g, t) => OneError(r, t) /\ (f.kind = "error" => NoError(r, t))
      BY <3>2, <3>3, <3>4
    <3>6. /\ NoError(transcript \o add, t) <=> NoError(transcript, t) /\ NoError(add, t)
          /\ OneError(transcript, t) /\ NoError(add, t) => OneError(transcript \o add, t)
          /\ NoError(transcript, t) /\ OneError(add, t) => OneError(transcript \o add, t)
      BY <1>3, <1>5, ErrorsConcat
    <3>7. CASE f.kind = "error"
      <4>1. add = <<f>> /\ errorShown' = errorShown \cup {t}
        BY <1>5, <3>7 DEF Handled
      <4>2. OneError(add, t)
        BY <4>1, ErrorsOf
      <4>3. t \notin errorShown /\ NoError(transcript, t) /\ NoError(r, t) /\ NoError(wire[t], t)
            /\ serving[t] \in {"failed", "over"}
        BY <1>6, <3>1, <3>5, <3>7 DEF OnceUnderWay
      <4>4. OneError(r, t) /\ OneError(wire[t], t)
        BY <4>3, ErrorsOf
      <4>. QED
        BY <1>1, <1>2, <1>5, <1>7, <2>2, <3>6, <4>1, <4>2, <4>3, <4>4
           DEF ErrorsFor, OnceUnderWay
    <3>8. CASE f.kind # "error"
      <4>1. errorShown' = errorShown
        BY <1>5, <3>8 DEF Handled
      <4>2. NoError(add, t)
        <5>1. \A i \in 1..Len(add) : ~(add[i].kind = "error" /\ add[i].of = t)
          <6>1. CASE f.kind = "token"
            <7>1. add = <<>>
              BY <1>5, <6>1 DEF Handled
            <7>. QED
              BY <7>1
          <6>2. CASE f.kind = "plan"
            <7>1. PICK p \in StreamFrames : add = Append(buffer[t], p) /\ p.kind = "plan"
              <8>1. t \in Nat
                BY DEF Streams
              <8>2. [f EXCEPT !.n = t] \in StreamFrames /\ [f EXCEPT !.n = t].kind = f.kind
                BY <1>4, <8>1 DEF StreamFrames
              <8>. QED
                BY <1>5, <6>2, <8>2 DEF Handled
            <7>2. /\ Len(add) = Len(buffer[t]) + 1 /\ Len(buffer[t]) \in Nat
                     /\ add[Len(buffer[t]) + 1] = p
                  /\ \A i \in 1..Len(buffer[t]) : add[i] = buffer[t][i]
              BY <1>3, <7>1, AppendedIsConcat
            <7>3. \A i \in 1..Len(buffer[t]) : buffer[t][i].kind = "token"
              BY DEF ScreenIInv, ChainInv
            <7>4. \A i \in 1..Len(add) : i \in 1..Len(buffer[t]) \/ i = Len(buffer[t]) + 1
              BY <7>2
            <7>. QED
              BY <7>1, <7>2, <7>3, <7>4
          <6>. QED
            BY <1>4, <3>8, <6>1, <6>2
        <5>. QED
          BY <5>1, ErrorsOf
      <4>. QED
        BY <1>1, <1>2, <1>5, <1>6, <1>7, <2>2, <3>1, <3>5, <3>6, <4>1, <4>2
           DEF ErrorsFor, OnceUnderWay
    <3>. QED
      BY <3>7, <3>8
  <2>. QED
    BY <1>10, <2>1, <2>2
<1>21. ASSUME NEW x \in Streams, x # t PROVE StageOf(x)' /\ WireOf(x)' /\ OrderOf(x)'
                /\ ErrorsFor(x)'
  <2>1. /\ transcript' = transcript \o add
           /\ \A i \in 1..Len(add) : add[i].kind \in {"token", "error"} => add[i].of # x
        /\ wire'[x] = wire[x] /\ frameChain'[x] = frameChain[x] /\ buffer'[x] = buffer[x]
        /\ upstream'[x] = upstream[x] /\ handler'[x] = handler[x] /\ done'[x] = done[x]
           /\ screen'[x] = screen[x]
        /\ connOf'[x] = connOf[x]
        /\ (x \in late' <=> x \in late) /\ (x \in errorShown' <=> x \in errorShown)
        /\ (x \in cancelledByUser' <=> x \in cancelledByUser)
           /\ cancelledByUser \subseteq cancelledByUser'
    BY <1>1, <1>2, <1>5, <1>7, <1>9, <1>21
  <2>. QED
    BY <1>2, <1>5, <2>1, StreamKeeps
<1>22. StagesInv' /\ WireInv' /\ OrderInv' /\ ErrorsInv'
  <2>1. \A x \in Streams : StageOf(x)' /\ WireOf(x)' /\ OrderOf(x)' /\ ErrorsFor(x)'
    BY <1>17, <1>18, <1>19, <1>20, <1>21
  <2>. QED
    BY <1>1, <2>1 DEF ScreenIInv, StagesInv, WireInv, OrderInv, ErrorsInv
<1>. QED
  BY <1>2, <1>11, <1>12, <1>13, <1>14, <1>15, <1>16, <1>22 DEF ScreenIInv

(* What is left of the answer, or the error that no frame has shown, goes  *)
(* to the transcript, and the task is over on the screen.                  *)
LEMMA ConcludeKeeps ==
  ASSUME ScreenIInv, NEW t \in Streams, Conclude(t)
  PROVE  ScreenIInv'
<1>1. /\ UNCHANGED <<serverVars, linkVars>> /\ upstream' = upstream /\ responses' = responses
         /\ wire' = wire
      /\ handler' = handler /\ done' = done /\ buffer' = buffer /\ errorShown' = errorShown
      /\ cancelledByUser' = cancelledByUser /\ frameChain' = frameChain
      /\ streamingText' = <<>> /\ spinner' = FALSE
      /\ screen' = [screen EXCEPT ![t] = "ended"] /\ transcript' = transcript \o LastEntries(t)
      /\ late' = (IF NoNews(t) THEN late ELSE late \cup {t})
      /\ screen[t] = "streaming" /\ done[t] \in {"resolved", "rejected"}
  BY DEF Conclude, MayConclude, NoNews, netVars
<1>2. /\ ReviewsInv' /\ ClosedIsReleased' /\ SessionsInv' /\ LinkTypes'
      /\ serving' = serving /\ sentTokens' = sentTokens /\ connOf' = connOf /\ conn' = conn
         /\ link' = link
  BY <1>1, ServerStill
<1>3. /\ screen \in [Streams -> {"idle", "streaming", "ended"}] /\ late \subseteq Streams
      /\ frameChain[t] \in Seq(StreamFrames) /\ transcript \in Seq(StreamFrames)
         /\ sentTokens[t] \in Nat
      /\ StageOf(t) /\ WireOf(t) /\ OrderOf(t) /\ ErrorsFor(t)
  BY StreamOf DEF ScreenIInv, StreamTypes, ScreenTypes
<1>4. PICK b \in Seq(StreamFrames) :
        b = buffer[t] /\ \A i \in 1..Len(b) : b[i].kind = "token" /\ b[i].of = t
  BY StreamOf DEF ScreenIInv, ChainInv
<1>5. PICK f \in StreamFrames : f = Frame("error", t) /\ f.kind = "error" /\ f.of = t
  <2>1. Frame("error", t) \in StreamFrames
    BY DEF Frame, StreamFrames
  <2>2. Frame("error", t).kind = "error" /\ Frame("error", t).of = t
    BY DEF Frame
  <2>. QED
    BY <2>1, <2>2
<1>6. PICK add \in Seq(StreamFrames) :
        /\ transcript' = transcript \o add
        /\ \/ add = b
           \/ add = <<f>> /\ done[t] = "rejected" /\ t \notin errorShown
  <2>1. <<f>> \in Seq(StreamFrames)
    OBVIOUS
  <2>. QED
    BY <1>1, <1>4, <1>5, <2>1 DEF LastEntries
<1>7. \A i \in 1..Len(add) : add[i].kind \in {"token", "error"} /\ add[i].of = t
  BY <1>4, <1>5, <1>6
<1>8. /\ transcript \o add \in Seq(StreamFrames)
         /\ Len(transcript \o add) = Len(transcript) + Len(add)
      /\ Len(transcript) \in Nat /\ Len(add) \in Nat
      /\ \A i \in 1..Len(transcript) : (transcript \o add)[i] = transcript[i]
      /\ \A i \in 1..Len(add) : (transcript \o add)[Len(transcript) + i] = add[i]
  BY <1>3, <1>6, ConcatParts
<1>9. /\ screen'[t] = "ended" /\ screen' \in [Streams -> {"idle", "streaming", "ended"}]
      /\ \A x \in Streams : x # t => screen'[x] = screen[x] /\ (x \in late' <=> x \in late)
      /\ late' \subseteq Streams /\ (t \in late' \/ NoNews(t))
  BY <1>1, <1>3
<1>10. StreamTypes'
  <2>1. FrameTypes'
    BY <1>1, <1>2, <1>6, <1>8 DEF ScreenIInv, StreamTypes, FrameTypes
  <2>2. ScreenTypes'
    BY <1>1, <1>2, <1>9 DEF ScreenIInv, StreamTypes, ScreenTypes
  <2>. QED
    BY <1>2, <2>1, <2>2 DEF StreamTypes
<1>11. ResponsesInv' /\ QuietPrompt' /\ ChainInv'
  BY <1>1, <1>2 DEF ScreenIInv, ResponsesInv, QuietPrompt, ChainInv, ItsPlan
<1>12. LateOnlyIfCut'
  <2>1. t \in late' => t \in late \/ t \in cancelledByUser \/ done[t] = "rejected"
    BY <1>1, <1>3 DEF StageOf
  <2>. QED
    BY <1>1, <2>1 DEF ScreenIInv, LateOnlyIfCut
<1>13. PlanOfItsTask'
  <2>. SUFFICES ASSUME NEW i \in 1..Len(transcript \o add), (transcript \o add)[i].kind = "plan"
                PROVE  LET e == (transcript \o add)[i] IN e.n = e.of \/ e.of \in cancelledByUser
    BY <1>1, <1>6 DEF PlanOfItsTask
  <2>1. CASE i <= Len(transcript)
    <3>1. i \in 1..Len(transcript) /\ (transcript \o add)[i] = transcript[i]
      BY <1>8, <2>1
    <3>. QED
      BY <3>1 DEF ScreenIInv, PlanOfItsTask
  <2>2. CASE i > Len(transcript)
    <3>1. i - Len(transcript) \in 1..Len(add) /\ i = Len(transcript) + (i - Len(transcript))
      BY <1>8, <2>2
    <3>2. (transcript \o add)[i] = add[i - Len(transcript)]
      BY <1>8, <3>1
    <3>. QED
      BY <1>7, <3>1, <3>2
  <2>. QED
    BY <1>8, <2>1, <2>2
<1>14. StageOf(t)'
  BY <1>1, <1>2, <1>3, <1>9 DEF StageOf, Completes, NoNews, NotSentYet
<1>15. WireOf(t)'
  BY <1>1, <1>2, <1>3 DEF WireOf, ItsPlan
<1>16. OrderOf(t)'
  <2>. SUFFICES ASSUME t \notin late' PROVE \E a \in 0..sentTokens'[t] : KeptUpTo(t, a)'
    BY <1>9 DEF OrderOf
  <2>1. frameChain[t] = <<>>
    BY <1>9 DEF NoNews
  <2>2. PICK a \in 0..sentTokens[t], n \in 0..sentTokens[t], c \in 0..sentTokens[t] : Flows(t, a,
               n, c)
    BY <1>1, <1>3 DEF OrderOf
  <2>3. /\ a <= n /\ n <= c /\ a \in Nat /\ n \in Nat /\ c \in Nat
        /\ Counts(transcript, t, 0, a) /\ Counts(b, t, a, n) /\ Counts(<<>>, t, n, c)
        /\ Completes(t) => c = sentTokens[t]
    BY <1>3, <1>4, <2>1, <2>2 DEF Flows
  <2>4. c = n
    BY <2>3, CountsEmpty
  <2>5. Completes(t)' <=> Completes(t)
    BY <1>1 DEF Completes
  <2>6. CASE add = b
    <3>1. Counts(transcript \o b, t, 0, n)
      <4>1. 0 \in Nat /\ 0 <= a
        BY <2>3
      <4>. QED
        BY <1>3, <2>3, <4>1, CountsConcat
    <3>2. KeptUpTo(t, n)'
      BY <1>2, <1>6, <2>3, <2>4, <2>5, <2>6, <3>1 DEF KeptUpTo
    <3>. QED
      BY <1>2, <2>2, <3>2
  <2>7. CASE add = <<f>> /\ done[t] = "rejected"
    <3>1. \A i \in 1..Len(<<f>>) : ~(<<f>>[i].kind = "token" /\ <<f>>[i].of = t)
      BY <1>5
    <3>2. Counts(transcript \o <<f>>, t, 0, a)
      <4>1. <<f>> \in Seq(StreamFrames) /\ 0 \in Nat /\ 0 <= a
        BY <2>3
      <4>. QED
        BY <1>3, <2>3, <3>1, <4>1, CountsBeside
    <3>3. KeptUpTo(t, a)'
      BY <1>6, <2>5, <2>7, <3>2 DEF KeptUpTo, Completes
    <3>. QED
      BY <1>2, <2>2, <3>3
  <2>. QED
    BY <1>6, <2>6, <2>7
<1>17. ErrorsFor(t)'
  <2>1. OnceUnderWay(t)
    BY <1>1, <1>3 DEF ErrorsFor
  <2>2. OneError(transcript, t) /\ (t \notin errorShown => NoError(transcript, t))
    BY <2>1, ErrorsOf DEF OnceUnderWay
  <2>3. OneError(transcript \o add, t)
    <3>1. CASE add = b
      <4>1. \A i \in 1..Len(b) : ~(b[i].kind = "error" /\ b[i].of = t)
        BY <1>4
      <4>2. NoError(b, t)
        BY <4>1, ErrorsOf
      <4>3. OneError(transcript \o b, t)
        BY <1>3, <2>2, <4>2, ErrorsConcat
      <4>. QED
        BY <3>1, <4>3
    <3>2. CASE add = <<f>> /\ t \notin errorShown
      <4>1. OneError(<<f>>, t)
        BY ErrorsOf
      <4>2. <<f>> \in Seq(StreamFrames)
        OBVIOUS
      <4>3. OneError(transcript \o <<f>>, t)
        BY <1>3, <2>2, <3>2, <4>1, <4>2, ErrorsConcat
      <4>. QED
        BY <3>2, <4>3
    <3>. QED
      BY <1>6, <3>1, <3>2
  <2>. QED
    BY <1>6, <1>9, <2>3 DEF ErrorsFor
<1>18. ASSUME NEW x \in Streams, x # t PROVE StageOf(x)' /\ WireOf(x)' /\ OrderOf(x)'
                /\ ErrorsFor(x)'
  <2>1. /\ transcript' = transcript \o add
           /\ \A i \in 1..Len(add) : add[i].kind \in {"token", "error"} => add[i].of # x
        /\ wire'[x] = wire[x] /\ frameChain'[x] = frameChain[x] /\ buffer'[x] = buffer[x]
        /\ upstream'[x] = upstream[x] /\ handler'[x] = handler[x] /\ done'[x] = done[x]
           /\ screen'[x] = screen[x]
        /\ connOf'[x] = connOf[x]
        /\ (x \in late' <=> x \in late) /\ (x \in errorShown' <=> x \in errorShown)
        /\ (x \in cancelledByUser' <=> x \in cancelledByUser)
           /\ cancelledByUser \subseteq cancelledByUser'
    BY <1>1, <1>2, <1>6, <1>7, <1>9, <1>18
  <2>. QED
    BY <1>2, <1>6, <2>1, StreamKeeps
<1>19. StagesInv' /\ WireInv' /\ OrderInv' /\ ErrorsInv'
  <2>1. \A x \in Streams : StageOf(x)' /\ WireOf(x)' /\ OrderOf(x)' /\ ErrorsFor(x)'
    BY <1>14, <1>15, <1>16, <1>17, <1>18
  <2>2. \A x, u \in Streams : u < x /\ screen'[x] # "idle" => screen'[u] = "ended"
    BY <1>1, <1>3, <1>9 DEF ScreenIInv, StagesInv
  <2>. QED
    BY <2>1, <2>2 DEF StagesInv, WireInv, OrderInv, ErrorsInv
<1>. QED
  BY <1>2, <1>10, <1>11, <1>12, <1>13, <1>19 DEF ScreenIInv

(* The user sends a task: nothing of it has been seen.                     *)
LEMMA RunKeeps ==
  ASSUME ScreenIInv, StreamsAssumption, NEW t \in Streams, RunTaskStream(t)
  PROVE  ScreenIInv'
<1>1. /\ UNCHANGED serverVars /\ link' = link /\ conn' = conn /\ responses' = responses
         /\ wire' = wire
      /\ handler' = handler /\ done' = done /\ buffer' = buffer /\ errorShown' = errorShown
      /\ cancelledByUser' = cancelledByUser /\ frameChain' = frameChain
         /\ transcript' = transcript
      /\ streamingText' = streamingText /\ late' = late /\ link = "up"
      /\ screen' = [screen EXCEPT ![t] = "streaming"] /\ connOf' = [connOf EXCEPT ![t] = conn]
      /\ upstream' = [upstream EXCEPT ![t] = <<"request">>]
      /\ screen[t] = "idle" /\ \A u \in Streams : u < t => screen[u] = "ended"
  BY DEF RunTaskStream, SendTask
<1>2. /\ serving' = serving /\ sentTokens' = sentTokens /\ activeSessions' = activeSessions
      /\ controllers' = controllers /\ abortedTasks' = abortedTasks
         /\ brokerByRequester' = brokerByRequester
  BY <1>1 DEF serverVars
<1>3. /\ screen \in [Streams -> {"idle", "streaming", "ended"}] /\ connOf \in [Streams -> 0..conn]
      /\ upstream \in [Streams -> Seq({"request", "cancel"})]
      /\ transcript \in Seq(StreamFrames) /\ sentTokens[t] \in Nat /\ conn \in Nat \ {0}
      /\ StageOf(t) /\ NotSentYet(t)
  BY <1>1, StreamOf
     DEF ScreenIInv, StreamTypes, ScreenTypes, LinkTypes, StageOf, Conns,
         StreamsAssumption
<1>4. PICK one : one = <<"request">> /\ one \in Seq({"request", "cancel"})
                 /\ \A i \in 1..Len(one) : i = 1
  <2>1. <<"request">> \in Seq({"request", "cancel"})
    OBVIOUS
  <2>2. \A i \in 1..Len(<<"request">>) : i = 1
    OBVIOUS
  <2>. QED
    BY <2>1, <2>2
<1>5. /\ screen'[t] = "streaming" /\ connOf'[t] = conn /\ upstream'[t] = one
      /\ \A x \in Streams : x # t => screen'[x] = screen[x] /\ connOf'[x] = connOf[x]
         /\ upstream'[x] = upstream[x]
      /\ screen' \in [Streams -> {"idle", "streaming", "ended"}]
         /\ connOf' \in [Streams -> 0..conn]
      /\ upstream' \in [Streams -> Seq({"request", "cancel"})]
  BY <1>1, <1>3, <1>4
<1>6. serving[t] = "none"
  BY <1>3 DEF NotSentYet
<1>7. StreamTypes'
  <2>1. LinkTypes'
    BY <1>1, <1>2, <1>5 DEF ScreenIInv, StreamTypes, LinkTypes
  <2>2. FrameTypes'
    BY <1>1, <1>2 DEF ScreenIInv, StreamTypes, FrameTypes
  <2>3. ScreenTypes'
    BY <1>1, <1>2, <1>5 DEF ScreenIInv, StreamTypes, ScreenTypes
  <2>. QED
    BY <2>1, <2>2, <2>3 DEF StreamTypes
<1>8. SessionsInv'
  <2>1. \A x \in Streams : \A i \in 1..Len(upstream'[x]) :
          upstream'[x][i] = "request" => i = 1 /\ serving[x] = "none" /\ connOf'[x] = conn
            /\ link = "up"
    <3>1. ASSUME NEW x \in Streams, x # t
          PROVE \A i \in 1..Len(upstream'[x]) :
            upstream'[x][i] = "request" => i = 1 /\ serving[x] = "none" /\ connOf'[x] = conn
              /\ link = "up"
      BY <1>5, <3>1 DEF ScreenIInv, SessionsInv
    <3>2. \A i \in 1..Len(upstream'[t]) : i = 1 /\ serving[t] = "none" /\ connOf'[t] = conn
            /\ link = "up"
      BY <1>1, <1>4, <1>5, <1>6
    <3>. QED
      BY <3>1, <3>2
  <2>2. \A x \in Streams : serving[x] # "none" => connOf'[x] # 0
    BY <1>3, <1>5 DEF ScreenIInv, SessionsInv
  <2>. QED
    BY <1>1, <1>2, <2>1, <2>2 DEF ScreenIInv, SessionsInv
<1>9. ReviewsInv'
  <2>1. ASSUME NEW c \in Conns PROVE ServedOn(c)' = ServedOn(c)
                 /\ UnderReview(c)' = UnderReview(c)
    BY <1>2, <1>5, <1>6 DEF ServedOn, UnderReview
  <2>2. \A c \in Conns : WellBound(brokerByRequester'[c], ServedOn(c)', UnderReview(c)')
    BY <1>2, <2>1 DEF ScreenIInv, ReviewsInv
  <2>3. \A x \in Streams :
          serving'[x] # "none" /\ connOf'[x] = conn' /\ link' = "up"
            => brokerByRequester'[conn'].exists
    BY <1>1, <1>2, <1>5, <1>6 DEF ScreenIInv, ReviewsInv
  <2>. QED
    BY <2>2, <2>3 DEF ReviewsInv
<1>10. ClosedIsReleased'
  BY <1>2, <1>5, <1>6 DEF ScreenIInv, ClosedIsReleased, Working
<1>11. ResponsesInv'
  <2>1. \A q \in responses : q.by \in Streams /\ handler[q.by] = "answering"
    BY DEF ScreenIInv, StreamTypes, ScreenTypes, ResponsesInv
  <2>2. \A q \in responses : q.by # t
    BY <1>3, <2>1 DEF NotSentYet
  <2>. QED
    BY <1>1, <1>5, <2>1, <2>2 DEF ScreenIInv, ResponsesInv
<1>12. QuietPrompt' /\ LateOnlyIfCut' /\ PlanOfItsTask' /\ ChainInv'
  <2>1. QuietPrompt'
    BY <1>5 DEF QuietPrompt
  <2>2. LateOnlyIfCut' /\ PlanOfItsTask'
    BY <1>1 DEF ScreenIInv, LateOnlyIfCut, PlanOfItsTask
  <2>3. ChainInv'
    BY <1>1 DEF ScreenIInv, ChainInv, ItsPlan
  <2>. QED
    BY <2>1, <2>2, <2>3
<1>13. StageOf(t)' /\ WireOf(t)'
  <2>1. \A i \in 1..Len(<<>>) : FALSE
    OBVIOUS
  <2>. QED
    BY <1>1, <1>2, <1>3, <1>5, <2>1 DEF StageOf, WireOf, NotSentYet, Completes, NoNews
<1>14. OrderOf(t)'
  <2>1. PlacesOf(transcript, "token", t) = {}
    BY <1>3 DEF PlacesOf, NotSentYet
  <2>2. 0 \in Nat /\ Counts(transcript, t, 0, 0) /\ Counts(<<>>, t, 0, 0)
    BY <1>3, <2>1, CountsOthers, CountsEmpty
  <2>3. Flows(t, 0, 0, 0)'
    BY <1>1, <1>2, <1>3, <2>2 DEF Flows, NotSentYet
  <2>4. 0 \in 0..sentTokens'[t]
    BY <1>2, <1>3
  <2>. QED
    BY <1>5, <2>3, <2>4 DEF OrderOf
<1>15. ErrorsFor(t)'
  <2>1. NoError(transcript, t)
    BY <1>3 DEF NoError, PlacesOf, NotSentYet
  <2>2. NoError(<<>>, t) /\ OneError(<<>>, t)
    BY ErrorsOf
  <2>. QED
    BY <1>1, <1>2, <1>3, <1>5, <2>1, <2>2 DEF ErrorsFor, OnceUnderWay, NotSentYet
<1>16. ASSUME NEW x \in Streams, x # t PROVE StageOf(x)' /\ WireOf(x)' /\ OrderOf(x)'
                /\ ErrorsFor(x)'
  <2>1. <<>> \in Seq(StreamFrames) /\ \A i \in 1..Len(<<>>) : FALSE
    OBVIOUS
  <2>. QED
    BY <1>1, <1>2, <1>5, <1>16, <2>1, StreamKeeps
<1>17. StagesInv' /\ WireInv' /\ OrderInv' /\ ErrorsInv'
  <2>1. \A x \in Streams : StageOf(x)' /\ WireOf(x)' /\ OrderOf(x)' /\ ErrorsFor(x)'
    BY <1>13, <1>14, <1>15, <1>16
  <2>2. \A x, u \in Streams : u < x /\ screen'[x] # "idle" => screen'[u] = "ended"
    BY <1>1, <1>5 DEF ScreenIInv, StagesInv
  <2>. QED
    BY <2>1, <2>2 DEF StagesInv, WireInv, OrderInv, ErrorsInv
<1>. QED
  BY <1>7, <1>8, <1>9, <1>10, <1>11, <1>12, <1>17 DEF ScreenIInv

(* The user cancels the task: no frame is received any more.               *)
LEMMA EscapeKeeps ==
  ASSUME ScreenIInv, NEW t \in Streams, Escape(t)
  PROVE  ScreenIInv'
<1>1. /\ UNCHANGED <<serverVars, linkVars>> /\ responses' = responses /\ late' = late
      /\ handler' = handler /\ screen' = screen /\ buffer' = buffer /\ errorShown' = errorShown
      /\ frameChain' = frameChain /\ transcript' = transcript /\ streamingText' = streamingText
      /\ spinner' = spinner /\ cancelledByUser' = cancelledByUser \cup {t}
      /\ done' = Conclusion(t, "resolved") /\ wire' = [wire EXCEPT ![t] = <<>>]
      /\ upstream' = [upstream EXCEPT ![t] = Append(upstream[t], "cancel")]
      /\ screen[t] = "streaming"
  BY DEF Escape, shownVars
<1>2. /\ ReviewsInv' /\ ClosedIsReleased'
      /\ serving' = serving /\ sentTokens' = sentTokens /\ connOf' = connOf /\ conn' = conn
         /\ link' = link
      /\ activeSessions' = activeSessions /\ controllers' = controllers
         /\ abortedTasks' = abortedTasks
      /\ brokerByRequester' = brokerByRequester
  BY <1>1, ServerStill DEF serverVars
<1>3. /\ wire \in [Streams -> Seq(StreamFrames)] /\ <<>> \in Seq(StreamFrames)
      /\ upstream \in [Streams -> Seq({"request", "cancel"})]
      /\ done \in [Streams -> {"open", "draining", "resolved", "rejected"}]
      /\ StageOf(t) /\ WireOf(t) /\ OrderOf(t) /\ ErrorsFor(t)
  BY StreamOf DEF ScreenIInv, StreamTypes, FrameTypes, ScreenTypes, LinkTypes
<1>4. PICK o \in Seq({"request", "cancel"}), u \in Seq({"request", "cancel"}) :
        /\ o = upstream[t] /\ u = Append(o, "cancel") /\ Len(u) = Len(o) + 1 /\ Len(o) \in Nat
        /\ u[Len(o) + 1] = "cancel" /\ \A i \in 1..Len(o) : u[i] = o[i]
  <2>1. \A o \in Seq({"request", "cancel"}) :
          /\ Append(o, "cancel") \in Seq({"request", "cancel"})
          /\ Len(Append(o, "cancel")) = Len(o) + 1 /\ Len(o) \in Nat
          /\ Append(o, "cancel")[Len(o) + 1] = "cancel"
             /\ \A i \in 1..Len(o) : Append(o, "cancel")[i] = o[i]
    OBVIOUS
  <2>. QED
    BY <1>3, <2>1
<1>5. /\ wire'[t] = <<>> /\ upstream'[t] = u /\ done'[t] \in {"resolved", "rejected"}
      /\ \A x \in Streams : x # t => wire'[x] = wire[x] /\ upstream'[x] = upstream[x]
         /\ done'[x] = done[x]
      /\ wire' \in [Streams -> Seq(StreamFrames)]
         /\ upstream' \in [Streams -> Seq({"request", "cancel"})]
      /\ done' \in [Streams -> {"open", "draining", "resolved", "rejected"}]
  <2>1. /\ done'[t] \in {"resolved", "rejected"} /\ \A x \in Streams : x # t => done'[x] = done[x]
        /\ done' \in [Streams -> {"open", "draining", "resolved", "rejected"}]
    BY <1>1, <1>3 DEF Conclusion
  <2>2. /\ upstream'[t] = u /\ \A x \in Streams : x # t => upstream'[x] = upstream[x]
        /\ upstream' \in [Streams -> Seq({"request", "cancel"})]
    <3>1. upstream' = [upstream EXCEPT ![t] = u]
      BY <1>1, <1>4
    <3>. QED
      BY <1>3, <1>4, <3>1
  <2>3. /\ wire'[t] = <<>> /\ \A x \in Streams : x # t => wire'[x] = wire[x]
        /\ wire' \in [Streams -> Seq(StreamFrames)]
    BY <1>1, <1>3
  <2>. QED
    BY <2>1, <2>2, <2>3
<1>6. StreamTypes'
  <2>1. LinkTypes'
    BY <1>2, <1>5 DEF ScreenIInv, StreamTypes, LinkTypes
  <2>2. FrameTypes'
    BY <1>1, <1>2, <1>5 DEF ScreenIInv, StreamTypes, FrameTypes
  <2>3. ScreenTypes'
    BY <1>1, <1>2, <1>5 DEF ScreenIInv, StreamTypes, ScreenTypes
  <2>. QED
    BY <2>1, <2>2, <2>3 DEF StreamTypes
<1>7. SessionsInv'
  <2>1. \A x \in Streams : \A i \in 1..Len(upstream'[x]) :
          upstream'[x][i] = "request" => i = 1 /\ serving[x] = "none" /\ connOf[x] = conn
            /\ link = "up"
    <3>1. ASSUME NEW x \in Streams, x # t
          PROVE \A i \in 1..Len(upstream'[x]) :
            upstream'[x][i] = "request" => i = 1 /\ serving[x] = "none" /\ connOf[x] = conn
              /\ link = "up"
      BY <1>5, <3>1 DEF ScreenIInv, SessionsInv
    <3>2. \A i \in 1..Len(o) :
            o[i] = "request" => i = 1 /\ serving[t] = "none" /\ connOf[t] = conn /\ link = "up"
      BY <1>4 DEF ScreenIInv, SessionsInv
    <3>3. \A i \in 1..Len(u) : i \in 1..Len(o) \/ u[i] = "cancel"
      BY <1>4
    <3>4. \A i \in 1..Len(u) :
            u[i] = "request" => i = 1 /\ serving[t] = "none" /\ connOf[t] = conn /\ link = "up"
      BY <1>4, <3>2, <3>3
    <3>. QED
      BY <1>5, <3>1, <3>4
  <2>. QED
    BY <1>2, <2>1 DEF ScreenIInv, SessionsInv
<1>8. ResponsesInv' /\ QuietPrompt' /\ PlanOfItsTask' /\ ChainInv'
  BY <1>1, <1>2
     DEF ScreenIInv, ResponsesInv, QuietPrompt, PlanOfItsTask, ChainInv, ItsPlan
<1>9. LateOnlyIfCut'
  BY <1>1, <1>5 DEF ScreenIInv, LateOnlyIfCut, StreamTypes, ScreenTypes
<1>10. StageOf(t)'
  BY <1>1, <1>2, <1>3, <1>5 DEF StageOf, Completes, NoNews, NotSentYet
<1>11. WireOf(t)'
  <2>1. \A i \in 1..Len(<<>>) : FALSE
    OBVIOUS
  <2>. QED
    BY <1>5, <2>1 DEF WireOf
<1>12. OrderOf(t)'
  <2>1. PICK a \in 0..sentTokens[t], b \in 0..sentTokens[t], c \in 0..sentTokens[t] : Flows(t, a,
               b, c)
    BY <1>1, <1>3 DEF OrderOf
  <2>2. ~Completes(t)' /\ done'[t] # "open"
    BY <1>1, <1>5 DEF Completes
  <2>3. Flows(t, a, b, c)'
    BY <1>1, <1>2, <2>1, <2>2 DEF Flows
  <2>. QED
    BY <1>1, <1>2, <2>1, <2>3 DEF OrderOf
<1>13. ErrorsFor(t)'
  <2>1. NoError(<<>>, t) /\ OneError(<<>>, t)
    BY ErrorsOf
  <2>. QED
    BY <1>1, <1>2, <1>3, <1>5, <2>1 DEF ErrorsFor, OnceUnderWay
<1>14. ASSUME NEW x \in Streams, x # t PROVE StageOf(x)' /\ WireOf(x)' /\ OrderOf(x)'
                /\ ErrorsFor(x)'
  <2>1. <<>> \in Seq(StreamFrames) /\ \A i \in 1..Len(<<>>) : FALSE
    OBVIOUS
  <2>. QED
    BY <1>1, <1>2, <1>5, <1>14, <2>1, StreamKeeps
<1>15. StagesInv' /\ WireInv' /\ OrderInv' /\ ErrorsInv'
  <2>1. \A x \in Streams : StageOf(x)' /\ WireOf(x)' /\ OrderOf(x)' /\ ErrorsFor(x)'
    BY <1>10, <1>11, <1>12, <1>13, <1>14
  <2>. QED
    BY <1>1, <2>1 DEF ScreenIInv, StagesInv, WireInv, OrderInv, ErrorsInv
<1>. QED
  BY <1>2, <1>6, <1>7, <1>8, <1>9, <1>15 DEF ScreenIInv

(* A handler that waits for the user goes on to wait for the server; no    *)
(* response of its stream was under way.                                   *)
LEMMA AnswersKeep ==
  ASSUME ScreenIInv, NEW t \in Streams, UserDecides(t)
  PROVE  ScreenIInv'
<1>1. /\ UNCHANGED <<serverVars, linkVars>> /\ upstream' = upstream /\ late' = late
         /\ wire' = wire
      /\ done' = done /\ screen' = screen /\ buffer' = buffer /\ errorShown' = errorShown
      /\ frameChain' = frameChain /\ transcript' = transcript /\ streamingText' = streamingText
      /\ spinner' = spinner /\ cancelledByUser' = cancelledByUser
      /\ handler[t] = "asking" /\ handler' = [handler EXCEPT ![t] = "answering"]
  BY DEF UserDecides, RespondPlan, shownVars
<1>2. /\ ReviewsInv' /\ ClosedIsReleased' /\ SessionsInv' /\ LinkTypes'
      /\ serving' = serving /\ sentTokens' = sentTokens /\ connOf' = connOf /\ conn' = conn
         /\ link' = link
  BY <1>1, ServerStill
<1>3. PICK r : /\ responses' = responses \cup {r} /\ r.by = t /\ r.on \in {0, conn}
  <2>1. responses' = responses \cup {[plan |-> PlanOn(t), by |-> t,
          on |-> IF link = "up" THEN conn ELSE 0]}
    BY DEF UserDecides, RespondPlan
  <2>2. \A p : LET q == [plan |-> p, by |-> t, on |-> IF link = "up" THEN conn ELSE 0] IN
          q.by = t /\ q.on \in {0, conn}
    OBVIOUS
  <2>. QED
    BY <2>1, <2>2
<1>4. /\ handler \in [Streams -> {"free", "asking", "answering"}] /\ connOf[t] \in 0..conn
         /\ conn \in Nat
      /\ StageOf(t) /\ WireOf(t) /\ OrderOf(t) /\ ErrorsFor(t)
      /\ \A q \in responses : q.by \in Streams /\ q.on \in 0..conn
  BY StreamOf DEF ScreenIInv, StreamTypes, ScreenTypes, LinkTypes, Conns
<1>5. /\ handler'[t] = "answering" /\ \A x \in Streams : x # t => handler'[x] = handler[x]
      /\ handler' \in [Streams -> {"free", "asking", "answering"}]
  BY <1>1, <1>4
<1>6. \A q \in responses : q.by # t
  BY <1>1 DEF ScreenIInv, ResponsesInv
<1>7. StreamTypes'
  <2>1. FrameTypes'
    BY <1>1, <1>2 DEF ScreenIInv, StreamTypes, FrameTypes
  <2>2. \A q \in responses' : q.by \in Streams /\ q.on \in 0..conn
    BY <1>3, <1>4
  <2>3. ScreenTypes'
    BY <1>1, <1>2, <1>5, <2>2 DEF ScreenIInv, StreamTypes, ScreenTypes
  <2>. QED
    BY <1>2, <2>1, <2>3 DEF StreamTypes
<1>8. ResponsesInv'
  <2>1. \A q \in responses' : handler'[q.by] = "answering" /\ (q.on # 0 => connOf[q.by] <= q.on)
    BY <1>3, <1>4, <1>5, <1>6 DEF ScreenIInv, ResponsesInv
  <2>2. \A q, s \in responses' : q.by = s.by => q = s
    BY <1>3, <1>6 DEF ScreenIInv, ResponsesInv
  <2>. QED
    BY <1>2, <2>1, <2>2 DEF ResponsesInv
<1>9. QuietPrompt' /\ PlanOfItsTask' /\ ChainInv' /\ LateOnlyIfCut'
  BY <1>1 DEF ScreenIInv, QuietPrompt, PlanOfItsTask, ChainInv, ItsPlan, LateOnlyIfCut
<1>10. StageOf(t)' /\ WireOf(t)' /\ OrderOf(t)' /\ ErrorsFor(t)'
  <2>1. StageOf(t)'
    BY <1>1, <1>2, <1>4, <1>5 DEF StageOf, Completes, NoNews, NotSentYet
  <2>2. WireOf(t)'
    BY <1>1, <1>2, <1>4 DEF WireOf, ItsPlan
  <2>3. OrderOf(t)'
    BY <1>1, <1>2, <1>4 DEF OrderOf, Flows, KeptUpTo, Completes
  <2>4. ErrorsFor(t)'
    BY <1>1, <1>2, <1>4 DEF ErrorsFor, OnceUnderWay
  <2>. QED
    BY <2>1, <2>2, <2>3, <2>4
<1>11. ASSUME NEW x \in Streams, x # t PROVE StageOf(x)' /\ WireOf(x)' /\ OrderOf(x)'
                /\ ErrorsFor(x)'
  <2>1. <<>> \in Seq(StreamFrames) /\ \A i \in 1..Len(<<>>) : FALSE
    OBVIOUS
  <2>. QED
    BY <1>1, <1>2, <1>5, <1>11, <2>1, StreamKeeps
<1>12. StagesInv' /\ WireInv' /\ OrderInv' /\ ErrorsInv'
  <2>1. \A x \in Streams : StageOf(x)' /\ WireOf(x)' /\ OrderOf(x)' /\ ErrorsFor(x)'
    BY <1>10, <1>11
  <2>. QED
    BY <1>1, <2>1 DEF ScreenIInv, StagesInv, WireInv, OrderInv, ErrorsInv
<1>. QED
  BY <1>2, <1>7, <1>8, <1>9, <1>12 DEF ScreenIInv

(* The answer of the user reaches the server, which settles the review on  *)
(* the screen, or fails, and with it the stream that waits for it.         *)
LEMMA RespondsKeep ==
  ASSUME ScreenIInv, StreamsAssumption, NEW r \in responses, PlanResponds(r)
  PROVE  ScreenIInv'
<1>1. /\ responses' = responses \ {r} /\ handler' = [handler EXCEPT ![r.by] = "free"]
      /\ activeSessions' = activeSessions /\ controllers' = controllers
         /\ abortedTasks' = abortedTasks
      /\ sentTokens' = sentTokens /\ UNCHANGED linkVars /\ upstream' = upstream
         /\ frameChain' = frameChain
      /\ connOf' = connOf /\ conn' = conn /\ link' = link
      /\ screen' = screen /\ buffer' = buffer /\ errorShown' = errorShown
         /\ cancelledByUser' = cancelledByUser
      /\ transcript' = transcript /\ streamingText' = streamingText /\ late' = late
  BY DEF PlanResponds, linkVars
<1>2. PICK t \in Streams : t = r.by /\ handler[t] = "answering" /\ (r.on # 0 => connOf[t] <= r.on)
                           /\ r.on \in 0..conn
  BY DEF ScreenIInv, StreamTypes, ScreenTypes, ResponsesInv
<1>3. /\ handler \in [Streams -> {"free", "asking", "answering"}] /\ conn \in Conns
      /\ done \in [Streams -> {"open", "draining", "resolved", "rejected"}]
      /\ connOf \in [Streams -> 0..conn] /\ conn \in Nat
      /\ screen[t] \in {"idle", "streaming", "ended"}
      /\ StageOf(t) /\ WireOf(t) /\ OrderOf(t) /\ ErrorsFor(t)
  BY StreamOf DEF ScreenIInv, StreamTypes, ScreenTypes, LinkTypes, Conns
<1>4. /\ handler'[t] = "free" /\ \A x \in Streams : x # t => handler'[x] = handler[x]
      /\ handler' \in [Streams -> {"free", "asking", "answering"}]
  BY <1>1, <1>2, <1>3
<1>5. screen[t] = "streaming" \/ (screen[t] = "ended" /\ t \in late)
  BY <1>2, <1>3 DEF StageOf, NoNews, NotSentYet
<1>6. ResponsesInv'
  <2>1. \A q \in responses' : q.by \in Streams /\ q.by # t
    BY <1>1, <1>2 DEF ScreenIInv, StreamTypes, ScreenTypes, ResponsesInv
  <2>. QED
    BY <1>1, <1>4, <2>1 DEF ScreenIInv, ResponsesInv
<1>7. QuietPrompt'
  BY <1>1, <1>5 DEF QuietPrompt
<1>8. CASE Settle(conn, r.plan) /\ UNCHANGED done
  <2>1. PICK p : p = r.plan
    OBVIOUS
  <2>2. /\ Settle(conn, p) /\ SessionKept
        /\ UNCHANGED <<linkVars, frameChain, done, screen, buffer, errorShown, cancelledByUser,
                       transcript, late>>
        /\ responses' \subseteq responses
        /\ \A u \in Streams : handler'[u] = handler[u] \/ handler'[u] = "free"
    BY <1>1, <1>4, <1>8, <2>1 DEF SessionKept
  <2>3. ServerMoves /\ StreamTypes' /\ SessionsInv' /\ ReviewsInv' /\ ClosedIsReleased'
          /\ StagesInv'
    BY <1>1, <1>3, <1>4, <2>2, SettleKeeps
  <2>. QED
    BY <1>6, <1>7, <2>3, MovesKeepAll
<1>9. CASE /\ \/ link = "up" /\ r.on \in {0, conn} /\ ~brokerByRequester[conn].exists
              \/ r.on # 0 /\ (r.on # conn \/ link = "down")
           /\ done' = Conclusion(r.by, "rejected")
           /\ UNCHANGED <<spinner, serving, brokerByRequester, wire>>
  <2>1. /\ spinner' = spinner /\ serving' = serving /\ brokerByRequester' = brokerByRequester
           /\ wire' = wire
    BY <1>9
  <2>2. serving[t] # "none"
    BY <1>2, <1>3 DEF StageOf
  <2>3. connOf[t] # conn \/ link # "up"
    <3>1. ASSUME connOf[t] = conn, link = "up" PROVE FALSE
      <4>1. brokerByRequester[conn].exists
        BY <2>2, <3>1 DEF ScreenIInv, ReviewsInv
      <4>2. r.on # 0 /\ r.on # conn
        BY <1>9, <3>1, <4>1
      <4>. QED
        BY <1>2, <1>3, <3>1, <4>2
    <3>. QED
      BY <3>1
  <2>4. /\ done' \in [Streams -> {"open", "draining", "resolved", "rejected"}]
        /\ \A x \in Streams : x # t => done'[x] = done[x]
        /\ done'[t] \in {"resolved", "rejected"}
           /\ (done'[t] = "resolved" => done[t] = "resolved")
        /\ (done[t] = "rejected" => done'[t] = "rejected")
    BY <1>2, <1>3, <1>9 DEF Conclusion
  <2>5. ReviewsInv' /\ SessionsInv' /\ ClosedIsReleased'
    BY <1>1, <2>1
       DEF ScreenIInv, ReviewsInv, SessionsInv, ClosedIsReleased, ServedOn, UnderReview
  <2>6. StreamTypes'
    <3>1. LinkTypes'
      BY <1>1, <2>1 DEF ScreenIInv, StreamTypes, LinkTypes
    <3>2. FrameTypes'
      BY <1>1, <2>1 DEF ScreenIInv, StreamTypes, FrameTypes
    <3>3. ScreenTypes'
      BY <1>1, <1>4, <2>4 DEF ScreenIInv, StreamTypes, ScreenTypes
    <3>. QED
      BY <3>1, <3>2, <3>3 DEF StreamTypes
  <2>7. LateOnlyIfCut'
    BY <1>1, <2>4 DEF ScreenIInv, LateOnlyIfCut, StreamTypes, ScreenTypes
  <2>8. PlanOfItsTask' /\ ChainInv'
    BY <1>1 DEF ScreenIInv, PlanOfItsTask, ChainInv, ItsPlan
  <2>9. StageOf(t)' /\ WireOf(t)' /\ OrderOf(t)' /\ ErrorsFor(t)'
    <3>1. StageOf(t)'
      BY <1>1, <1>2, <1>3, <1>5, <2>1, <2>2, <2>3, <2>4 DEF StageOf, Completes, NoNews
    <3>2. WireOf(t)'
      BY <1>1, <1>3, <2>1, <2>4 DEF WireOf, ItsPlan
    <3>3. Completes(t)' => Completes(t)
      BY <1>1, <2>4 DEF Completes
    <3>4. OrderOf(t)'
      BY <1>1, <1>3, <2>1, <2>4, <3>3 DEF OrderOf, Flows, KeptUpTo
    <3>5. ErrorsFor(t)'
      BY <1>1, <1>3, <2>1 DEF ErrorsFor, OnceUnderWay
    <3>. QED
      BY <3>1, <3>2, <3>4, <3>5
  <2>10. ASSUME NEW x \in Streams, x # t PROVE StageOf(x)' /\ WireOf(x)' /\ OrderOf(x)'
                  /\ ErrorsFor(x)'
    <3>1. <<>> \in Seq(StreamFrames) /\ \A i \in 1..Len(<<>>) : FALSE
      OBVIOUS
    <3>. QED
      BY <1>1, <1>4, <2>1, <2>4, <2>10, <3>1, StreamKeeps
  <2>11. StagesInv' /\ WireInv' /\ OrderInv' /\ ErrorsInv'
    <3>1. \A x \in Streams : StageOf(x)' /\ WireOf(x)' /\ OrderOf(x)' /\ ErrorsFor(x)'
      BY <2>9, <2>10
    <3>. QED
      BY <1>1, <3>1 DEF ScreenIInv, StagesInv, WireInv, OrderInv, ErrorsInv
  <2>. QED
    BY <1>6, <1>7, <2>5, <2>6, <2>7, <2>8, <2>11 DEF ScreenIInv
<1>. QED
  BY <1>8, <1>9 DEF PlanResponds

(* The socket is lost: nothing is under way any more, the stream that was  *)
(* open fails, and what the user was asked is answered.                    *)
LEMMA LossKeeps ==
  ASSUME ScreenIInv, StreamsAssumption, LoseSocket
  PROVE  ScreenIInv'
<1>1. /\ UNCHANGED serverVars /\ conn' = conn /\ connOf' = connOf /\ link = "up" /\ link' = "down"
      /\ conn <= MaxLosses
      /\ screen' = screen /\ buffer' = buffer /\ errorShown' = errorShown
         /\ frameChain' = frameChain
      /\ cancelledByUser' = cancelledByUser /\ transcript' = transcript /\ late' = late
      /\ streamingText' = <<>> /\ spinner' = FALSE
      /\ upstream' = [t \in Streams |-> <<>>] /\ wire' = [t \in Streams |-> <<>>]
      /\ done' = [t \in Streams |-> IF screen[t] = "streaming" /\ done[t] = "open" THEN "rejected"
                                    ELSE done[t]]
      /\ handler' = [t \in Streams |-> IF handler[t] = "asking" THEN "answering" ELSE handler[t]]
      /\ responses' = responses \cup {[plan |-> PlanOn(t), by |-> t, on |-> 0] :
                                        t \in {u \in Streams : handler[u] = "asking"}}
  BY DEF LoseSocket
<1>2. /\ serving' = serving /\ sentTokens' = sentTokens /\ activeSessions' = activeSessions
      /\ controllers' = controllers /\ abortedTasks' = abortedTasks
         /\ brokerByRequester' = brokerByRequester
  BY <1>1 DEF serverVars
<1>3. /\ handler \in [Streams -> {"free", "asking", "answering"}] /\ conn \in Conns
         /\ conn \in Nat
      /\ done \in [Streams -> {"open", "draining", "resolved", "rejected"}]
  BY DEF ScreenIInv, StreamTypes, ScreenTypes, LinkTypes, Conns
<1>4. <<>> \in Seq(StreamFrames) /\ <<>> \in Seq({"request", "cancel"})
        /\ \A i \in 1..Len(<<>>) : FALSE
  OBVIOUS
<1>5. /\ \A x \in Streams : wire'[x] = <<>> /\ upstream'[x] = <<>>
      /\ wire' \in [Streams -> Seq(StreamFrames)]
         /\ upstream' \in [Streams -> Seq({"request", "cancel"})]
  BY <1>1, <1>4
<1>6. /\ \A x \in Streams
         : handler'[x] = (IF handler[x] = "asking" THEN "answering" ELSE handler[x])
      /\ handler' \in [Streams -> {"free", "asking", "answering"}]
  BY <1>1, <1>3
<1>7. /\ \A x \in Streams
         : done'[x] = (IF screen[x] = "streaming"
         /\ done[x] = "open" THEN "rejected" ELSE done[x])
      /\ done' \in [Streams -> {"open", "draining", "resolved", "rejected"}]
  BY <1>1, <1>3
<1>8. \A q \in responses' : q \in responses \/
        (q.by \in Streams /\ handler[q.by] = "asking" /\ q.on = 0
         /\ q = [plan |-> PlanOn(q.by), by |-> q.by, on |-> 0])
  <2>. SUFFICES ASSUME NEW q \in responses', q \notin responses
                PROVE  /\ q.by \in Streams /\ handler[q.by] = "asking" /\ q.on = 0
                       /\ q = [plan |-> PlanOn(q.by), by |-> q.by, on |-> 0]
    OBVIOUS
  <2>1. PICK u \in Streams : handler[u] = "asking" /\ q = [plan |-> PlanOn(u), by |-> u, on |-> 0]
    BY <1>1
  <2>2. q.by = u /\ q.on = 0
    BY <2>1
  <2>. QED
    BY <2>1, <2>2
<1>9. ResponsesInv'
  <2>1. \A q \in responses : q.by \in Streams /\ handler[q.by] = "answering"
          /\ (q.on # 0 => connOf[q.by] <= q.on)
    BY DEF ScreenIInv, StreamTypes, ScreenTypes, ResponsesInv
  <2>2. \A q \in responses' : handler'[q.by] = "answering" /\ (q.on # 0 => connOf[q.by] <= q.on)
    BY <1>6, <1>8, <2>1
  <2>3. ASSUME NEW q \in responses', NEW s \in responses', q.by = s.by PROVE q = s
    <3>1. CASE q \in responses /\ s \in responses
      BY <2>3, <3>1 DEF ScreenIInv, ResponsesInv
    <3>2. CASE q \notin responses \/ s \notin responses
      <4>1. handler[q.by] = "asking"
        BY <1>8, <2>3, <3>2
      <4>2. q \notin responses /\ s \notin responses
        BY <2>1, <2>3, <4>1
      <4>. QED
        BY <1>8, <2>3, <4>2
    <3>. QED
      BY <3>1, <3>2
  <2>. QED
    BY <1>1, <2>2, <2>3 DEF ResponsesInv
<1>10. StreamTypes'
  <2>1. LinkTypes'
    BY <1>1, <1>2, <1>5 DEF ScreenIInv, StreamTypes, LinkTypes
  <2>2. FrameTypes'
    BY <1>1, <1>2, <1>5 DEF ScreenIInv, StreamTypes, FrameTypes
  <2>3. \A q \in responses' : q.by \in Streams /\ q.on \in 0..conn
    BY <1>3, <1>8 DEF ScreenIInv, StreamTypes, ScreenTypes
  <2>4. ScreenTypes'
    BY <1>1, <1>6, <1>7, <2>3 DEF ScreenIInv, StreamTypes, ScreenTypes
  <2>. QED
    BY <2>1, <2>2, <2>4 DEF StreamTypes
<1>11. SessionsInv'
  <2>1. \A x \in Streams : \A i \in 1..Len(upstream'[x]) : FALSE
    BY <1>4, <1>5
  <2>. QED
    BY <1>1, <1>2, <2>1 DEF ScreenIInv, SessionsInv
<1>12. ReviewsInv' /\ ClosedIsReleased'
  BY <1>1, <1>2 DEF ScreenIInv, ReviewsInv, ServedOn, UnderReview, ClosedIsReleased
<1>13. QuietPrompt' /\ PlanOfItsTask'
  BY <1>1 DEF ScreenIInv, QuietPrompt, PlanOfItsTask
<1>14. ChainInv'
  BY <1>1 DEF ScreenIInv, ChainInv, ItsPlan
<1>15. LateOnlyIfCut'
  BY <1>1, <1>7 DEF ScreenIInv, LateOnlyIfCut, StreamTypes, ScreenTypes
<1>16. ASSUME NEW t \in Streams PROVE StageOf(t)' /\ WireOf(t)' /\ OrderOf(t)' /\ ErrorsFor(t)'
  <2>1. StageOf(t) /\ OrderOf(t) /\ ErrorsFor(t)
          /\ done[t] \in {"open", "draining", "resolved", "rejected"}
        /\ handler[t] \in {"free", "asking", "answering"}
           /\ screen[t] \in {"idle", "streaming", "ended"}
    BY StreamOf
  <2>2. /\ wire'[t] = <<>> /\ upstream'[t] = <<>>
        /\ handler'[t] = (IF handler[t] = "asking" THEN "answering" ELSE handler[t])
        /\ done'[t] = (IF screen[t] = "streaming" /\ done[t] = "open" THEN "rejected" ELSE done[t])
    BY <1>5, <1>6, <1>7
  <2>3. NotSentYet(t) /\ screen[t] = "idle" => NotSentYet(t)'
    BY <1>1, <1>2, <2>2 DEF NotSentYet
  <2>4. NoNews(t)' <=> NoNews(t)
    BY <1>1, <2>1, <2>2 DEF NoNews
  <2>5. Completes(t)' <=> Completes(t)
    BY <1>1, <2>2 DEF Completes
  <2>6. StageOf(t)'
    BY <1>1, <1>2, <2>1, <2>2, <2>3, <2>4, <2>5 DEF StageOf
  <2>7. WireOf(t)'
    BY <1>4, <2>2 DEF WireOf
  <2>8. screen[t] = "streaming" => done'[t] # "open"
    BY <2>2
  <2>9. OrderOf(t)'
    <3>1. \A a, b, c \in 0..sentTokens[t] : Flows(t, a, b, c) /\ screen[t] = "streaming"
            => Flows(t, a, b, c)'
      BY <1>1, <1>2, <2>5, <2>8 DEF Flows
    <3>2. \A a \in 0..sentTokens[t] : KeptUpTo(t, a) => KeptUpTo(t, a)'
      BY <1>1, <1>2, <2>5 DEF KeptUpTo
    <3>. QED
      BY <1>1, <1>2, <2>1, <3>1, <3>2 DEF OrderOf
  <2>10. ErrorsFor(t)'
    <3>1. NoError(<<>>, t) /\ OneError(<<>>, t)
      BY ErrorsOf
    <3>. QED
      BY <1>1, <1>2, <2>1, <2>2, <3>1 DEF ErrorsFor, OnceUnderWay
  <2>. QED
    BY <2>6, <2>7, <2>9, <2>10
<1>17. StagesInv' /\ WireInv' /\ OrderInv' /\ ErrorsInv'
  BY <1>1, <1>16 DEF ScreenIInv, StagesInv, WireInv, OrderInv, ErrorsInv
<1>. QED
  BY <1>9, <1>10, <1>11, <1>12, <1>13, <1>14, <1>15, <1>17 DEF ScreenIInv

(* The client connects again: no stream is of the new connection.          *)
LEMMA ReconnectKeeps ==
  ASSUME ScreenIInv, StreamsAssumption, ConnectAgain
  PROVE  ScreenIInv'
<1>1. /\ link = "down" /\ link' = "up" /\ conn' = conn + 1
         /\ activeSessions' = activeSessions \cup {conn + 1}
      /\ brokerByRequester' = brokerByRequester /\ controllers' = controllers
         /\ abortedTasks' = abortedTasks
      /\ serving' = serving /\ sentTokens' = sentTokens /\ connOf' = connOf
      /\ upstream' = upstream /\ wire' = wire /\ responses' = responses
      /\ frameChain' = frameChain /\ handler' = handler /\ done' = done /\ screen' = screen
      /\ buffer' = buffer /\ errorShown' = errorShown /\ cancelledByUser' = cancelledByUser
      /\ transcript' = transcript /\ streamingText' = streamingText /\ spinner' = spinner
         /\ late' = late
  BY DEF ConnectAgain, netVars, clientVars, shownVars
<1>2. /\ conn \in Nat /\ conn + 1 \in Conns /\ connOf \in [Streams -> 0..conn]
      /\ \A t \in Streams : connOf[t] \in 0..conn /\ connOf[t] # conn + 1
  BY <1>1, StreamsAssumption DEF ScreenIInv, StreamTypes, LinkTypes, SessionsInv, Conns
<1>3. /\ connOf' \in [Streams -> 0..conn'] /\ conn' \in Conns /\ \A n \in 0..conn : n \in 0..conn'
  BY <1>1, <1>2
<1>4. StreamTypes'
  <2>1. LinkTypes'
    BY <1>1, <1>2, <1>3 DEF ScreenIInv, StreamTypes, LinkTypes
  <2>2. FrameTypes'
    BY <1>1 DEF ScreenIInv, StreamTypes, FrameTypes
  <2>3. ScreenTypes'
    BY <1>1, <1>3 DEF ScreenIInv, StreamTypes, ScreenTypes
  <2>. QED
    BY <2>1, <2>2, <2>3 DEF StreamTypes
<1>5. SessionsInv'
  BY <1>1 DEF ScreenIInv, SessionsInv
<1>6. ReviewsInv'
  <2>1. \A t \in Streams : connOf'[t] # conn'
    BY <1>1, <1>2
  <2>. QED
    BY <1>1, <2>1 DEF ScreenIInv, ReviewsInv, ServedOn, UnderReview
<1>7. ClosedIsReleased'
  BY <1>1 DEF ScreenIInv, ClosedIsReleased
<1>8. /\ ResponsesInv' /\ QuietPrompt' /\ PlanOfItsTask' /\ LateOnlyIfCut'
  BY <1>1 DEF ScreenIInv, ResponsesInv, QuietPrompt, PlanOfItsTask, LateOnlyIfCut
<1>9. ChainInv'
  BY <1>1 DEF ScreenIInv, ChainInv, ItsPlan
<1>10. ASSUME NEW t \in Streams PROVE StageOf(t)' /\ WireOf(t)' /\ OrderOf(t)' /\ ErrorsFor(t)'
  <2>1. StageOf(t) /\ WireOf(t) /\ OrderOf(t) /\ ErrorsFor(t)
    BY StreamOf
  <2>2. NotSentYet(t) => NotSentYet(t)'
    BY <1>1 DEF NotSentYet
  <2>3. StageOf(t)'
    BY <1>1, <1>2, <2>1, <2>2 DEF StageOf, NoNews, Completes
  <2>4. WireOf(t)'
    BY <1>1, <2>1 DEF WireOf, ItsPlan
  <2>5. OrderOf(t)'
    BY <1>1, <2>1 DEF OrderOf, Flows, KeptUpTo, Completes
  <2>6. ErrorsFor(t)'
    BY <1>1, <2>1 DEF ErrorsFor, OnceUnderWay
  <2>. QED
    BY <2>3, <2>4, <2>5, <2>6
<1>11. StagesInv' /\ WireInv' /\ OrderInv' /\ ErrorsInv'
  BY <1>1, <1>10 DEF ScreenIInv, StagesInv, WireInv, OrderInv, ErrorsInv
<1>. QED
  BY <1>4, <1>5, <1>6, <1>7, <1>8, <1>9, <1>11 DEF ScreenIInv

(* Nothing has been sent at first.                                         *)
LEMMA ScreenStarts == StreamsAssumption /\ TaskInit => ScreenIInv
<1>. SUFFICES ASSUME StreamsAssumption, TaskInit PROVE ScreenIInv
  OBVIOUS
<1>1. 1 \in Conns /\ 0 \in 0..1 /\ 0 \in 0..MaxStreams /\ 0 \in Nat
  BY DEF StreamsAssumption, Conns
<1>2. /\ <<>> \in Seq(StreamFrames) /\ <<>> \in Seq({"request", "cancel"})
         /\ <<>> \in Seq(Streams)
      /\ \A i \in 1..Len(<<>>) : FALSE
  OBVIOUS
<1>3. NoConn \in PlanBrokers
  BY <1>1, <1>2 DEF NoConn, PlanBrokers
<1>4. StreamTypes
  <2>1. LinkTypes
    BY <1>1, <1>2, <1>3 DEF TaskInit, LinkTypes, Serving
  <2>2. FrameTypes
    BY <1>1, <1>2 DEF TaskInit, FrameTypes
  <2>3. ScreenTypes
    BY DEF TaskInit, ScreenTypes
  <2>. QED
    BY <2>1, <2>2, <2>3 DEF StreamTypes
<1>5. SessionsInv
  BY <1>2 DEF TaskInit, SessionsInv, Working
<1>6. ReviewsInv
  <2>1. \A A, B : WellBound(NoConn, A, B)
    BY <1>2 DEF WellBound, NoConn
  <2>. QED
    BY <2>1 DEF TaskInit, ReviewsInv
<1>7. ASSUME NEW t \in Streams PROVE NotSentYet(t)
  BY <1>2 DEF TaskInit, NotSentYet
<1>8. StagesInv
  BY <1>7 DEF TaskInit, StagesInv, StageOf, Completes, NoNews
<1>9. ResponsesInv /\ QuietPrompt /\ LateOnlyIfCut
  BY DEF TaskInit, ResponsesInv, QuietPrompt, LateOnlyIfCut
<1>10. WireInv /\ ChainInv /\ PlanOfItsTask
  BY <1>2 DEF TaskInit, WireInv, WireOf, ChainInv, PlanOfItsTask
<1>11. OrderInv /\ ErrorsInv
  BY DEF TaskInit, OrderInv, OrderOf, ErrorsInv, ErrorsFor
<1>12. ClosedIsReleased
  BY DEF TaskInit, ClosedIsReleased, NoConn, Working
<1>. QED
  BY <1>4, <1>5, <1>6, <1>8, <1>9, <1>10, <1>11, <1>12 DEF ScreenIInv

(* Every step of the server and of the client keeps the invariant.         *)
LEMMA ScreenStep ==
  ASSUME StreamsAssumption, ScreenIInv, [TaskNext]_taskVars
  PROVE  ScreenIInv'
<1>1. CASE UNCHANGED taskVars
  <2>1. /\ UNCHANGED <<serverVars, linkVars>> /\ upstream' = upstream /\ wire' = wire
           /\ responses' = responses
        /\ frameChain' = frameChain /\ handler' = handler /\ done' = done /\ screen' = screen
        /\ buffer' = buffer /\ errorShown' = errorShown /\ cancelledByUser' = cancelledByUser
        /\ transcript' = transcript /\ streamingText' = streamingText /\ spinner' = spinner
           /\ late' = late
    BY <1>1 DEF taskVars, netVars, clientVars, shownVars
  <2>2. /\ ReviewsInv' /\ ClosedIsReleased' /\ SessionsInv' /\ LinkTypes'
        /\ serving' = serving /\ sentTokens' = sentTokens /\ connOf' = connOf /\ conn' = conn
           /\ link' = link
    BY <2>1, ServerStill
  <2>3. FrameTypes' /\ ScreenTypes'
    BY <2>1, <2>2 DEF ScreenIInv, StreamTypes, FrameTypes, ScreenTypes
  <2>4. ResponsesInv' /\ QuietPrompt' /\ PlanOfItsTask' /\ LateOnlyIfCut'
    BY <2>1, <2>2
       DEF ScreenIInv, ResponsesInv, QuietPrompt, PlanOfItsTask, LateOnlyIfCut
  <2>5. ChainInv'
    BY <2>1 DEF ScreenIInv, ChainInv, ItsPlan
  <2>6. ASSUME NEW x \in Streams PROVE StageOf(x)' /\ WireOf(x)' /\ OrderOf(x)' /\ ErrorsFor(x)'
    <3>1. <<>> \in Seq(StreamFrames) /\ \A i \in 1..Len(<<>>) : FALSE
      OBVIOUS
    <3>. QED
      BY <2>1, <2>2, <3>1, StreamKeeps
  <2>7. StagesInv' /\ WireInv' /\ OrderInv' /\ ErrorsInv'
    BY <2>1, <2>6 DEF ScreenIInv, StagesInv, WireInv, OrderInv, ErrorsInv
  <2>. QED
    BY <2>2, <2>3, <2>4, <2>5, <2>7 DEF ScreenIInv, StreamTypes
<1>2. ASSUME NEW t \in Streams, ServerTaskStep(t) \/ EmitToken(t) \/ AskPlan(t)
      PROVE  ScreenIInv'
  BY <1>2, ReceivesKeep, EndKeeps, StageKeeps, TokenKeeps, AskKeeps DEF ServerTaskStep
<1>3. ASSUME NEW t \in Streams, ClientTaskStep(t)
      PROVE  ScreenIInv'
  BY <1>3, FrameKeeps, DrainedKeeps, ConcludeKeeps, ReceiveKeeps DEF ClientTaskStep
<1>4. ASSUME NEW t \in Streams, RunTaskStream(t) \/ Escape(t) \/ UserDecides(t)
      PROVE  ScreenIInv'
  BY <1>4, RunKeeps, EscapeKeeps, AnswersKeep
<1>5. ASSUME NEW c \in Conns, ServerCloses(c) \/ ReviewExpires(c)
      PROVE  ScreenIInv'
  BY <1>5, ClosesKeep, ExpiresKeeps
<1>6. ASSUME NEW r \in responses, PlanResponds(r)
      PROVE  ScreenIInv'
  BY <1>6, RespondsKeep
<1>7. CASE SyncTools \/ LoseSocket \/ ConnectAgain
  BY <1>7, SyncKeeps, LossKeeps, ReconnectKeeps
<1>. QED
  BY <1>1, <1>2, <1>3, <1>4, <1>5, <1>6, <1>7 DEF TaskNext

(* A task that completed is on the screen as a whole, and none is repeated *)
(* there.                                                                  *)
LEMMA ScreenHolds == ScreenIInv => ScreenInv
<1>. SUFFICES ASSUME ScreenIInv PROVE ScreenInv
  OBVIOUS
<1>1. TaskTypeOK
  BY DEF ScreenIInv, StreamTypes, LinkTypes, ScreenTypes, TaskTypeOK
<1>2. AnswerIsWhole
  <2>. SUFFICES ASSUME NEW t \in Streams, screen[t] = "ended", done[t] = "resolved",
                         t \notin cancelledByUser
                PROVE  /\ {transcript[i].n : i \in Shown(t)} = 1..sentTokens[t]
                       /\ \A i, j \in Shown(t) : i < j => transcript[i].n < transcript[j].n
                       /\ OneError(transcript, t)
    BY DEF AnswerIsWhole
  <2>1. OrderOf(t) /\ ErrorsFor(t) /\ t \notin late
    BY StreamOf DEF ScreenIInv, LateOnlyIfCut
  <2>2. PICK a \in 0..sentTokens[t] : KeptUpTo(t, a)
    BY <2>1 DEF OrderOf
  <2>3. Counts(transcript, t, 0, sentTokens[t])
    BY <2>2 DEF KeptUpTo, Completes
  <2>4. OneError(transcript, t)
    BY <2>1 DEF ErrorsFor
  <2>. QED
    BY <2>3, <2>4 DEF Counts, Shown
<1>3. NothingRepeated
  <2>. SUFFICES ASSUME NEW t \in Streams, t \notin late
                PROVE  /\ \A i, j \in Shown(t) : i < j => transcript[i].n < transcript[j].n
                       /\ OneError(transcript, t)
    BY DEF NothingRepeated
  <2>1. /\ StageOf(t) /\ OrderOf(t) /\ ErrorsFor(t)
           /\ screen[t] \in {"idle", "streaming", "ended"}
    BY StreamOf
  <2>2. CASE screen[t] = "idle"
    BY <2>1, <2>2 DEF StageOf, NotSentYet, Shown, OneError, PlacesOf
  <2>3. CASE screen[t] = "streaming"
    <3>1. PICK a, b, c \in 0..sentTokens[t] : Flows(t, a, b, c)
      BY <2>1, <2>3 DEF OrderOf
    <3>2. \A i, j \in Shown(t) : i < j => transcript[i].n < transcript[j].n
      BY <3>1 DEF Flows, Counts, Shown
    <3>3. OneError(transcript, t)
      BY <2>1, <2>3, ErrorsOf DEF ErrorsFor, OnceUnderWay
    <3>. QED
      BY <3>2, <3>3
  <2>4. CASE screen[t] = "ended"
    <3>1. PICK a \in 0..sentTokens[t] : KeptUpTo(t, a)
      BY <2>1, <2>4 DEF OrderOf
    <3>2. \A i, j \in Shown(t) : i < j => transcript[i].n < transcript[j].n
      BY <3>1 DEF KeptUpTo, Counts, Shown
    <3>. QED
      BY <2>1, <2>4, <3>2 DEF ErrorsFor
  <2>. QED
    BY <2>1, <2>2, <2>3, <2>4
<1>. QED
  BY <1>1, <1>2, <1>3 DEF ScreenIInv, ScreenInv

(* However the server and the connection fare, what the user sees of a     *)
(* task is its answer: whole and in order if it completed, nothing twice.  *)
THEOREM ScreenIsRight == TaskInit /\ [][TaskNext]_taskVars => []ScreenInv
<1>1. TaskInit => ScreenIInv
  BY StreamsAssumption, ScreenStarts
<1>2. ScreenIInv /\ [TaskNext]_taskVars => ScreenIInv'
  BY StreamsAssumption, ScreenStep
<1>. QED
  BY <1>1, <1>2, ScreenHolds, PTL

=============================================================================
