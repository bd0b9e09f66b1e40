------------------------------ MODULE ConfigStore ------------------------------
(***************************************************************************)
(* The configuration of the server (ConfigManager): one file, read whole   *)
(* and written whole (atomicWriteJson: a temporary file and a rename), the *)
(* providers in it encrypted with a key held in memory.  Every change is a *)
(* read-modify-write under the mutex; the getters read without it.  The    *)
(* handlers that set a model then probe what it can do, and record every   *)
(* answer in a change of its own: a new agent model is probed for tools    *)
(* and for thinking, a new subagent model for tools, and a client's        *)
(* configuration may bring both.                                           *)
(***************************************************************************)
EXTENDS Naturals, Sequences, FiniteSets, Mutex

CONSTANTS
  Callers,     \* handlers of requests, one request each
  Requests,    \* what they may be
  Models,
  ToolModels,  \* the models that support tools
  ThinkModels, \* the models that support thinking
  Providers,   \* providers that can be configured, "ollama" apart
  MaxClock     \* bound: times told apart

Ollama == "ollama"
Roles == {"agent", "subagent"}
RequestKinds == {"get", "temp", "setModel", "setProvider", "setRoleModel", "add", "remove",
                 "sync", "rotate"}
RequestType ==
  [kind : RequestKinds, role : Roles, provider : Providers \cup {Ollama}, model : Models,
   temp : {0, 1}, at : 0..MaxClock]

ASSUME ConfigAssumption ==
  /\ Requests \subseteq RequestType
  /\ Ollama \notin Providers /\ MaxClock \in Nat

VARIABLES
  file,      \* the configuration on disk
  keyOnDisk, \* the key its providers are encrypted with
  cachedKey, \* the key in memory
  now,       \* Date.now()
  lock,      \* the mutex
  pc,        \* where the request of a caller is
  request,   \* what it asks
  todo,      \* [Callers -> Seq(Steps)]: what its handler has still to do
  snapshot,  \* the configuration it read
  outcome,   \* "done", "refused" or "failed"
  serial     \* ghost: the changes that were saved, one after another

configVars ==
  <<file, keyOnDisk, cachedKey, now, lock, pc, request, todo, snapshot, outcome, serial>>
Places == {"idle", "waits", "holds", "saves", "probes", "keeps", "over"}
Config ==
  [model : [Roles -> Models], provider : [Roles -> Providers \cup {Ollama}],
   tools : [Roles -> BOOLEAN], thinking : BOOLEAN, temp : [Roles -> {0, 1}], changedAt : 0..MaxClock,
   providers : SUBSET Providers]

ConfigInit ==
  /\ file \in [model : [Roles -> Models], provider : [Roles -> {Ollama}],
               tools : [Roles -> {FALSE}], thinking : {FALSE}, temp : [Roles -> {0}],
               changedAt : {0}, providers : SUBSET Providers]
  /\ keyOnDisk = 0 /\ cachedKey = 0 /\ now = 0
  /\ lock = FreeLock
  /\ pc = [c \in Callers |-> "idle"]
  /\ request \in [Callers -> Requests] /\ todo = [c \in Callers |-> <<>>]
  /\ snapshot = [c \in Callers |-> file]
  /\ outcome = [c \in Callers |-> "none"]
  /\ serial = file

-----------------------------------------------------------------------------
(* A provider that a role may be given, and one that may be removed.       *)
Known(config, provider) == provider = Ollama \/ provider \in config.providers
InUse(config, provider) == \E r \in Roles : config.provider[r] = provider
Unguarded(r, config) == FALSE   \* mutant of RequestRefused

RequestRefused(r, config) ==
  \/ /\ r.kind = "remove"
     /\ r.provider \notin config.providers \/ InUse(config, r.provider)
  \/ r.kind = "add" /\ r.provider = Ollama
  \/ r.kind \in {"setProvider", "setRoleModel"} /\ ~Known(config, r.provider)

(* The configuration after a change at time t; what the client and the     *)
(* server share is stamped when it changes, or with the client's time.     *)
Stamped(config, changed, t) ==
  [changed EXCEPT !.changedAt = IF changed = config THEN @ ELSE t]
SetKey(r, config, t) == Stamped(config, [config EXCEPT !.temp[r.role] = r.temp], t)
SetModel(r, config, t) == Stamped(config, [config EXCEPT !.model[r.role] = r.model], t)
SetProvider(r, config, t) ==
  Stamped(config, [config EXCEPT !.provider[r.role] = r.provider], t)
SetRoleModel(r, config, t) ==
  Stamped(config, [config EXCEPT !.model[r.role] = r.model,
                                 !.provider[r.role] = r.provider], t)
AddProvider(r, config) == [config EXCEPT !.providers = @ \cup {r.provider}]
RemoveProvider(r, config) == [config EXCEPT !.providers = @ \ {r.provider}]
ApplySyncedConfig(r, config) ==
  [config EXCEPT !.model = [role \in Roles |-> r.model],
                 !.provider = [role \in Roles |-> r.provider],
                 !.temp = [role \in Roles |-> r.temp], !.changedAt = r.at]

Changed(r, config, t) ==
  CASE r.kind = "temp" -> SetKey(r, config, t)
    [] r.kind = "setModel" -> SetModel(r, config, t)
    [] r.kind = "setProvider" -> SetProvider(r, config, t)
    [] r.kind = "setRoleModel" -> SetRoleModel(r, config, t)
    [] r.kind = "add" -> AddProvider(r, config)
    [] r.kind = "remove" -> RemoveProvider(r, config)
    [] r.kind = "sync" -> ApplySyncedConfig(r, config)
    [] OTHER -> config

-----------------------------------------------------------------------------
(* What a handler does, one step after another: the change it is asked     *)
(* for; then, for every role with a new model, it looks for the provider   *)
(* (but config.setModel, which always asks Ollama) and probes the model.   *)
Steps == [does : {"change", "admin", "tools", "thinking"}, role : Roles]
Step(what, role) == [does |-> what, role |-> role]

Probes(role) ==
  <<Step("tools", role)>> \o IF role = "agent" THEN <<Step("thinking", role)>> ELSE <<>>
LookedUp(role) == <<Step("admin", role)>> \o Probes(role)
IfNew(r, role) == IF r.model # file.model[role] THEN LookedUp(role) ELSE <<>>

StepsAfter(r) ==
  CASE r.kind = "setModel" -> Probes(r.role)
    [] r.kind = "setRoleModel" -> LookedUp(r.role)
    [] r.kind = "sync" -> IfNew(r, "agent") \o IfNew(r, "subagent")
    [] OTHER -> <<>>

Doing(c) == Head(todo[c])
MakesItsChange(c) == Doing(c).does = "change"
Refused(c, config) == MakesItsChange(c) /\ RequestRefused(request[c], config)

(* The change a caller makes inside of the mutex: the one it is asked for, *)
(* or what the model it has set can do, which has no stamp.                *)
Result(c, config, t) ==
  CASE MakesItsChange(c) -> Changed(request[c], config, t)
    [] Doing(c).does = "tools" ->
         [config EXCEPT !.tools[Doing(c).role] = (request[c].model \in ToolModels)]
    [] OTHER -> [config EXCEPT !.thinking = (request[c].model \in ThinkModels)]

-----------------------------------------------------------------------------
(* mutex.run(): the caller holds the lock at once or waits for it.         *)
Enter(c) ==
  /\ lock' = AfterAcquire(lock, c)
  /\ pc' = [pc EXCEPT ![c] = IF lock.locked THEN "waits" ELSE "holds"]

(* release(), in the finally of run(); next: where the caller goes.        *)
Leave(c, next) ==
  /\ lock' = AfterRelease(lock)
  /\ pc' = [d \in Callers |-> IF d = c THEN next
                              ELSE IF d \in HandedTo(lock) THEN "holds" ELSE pc[d]]

(* Mutant of Settled: a change that fails keeps the lock.                  *)
NotReleased(c, o) ==
  /\ outcome' = [outcome EXCEPT ![c] = o]
  /\ pc' = [pc EXCEPT ![c] = "over"] /\ UNCHANGED lock

Settled(c, o) ==
  /\ outcome' = [outcome EXCEPT ![c] = o]
  /\ Leave(c, "over")

Readable == cachedKey = keyOnDisk

(* A handler that ends without the mutex: a getter only reads, and         *)
(* sync.check reads first and goes on only if the client's configuration   *)
(* is newer; the models it finds then are those it compares with later.    *)
Ends(c, o) ==
  /\ outcome' = [outcome EXCEPT ![c] = o]
  /\ pc' = [pc EXCEPT ![c] = "over"] /\ UNCHANGED lock
Starts(c) ==
  /\ Enter(c) /\ UNCHANGED outcome
  /\ todo' = [todo EXCEPT
       ![c] = <<Step("change", request[c].role)>> \o StepsAfter(request[c])]
Getter(c) ==
  /\ request[c].kind = "get"
  /\ Ends(c, IF Readable THEN "done" ELSE "failed") /\ UNCHANGED todo
SyncCheck(c) ==
  /\ request[c].kind = "sync"
  /\ \/ ~Readable /\ Ends(c, "failed") /\ UNCHANGED todo
     \/ Readable /\ request[c].at <= file.changedAt /\ Ends(c, "done") /\ UNCHANGED todo
     \/ Readable /\ request[c].at > file.changedAt /\ Starts(c)

RequestComes(c) ==
  /\ pc[c] = "idle"
  /\ \/ Getter(c) \/ SyncCheck(c)
     \/ request[c].kind \notin {"get", "sync"} /\ Starts(c)
  /\ UNCHANGED <<file, keyOnDisk, cachedKey, now, request, snapshot, serial>>

(* A change that fails ends the request; what a probe has found and cannot *)
(* record is dropped, and the handler reads the flag (RecordingFailed).    *)
ChangeFails(c) ==
  IF MakesItsChange(c) THEN Settled(c, "failed") ELSE Leave(c, "keeps") /\ UNCHANGED outcome

(* _loadRaw and the checks: refused, or what is to be saved is known.      *)
(* rotateKey changes the key in memory before anything is saved; a wrong   *)
(* passphrase refuses it.                                                  *)
Load(c) ==
  /\ pc[c] = "holds"
  /\ \/ /\ request[c].kind # "rotate" /\ ~Readable
        /\ ChangeFails(c) /\ UNCHANGED <<snapshot, cachedKey>>
     \/ /\ request[c].kind # "rotate" => Readable
        /\ Refused(c, file) \/ request[c].kind = "rotate"
        /\ Settled(c, "refused") /\ UNCHANGED <<snapshot, cachedKey>>
     \/ /\ request[c].kind # "rotate" => Readable
        /\ ~Refused(c, file)
        /\ snapshot' = [snapshot EXCEPT ![c] = file]
        /\ cachedKey' = IF request[c].kind = "rotate" THEN cachedKey + 1 ELSE cachedKey
        /\ pc' = [pc EXCEPT ![c] = "saves"]
        /\ UNCHANGED <<lock, outcome>>
  /\ UNCHANGED <<file, keyOnDisk, now, request, todo, serial>>

(* _saveRaw writes the whole configuration with the key in memory.         *)
Save(c) ==
  /\ pc[c] = "saves"
  /\ \E t \in {now, now + 1} \cap (0..MaxClock) :
       /\ file' = Result(c, snapshot[c], t)
       /\ serial' = Result(c, serial, t)
       /\ now' = t
  /\ keyOnDisk' = cachedKey
  /\ todo' = [todo EXCEPT ![c] = Tail(@)]
  /\ IF Tail(todo[c]) # <<>> THEN Leave(c, "probes") /\ UNCHANGED outcome
                             ELSE Settled(c, "done")
  /\ UNCHANGED <<cachedKey, request, snapshot>>

(* It fails: a rotation goes back to the key that opens the file.  Mutant  *)
(* of RestoredKey: it does not.                                            *)
KeptKey(c) == cachedKey

RestoredKey(c) == IF request[c].kind = "rotate" THEN keyOnDisk ELSE cachedKey

SaveFails(c) ==
  /\ pc[c] = "saves"
  /\ cachedKey' = RestoredKey(c)
  /\ ChangeFails(c)
  /\ UNCHANGED <<file, keyOnDisk, now, request, todo, snapshot, serial>>

-----------------------------------------------------------------------------
(* Outside of the mutex the handler goes on with its next step.            *)
GoesOnWith(c, rest) ==
  /\ todo' = [todo EXCEPT ![c] = rest]
  /\ IF rest = <<>> THEN Ends(c, "done")
                    ELSE pc' = [pc EXCEPT ![c] = "probes"] /\ UNCHANGED <<lock, outcome>>

(* getAdmin() reads the provider, which may be gone by now.                *)
AdminFound(c) ==
  request[c].provider = Ollama \/ (Readable /\ request[c].provider \in file.providers)
GetAdmin(c) ==
  /\ pc[c] = "probes" /\ Doing(c).does = "admin"
  /\ IF AdminFound(c) THEN GoesOnWith(c, Tail(todo[c]))
                      ELSE Ends(c, "failed") /\ UNCHANGED todo
  /\ UNCHANGED <<file, keyOnDisk, cachedKey, now, request, snapshot, serial>>

(* showModel() answers, which set() records.  If it fails, or set() does,  *)
(* the flag of the model before is left, and read.                         *)
KeepFlag(c) ==
  IF Readable THEN GoesOnWith(c, Tail(todo[c])) ELSE Ends(c, "failed") /\ UNCHANGED todo

Probe(c) ==
  /\ pc[c] = "probes" /\ Doing(c).does \in {"tools", "thinking"}
  /\ \/ Enter(c) /\ UNCHANGED <<todo, outcome>>
     \/ KeepFlag(c)
  /\ UNCHANGED <<file, keyOnDisk, cachedKey, now, request, snapshot, serial>>

RecordingFailed(c) ==
  /\ pc[c] = "keeps" /\ KeepFlag(c)
  /\ UNCHANGED <<file, keyOnDisk, cachedKey, now, request, snapshot, serial>>

CallerStep(c) ==
  \/ RequestComes(c) \/ Load(c) \/ Save(c) \/ SaveFails(c)
  \/ GetAdmin(c) \/ Probe(c) \/ RecordingFailed(c)
ConfigNext == \E c \in Callers : CallerStep(c)

(* The handlers of requests that came go on.                               *)
ConfigFairness == \A c \in Callers : WF_configVars(pc[c] # "idle" /\ CallerStep(c))
ConfigSpec == ConfigInit /\ [][ConfigNext]_configVars /\ ConfigFairness

-----------------------------------------------------------------------------
(* The types of the variables of the configuration.                        *)
ConfigTypeOK ==
  /\ file \in Config /\ serial \in Config /\ snapshot \in [Callers -> Config]
  /\ keyOnDisk \in Nat /\ cachedKey \in Nat /\ now \in 0..MaxClock
  /\ lock \in [locked : BOOLEAN, queue : Seq(Callers)]
  /\ pc \in [Callers -> Places] /\ request \in [Callers -> RequestType]
  /\ todo \in [Callers -> Seq(Steps)]
  /\ outcome \in [Callers -> {"none", "done", "refused", "failed"}]

(* At most one caller is inside, and the mutex is locked exactly while one *)
(* is (mutex.ts:62: release hands over without unlocking).                 *)
Inside == {c \in Callers : pc[c] \in {"holds", "saves"}}
OneCallerInside ==
  /\ \A c, d \in Inside : c = d
  /\ lock.locked = (Inside # {})

(* Who waits is in the queue once, and is waited for by somebody inside.   *)
WaitersAreQueued ==
  /\ \A c \in Callers :
       pc[c] = "waits" <=> \E i \in 1..Len(lock.queue) : lock.queue[i] = c
  /\ \A i, j \in 1..Len(lock.queue) : lock.queue[i] = lock.queue[j] => i = j
  /\ lock.queue # <<>> => lock.locked

(* No saved change is lost: the file is what the changes make when they    *)
(* are applied one after another, each to the result of the one before     *)
(* (configManager.ts:1182, the read and the write of a change).            *)
NoUpdateLost == file = serial

(* Outside of a rotation that has not been saved, the key in memory opens  *)
(* the file, also after a rotation that failed (configManager.ts:529).     *)
Rotating == \E c \in Callers : pc[c] = "saves" /\ request[c].kind = "rotate"
KeyOpensFile == cachedKey = keyOnDisk \/ Rotating

(* A role is never left with a provider that is not configured, but by the *)
(* configuration of a client (configManager.ts:1436, and 1563).            *)
SetByClient(provider) ==
  \E c \in Callers : request[c].kind = "sync" /\ request[c].provider = provider
UsedIsConfigured ==
  \A r \in Roles : Known(file, file.provider[r]) \/ SetByClient(file.provider[r])

(* What holds of the configuration at every moment.                        *)
ConfigInv ==
  /\ ConfigTypeOK /\ OneCallerInside /\ WaitersAreQueued
  /\ NoUpdateLost /\ KeyOpensFile /\ UsedIsConfigured

(* A flag that changes becomes that of the model the role has then         *)
(* (config/types.ts:269).  Not so: a handler probes the model it has set    *)
(* outside of the mutex, and another may have set the next one meanwhile.  *)
FlagsOfModel ==
  [][\A r \in Roles : file'.tools[r] # file.tools[r] =>
       file'.tools[r] = (file'.model[r] \in ToolModels)]_configVars

(* The newer of two configurations wins (routerBuilder.ts:623).            *)
NewestWins == [][file'.changedAt >= file.changedAt]_configVars

(* Every request that came is answered, whoever fails before it.           *)
RequestsOver == \A c \in Callers : pc[c] \in {"idle", "over"}
RequestsEnd == <>[]RequestsOver
=============================================================================
