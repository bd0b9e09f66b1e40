---------------------------- MODULE ClientSettings ----------------------------
(***************************************************************************)
(* The client's config.json (config/manager.ts, cipher.ts, parsing.ts),    *)
(* read and written by every `atlas` process of a user: one that runs the  *)
(* terminal interface, another one, a repair (cli/configRepair.ts).  Each  *)
(* operation reads the whole file, changes what it is about and writes the *)
(* whole file back without giving up its thread, but nothing keeps another *)
(* process from reading or writing in between, and the write empties the   *)
(* file before it fills it.                                                *)
(*                                                                         *)
(* Of the settings the module keeps the encrypted ones (secret: password,  *)
(* host and the credentials of MCP servers), the pinned fingerprints, and  *)
(* whether every key of DEFAULT_CONFIG is there (whole).                   *)
(***************************************************************************)
EXTENDS Naturals, FiniteSets

CONSTANTS
  Procs,      \* processes
  Hosts,      \* servers whose fingerprint may be pinned
  Secrets,    \* values of the secret settings besides the default
  MaxSalts,   \* how many keys are made: each has a salt of its own
  MaxOps      \* operations of all processes

VARIABLES
  stored,     \* config.json
  stage,      \* where a process stands
  cipher,     \* its cached key; 0: locked
  found,      \* the file as it was when the process started, or last read
  target,     \* the settings it is about to write
  purpose,    \* what it writes them for
  backups,    \* the secrets in backups made of the file
  salts,      \* keys made so far
  opsDone,
  pinned, secret,   \* what the changes made so far amount to
  undisturbed       \* none has read a torn file, or replaced another one's write

settingsVars == <<stored, stage, cipher, found, target, purpose, backups, salts, opsDone, pinned,
                  secret, undisturbed>>
historyVars == <<pinned, secret>>

NoSecret == "none"
Defaults == [secret |-> NoSecret, pins |-> {}, whole |-> TRUE]
Contents == [secret : Secrets \cup {NoSecret}, pins : SUBSET Hosts, whole : BOOLEAN]

(* A file of the time before encryption is plain; key 0 seals nothing.     *)
NoFile == [form |-> "missing", key |-> 0, content |-> Defaults]
Torn == [form |-> "torn", key |-> 0, content |-> Defaults]
Plain(c) == [form |-> "plain", key |-> 0, content |-> c]
Sealed(k, c) == [form |-> "sealed", key |-> k, content |-> c]

(* mergeConfigFromDisk: what is missing or malformed gets its default.     *)
Merged(c) == [c EXCEPT !.whole = TRUE]

(* omitSecretFields: the settings without the encrypted ones.              *)
WithoutSecrets(c) == [c EXCEPT !.secret = NoSecret]

(* A process begins without a cached key.                                  *)
Locked == [p \in Procs |-> 0]

SettingsInit ==
  /\ stored \in {NoFile} \cup {Plain(c) : c \in {x \in Contents : ~x.whole}}
             \cup {Sealed(1, c) : c \in Contents}
  /\ salts = 1
  /\ stage = [p \in Procs |-> "off"]
  /\ cipher = Locked
  /\ found = [p \in Procs |-> NoFile]
  /\ target = [p \in Procs |-> Defaults]
  /\ purpose = [p \in Procs |-> [kind |-> "look"]]
  /\ backups = {} /\ opsDone = 0
  /\ pinned = stored.content.pins /\ secret = stored.content.secret
  /\ undisturbed = TRUE

(* The process goes on at a with the file as it is now.                    *)
Reads(p, a) ==
  /\ stage' = [stage EXCEPT ![p] = a]
  /\ found' = [found EXCEPT ![p] = stored]
  /\ undisturbed' = (undisturbed /\ stored.form # "torn")

(* What the process does not need any more.                               *)
Forgets(p) ==
  /\ found' = [found EXCEPT ![p] = NoFile]
  /\ target' = [target EXCEPT ![p] = Defaults]
  /\ purpose' = [purpose EXCEPT ![p] = [kind |-> "look"]]

Saves(p, c, why) ==
  /\ target' = [target EXCEPT ![p] = c]
  /\ purpose' = [purpose EXCEPT ![p] = why]

(* initializeCipher: a fresh salt makes a fresh key of any passphrase.     *)
NewKey(p) ==
  /\ salts < MaxSalts /\ salts' = salts + 1
  /\ cipher' = [cipher EXCEPT ![p] = salts + 1]

-----------------------------------------------------------------------------
(* unlockOrSetupConfigCipher: a file that is missing, plain or not JSON    *)
(* needs a new passphrase, a sealed one its own.                           *)
StartProc(p) ==
  /\ stage[p] = "off"
  /\ Reads(p, IF stored.form = "sealed" THEN "locked" ELSE "setup")
  /\ UNCHANGED <<stored, cipher, target, purpose, backups, salts, opsDone, historyVars>>

(* The right passphrase, for the envelope that was read at the start.      *)
EnterPassphrase(p) ==
  /\ stage[p] = "locked"
  /\ cipher' = [cipher EXCEPT ![p] = found[p].key]
  /\ stage' = [stage EXCEPT ![p] = "ready"]
  /\ Forgets(p)
  /\ UNCHANGED <<stored, backups, salts, opsDone, historyVars, undisturbed>>

(* Three wrong ones, and the choice to reset, confirmed: the file is       *)
(* copied, then the new passphrase is asked for.                           *)
ConfirmReset(p) ==
  /\ stage[p] = "locked" /\ stored.form # "missing"
  /\ stage' = [stage EXCEPT ![p] = "resetting"]
  /\ backups' = backups \cup {stored.content.secret}
  /\ undisturbed' = (undisturbed /\ stored = found[p])
  /\ UNCHANGED <<stored, cipher, found, target, purpose, salts, opsDone, historyVars>>

(* Mutant: the reset starts from the defaults. *)
FromDefaults(c) == Defaults

(* What a reset writes: the settings read at the start without secrets.    *)
AfterReset(c) == Merged(WithoutSecrets(c))

ResetPassphrase(p) ==
  /\ stage[p] = "resetting"
  /\ NewKey(p)
  /\ Saves(p, AfterReset(found[p].content), [kind |-> "forget"])
  /\ stage' = [stage EXCEPT ![p] = "saving"]
  /\ UNCHANGED <<stored, found, backups, opsDone, historyVars, undisturbed>>

(* The new passphrase.  A plain file is copied, read again and sealed; one *)
(* that another process has sealed since cannot be read, and the process   *)
(* ends; one that is gone or torn counts as the defaults.                  *)
NewPassphrase(p) ==
  /\ stage[p] = "setup"
  /\ CASE found[p].form # "plain" ->
            /\ NewKey(p)
            /\ stage' = [stage EXCEPT ![p] = "ready"] /\ Forgets(p)
            /\ UNCHANGED <<backups, undisturbed>>
       [] found[p].form = "plain" /\ stored.form \in {"missing", "sealed"} ->
            /\ stage' = [stage EXCEPT ![p] = "off"] /\ Forgets(p)
            /\ UNCHANGED <<cipher, salts, backups, undisturbed>>
       [] found[p].form = "plain" /\ stored.form \in {"plain", "torn"} ->
            /\ NewKey(p)
            /\ backups' = backups \cup {stored.content.secret}
            /\ Reads(p, "saving")
            /\ Saves(p, Merged(stored.content), [kind |-> "keep"])
  /\ UNCHANGED <<stored, opsDone, historyVars>>

-----------------------------------------------------------------------------
(* What an operation makes of the settings.  A repair with --reset clears  *)
(* the secrets and every pin.                                              *)
Patched(c, op) ==
  CASE op.kind = "pin" -> [c EXCEPT !.pins = @ \cup {op.host}]
    [] op.kind = "unpin" -> [c EXCEPT !.pins = @ \ {op.host}]
    [] op.kind = "set" -> [c EXCEPT !.secret = op.value]
    [] op.kind = "repair" -> [c EXCEPT !.secret = NoSecret, !.pins = {}]
    [] op.kind = "forget" -> WithoutSecrets(c)
    [] op.kind \in {"look", "keep"} -> c

Edits ==
  [kind : {"pin", "unpin"}, host : Hosts] \cup [kind : {"set"}, value : Secrets]
  \cup [kind : {"repair", "look"}]

(* An operation has something to write: the first pin of a host, the       *)
(* removal of one there is, any other change, and on a read the defaults   *)
(* of a missing file and the keys a file lacks.                            *)
MustSave(c, op) ==
  \/ op.kind = "pin" /\ op.host \notin c.pins
  \/ op.kind = "unpin" /\ op.host \in c.pins
  \/ op.kind \in {"set", "repair"}
  \/ stored.form = "missing"
  \/ stored.form \in {"plain", "sealed"} /\ ~stored.content.whole

(* Mutant: what cannot be opened counts as the defaults. *)
AnyKey(p) == TRUE

(* loadConfig: a file that is not JSON is the defaults, one sealed with    *)
(* another key is an error, which the operation passes on.                 *)
CanLoad(p) == stored.form = "sealed" => stored.key = cipher[p]

Loaded(p) == IF CanLoad(p) /\ stored.form # "torn" THEN stored.content ELSE Defaults

(* A setting is changed or only read: the save of a read that completes    *)
(* the file is taken as one with the save that follows it.                 *)
Operate(p, op) ==
  /\ stage[p] = "ready" /\ opsDone < MaxOps
  /\ opsDone' = opsDone + 1
  /\ IF CanLoad(p)
     THEN IF MustSave(Loaded(p), op)
          THEN Reads(p, "saving") /\ Saves(p, Patched(Merged(Loaded(p)), op), op)
          ELSE /\ undisturbed' = (undisturbed /\ stored.form # "torn")
               /\ UNCHANGED <<stage, found, target, purpose>>
     ELSE UNCHANGED <<stage, found, target, purpose, undisturbed>>
  /\ UNCHANGED <<stored, cipher, backups, salts, historyVars>>

(* writeFileSync: the file is emptied, then filled.                        *)
Truncate(p) ==
  /\ stage[p] = "saving"
  /\ stored' = Torn
  /\ stage' = [stage EXCEPT ![p] = "writing"]
  /\ undisturbed' = (undisturbed /\ stored = found[p])
  /\ UNCHANGED <<cipher, found, target, purpose, backups, salts, opsDone, historyVars>>

Write(p) ==
  /\ stage[p] = "writing"
  /\ stored' = Sealed(cipher[p], target[p])
  /\ stage' = [stage EXCEPT ![p] = "ready"]
  /\ LET meant == Patched([secret |-> secret, pins |-> pinned, whole |-> TRUE], purpose[p])
     IN  pinned' = meant.pins /\ secret' = meant.secret
  /\ Forgets(p)
  /\ UNCHANGED <<cipher, backups, salts, opsDone, undisturbed>>

(* The process ends or is killed, at any point.                            *)
Stop(p) ==
  /\ stage[p] # "off"
  /\ stage' = [stage EXCEPT ![p] = "off"]
  /\ cipher' = [cipher EXCEPT ![p] = 0]
  /\ Forgets(p)
  /\ UNCHANGED <<stored, backups, salts, opsDone, historyVars, undisturbed>>

SettingsNext ==
  \E p \in Procs :
    \/ StartProc(p) \/ EnterPassphrase(p) \/ ConfirmReset(p) \/ ResetPassphrase(p)
    \/ NewPassphrase(p) \/ Truncate(p) \/ Write(p) \/ Stop(p)
    \/ \E op \in Edits : Operate(p, op)

-----------------------------------------------------------------------------
(* Pins and secrets are lost in no other way than by being cleared, by a   *)
(* reset of a forgotten passphrase (the secrets only), by a reader of a    *)
(* torn file or by a process that copies or overwrites another's: neither  *)
(* the encryption of a plain file, nor the reset, nor a file that lacks    *)
(* keys, nor a repair touches what it is not about ("never silently        *)
(* re-pinned", fingerprintStore.ts).                                       *)
SettingsKept ==
  undisturbed /\ stored.form \in {"plain", "sealed"} =>
    stored.content.pins = pinned /\ stored.content.secret = secret

(* Nobody writes over a file it could not read, but a reset, and a reset   *)
(* has copied the secrets it drops.                                        *)
OnlyReadersWrite ==
  \A p \in Procs :
    stage[p] = "saving" /\ undisturbed /\ stored = found[p] =>
      CASE purpose[p].kind = "forget" -> stored.content.secret \in backups
        [] OTHER -> stored.form = "sealed" => stored.key = cipher[p]

SettingsInv == SettingsKept /\ OnlyReadersWrite
=============================================================================
