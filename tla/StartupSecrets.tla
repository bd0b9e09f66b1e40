---------------------------- MODULE StartupSecrets -----------------------------
(***************************************************************************)
(* The secrets of the server at rest: the password and the port in         *)
(* startup.json, the API keys of the providers in config.json, both under  *)
(* one key derived from a passphrase that is asked for at every start.     *)
(* Three wrong passphrases offer a reset, which backs both files up and    *)
(* drops what is encrypted in them.  "atlas-server config" repairs         *)
(* startup.json in a process of its own.  A process may die between any    *)
(* two steps.                                                              *)
(***************************************************************************)
EXTENDS Naturals, FiniteSets

CONSTANTS
  MaxAttempts,   \* MAX_PASSPHRASE_ATTEMPTS
  Fields,        \* what startup.json holds: password, port
  Repairs,       \* what a repair may replace: [reset : BOOLEAN, fields : SUBSET Fields]
  MaxKeys        \* bound: keys ever derived

NoKey == 0
Processes == {"server", "repair"}
ASSUME SecretsAssumption ==
  /\ MaxAttempts \in Nat \ {0} /\ MaxKeys \in Nat
  /\ \A r \in Repairs : r.fields \subseteq Fields /\ (r.reset => r.fields = Fields)

VARIABLES
  startup,    \* startup.json: the key of its envelope, NoKey without one, and the fields set
  config,     \* config.json: the key its providers are under, NoKey without an envelope
  backups,    \* the envelopes ever copied: of startup.json and of config.json
  keysMade,   \* how many keys were derived with a new salt
  memKey,     \* [Processes -> cachedKey]
  at,         \* where a process is
  envelope,   \* the key of the envelope the passphrase is tried on
  attempts,   \* wrong passphrases in a row
  loaded,      \* the fields loadStartupSecrets found
  repair,     \* what the repair replaces
  lockedOut,  \* ghost: a process past its passphrase could not decrypt
  written     \* ghost: the envelopes ever written, by file

secretVars == <<startup, config, backups, keysMade, memKey, at, envelope, attempts, loaded, repair,
                lockedOut, written>>
disk == <<startup, config, backups, written>>

SecretInit ==
  /\ startup = [key |-> NoKey, fields |-> {}]
  /\ config = NoKey
  /\ backups = [startup |-> {}, config |-> {}] /\ written = [startup |-> {}, config |-> {}]
  /\ keysMade = 0
  /\ memKey = [p \in Processes |-> NoKey] /\ at = [p \in Processes |-> "down"]
  /\ envelope = [p \in Processes |-> NoKey] /\ attempts = [p \in Processes |-> 0]
  /\ loaded = [p \in Processes |-> {}] /\ repair \in Repairs
  /\ lockedOut = FALSE

Moves(p, step) == at' = [at EXCEPT ![p] = step]
Stops(p) == Moves(p, "down") /\ memKey' = [memKey EXCEPT ![p] = NoKey]

-----------------------------------------------------------------------------
(* findExistingEnvelope: that of startup.json, or else of config.json.     *)
Found == IF startup.key # NoKey THEN startup.key ELSE config

(* One process is started at a time; a repair may run beside a server that *)
(* is up.                                                                  *)
Start(p) ==
  /\ at[p] = "down"
  /\ \A q \in Processes \ {p} : at[q] = "down" \/ (q = "server" /\ at[q] = "up")
  /\ Found # NoKey \/ p = "server"       \* a repair needs saved secrets
  /\ envelope' = [envelope EXCEPT ![p] = Found] /\ attempts' = [attempts EXCEPT ![p] = 0]
  /\ Moves(p, IF Found = NoKey THEN "newPassphrase" ELSE "unlocks")
  /\ p = "repair" => repair' \in Repairs
  /\ p # "repair" => UNCHANGED repair
  /\ UNCHANGED disk /\ UNCHANGED <<keysMade, memKey, loaded, lockedOut>>

(* runUnlockAttempts, one passphrase.                                      *)
Unlock(p) ==
  /\ at[p] = "unlocks"
  /\ memKey' = [memKey EXCEPT ![p] = envelope[p]] /\ Moves(p, "loads")
  /\ UNCHANGED disk /\ UNCHANGED <<keysMade, envelope, attempts, loaded, repair, lockedOut>>
WrongPassphrase(p) ==
  /\ at[p] = "unlocks"
  /\ attempts' = [attempts EXCEPT ![p] = @ + 1]
  /\ IF attempts[p] + 1 < MaxAttempts THEN UNCHANGED <<at, memKey>>
     ELSE IF p = "repair" THEN Stops(p)
     ELSE Moves(p, "offers") /\ UNCHANGED memKey
  /\ UNCHANGED disk /\ UNCHANGED <<keysMade, envelope, loaded, repair, lockedOut>>

(* offerStartupPassphraseReset: try again, or, confirmed, discard.         *)
Offer ==
  /\ at["server"] = "offers"
  /\ \/ Moves("server", "unlocks") /\ attempts' = [attempts EXCEPT !["server"] = 0]
     \/ Moves("server", "backsUpStartup") /\ UNCHANGED attempts
  /\ UNCHANGED disk /\ UNCHANGED <<keysMade, memKey, envelope, loaded, repair, lockedOut>>

Copied(key) == {key} \ {NoKey}
BackUp ==
  /\ \/ /\ at["server"] = "backsUpStartup" /\ Moves("server", "backsUpConfig")
        /\ backups' = [backups EXCEPT !.startup = @ \cup Copied(startup.key)]
     \/ /\ at["server"] = "backsUpConfig" /\ Moves("server", "removesStartup")
        /\ backups' = [backups EXCEPT !.config = @ \cup Copied(config)]
  /\ UNCHANGED <<startup, config, written, keysMade, memKey, envelope, attempts, loaded, repair,
                 lockedOut>>
RemoveStartup ==
  /\ at["server"] = "removesStartup" /\ Moves("server", "stripsConfig")
  /\ startup' = [key |-> NoKey, fields |-> {}]
  /\ UNCHANGED <<config, backups, written, keysMade, memKey, envelope, attempts, loaded, repair,
                 lockedOut>>

(* The envelope goes with the providers.  Mutant of Stripped: it stays.    *)
KeepsEnvelope == config

Stripped == NoKey

StripConfig ==
  /\ at["server"] = "stripsConfig" /\ Moves("server", "newPassphrase")
  /\ config' = Stripped
  /\ UNCHANGED <<startup, backups, written, keysMade, memKey, envelope, attempts, loaded, repair,
                 lockedOut>>

(* initializeCipher: a new salt makes a new key.                           *)
NewPassphrase ==
  /\ at["server"] = "newPassphrase" /\ keysMade < MaxKeys
  /\ keysMade' = keysMade + 1 /\ memKey' = [memKey EXCEPT !["server"] = keysMade + 1]
  /\ Moves("server", "loads")
  /\ UNCHANGED disk /\ UNCHANGED <<envelope, attempts, loaded, repair, lockedOut>>

-----------------------------------------------------------------------------
Opens(p, key) == key \in {NoKey, memKey[p]}

(* loadStartupSecrets: what cannot be decrypted ends the process.          *)
LoadStartup(p) ==
  /\ at[p] = "loads"
  /\ IF Opens(p, startup.key)
     THEN /\ loaded' = [loaded EXCEPT ![p] = startup.fields]
          /\ Moves(p, IF p = "server" /\ startup.fields = Fields THEN "loadsConfig" ELSE "saves")
          /\ UNCHANGED <<memKey, lockedOut>>
     ELSE Stops(p) /\ lockedOut' = TRUE /\ UNCHANGED loaded
  /\ UNCHANGED disk /\ UNCHANGED <<keysMade, envelope, attempts, repair>>

(* The server saves what it had to ask for beside what it knew, a repair   *)
(* what it replaces beside what it keeps.  Mutant: with no memory of the   *)
(* rest.                                                                   *)
OnlyReplaced(p) == IF p = "server" THEN Fields ELSE repair.fields

FieldsToSave(p) ==
  IF p = "server" THEN Fields
  ELSE repair.fields \cup (IF repair.reset THEN {} ELSE loaded[p])

SaveStartup(p) ==
  /\ at[p] = "saves"
  /\ startup' = [key |-> memKey[p], fields |-> FieldsToSave(p)]
  /\ written' = [written EXCEPT !.startup = @ \cup {memKey[p]}]
  /\ IF p = "server" THEN Moves(p, "loadsConfig") /\ UNCHANGED memKey ELSE Stops(p)
  /\ UNCHANGED <<config, backups, keysMade, envelope, attempts, loaded, repair, lockedOut>>

(* The first read of config.json: unlockOrSetupProvidersCipher finds the   *)
(* cipher unlocked and returns; the getters must decrypt.                  *)
LoadConfig ==
  /\ at["server"] = "loadsConfig"
  /\ IF Opens("server", config) THEN Moves("server", "up") /\ UNCHANGED <<memKey, lockedOut>>
     ELSE Stops("server") /\ lockedOut' = TRUE
  /\ UNCHANGED disk /\ UNCHANGED <<keysMade, envelope, attempts, loaded, repair>>

(* Any change of the configuration: _saveRaw encrypts the providers, also  *)
(* when there are none.                                                    *)
SaveConfig ==
  /\ at["server"] = "up" /\ Opens("server", config)
  /\ config' = memKey["server"]
  /\ written' = [written EXCEPT !.config = @ \cup {memKey["server"]}]
  /\ UNCHANGED <<startup, backups, keysMade, memKey, at, envelope, attempts, loaded, repair,
                 lockedOut>>

(* The user quits, an empty password is refused, or the process dies.      *)
Crash(p) ==
  /\ at[p] # "down" /\ Stops(p)
  /\ UNCHANGED disk /\ UNCHANGED <<keysMade, envelope, attempts, loaded, repair, lockedOut>>

SecretNext ==
  \/ Offer \/ BackUp \/ RemoveStartup \/ StripConfig \/ NewPassphrase \/ LoadConfig \/ SaveConfig
  \/ \E p \in Processes :
       Start(p) \/ Unlock(p) \/ WrongPassphrase(p) \/ LoadStartup(p) \/ SaveStartup(p) \/ Crash(p)
SecretSpec == SecretInit /\ [][SecretNext]_secretVars

-----------------------------------------------------------------------------
(* The types of the variables of the secrets.                              *)
Keys == NoKey..MaxKeys
SecretTypeOK ==
  /\ startup \in [key : Keys, fields : SUBSET Fields]
  /\ config \in Keys
  /\ memKey \in [Processes -> Keys] /\ keysMade \in 0..MaxKeys
  /\ attempts \in [Processes -> 0..MaxAttempts]

(* Both files are under one key, wherever a reset or a start was cut       *)
(* short: the passphrase that opens the first opens the second.            *)
OneKey == startup.key # NoKey /\ config # NoKey => startup.key = config

(* So nobody who knew the passphrase is locked out of what was saved       *)
(* (server/index.ts:177).                                                  *)
NobodyLockedOut == ~lockedOut

(* A server past its passphrase holds the key that opens both files.       *)
HeldKeyOpens ==
  \A p \in Processes :
    at[p] \in {"loads", "saves", "loadsConfig", "up"} =>
      Opens(p, startup.key) /\ Opens(p, config)

(* What was written under a key is still there or has been backed up.      *)
NothingDiscarded ==
  /\ written.startup \subseteq backups.startup \cup {startup.key}
  /\ written.config \subseteq backups.config \cup {config}

(* Whoever saves startup.json has read all that it does not replace        *)
(* (serverConfigRepair.ts:107).                                            *)
FieldsStay == \A p \in Processes : at[p] = "saves" => startup.fields \subseteq FieldsToSave(p)

(* What holds of the secrets at every moment.                              *)
SecretInv ==
  SecretTypeOK /\ OneKey /\ NobodyLockedOut /\ HeldKeyOpens /\ NothingDiscarded /\ FieldsStay
=============================================================================
