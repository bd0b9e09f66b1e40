---------------------------- MODULE ServerProofs -----------------------------
(***************************************************************************)
(* What is proved of the server's stores: the secrets and their key, the   *)
(* skills and their index, the memory of tasks, the preferences and their  *)
(* indexes.  Each component is proved by an inductive invariant of its     *)
(* own; side by side, with those of ServerPartsProofs, they change no      *)
(* variable of one another.                                                *)
(***************************************************************************)
EXTENDS MCServer, AnswerProofs, FiniteSetTheorems, TLAPS

-----------------------------------------------------------------------------
(* The secrets.  Where a process is, and the key it goes by there.         *)
SecretSteps ==
  {"down", "unlocks", "offers", "backsUpStartup", "backsUpConfig", "removesStartup",
   "stripsConfig", "newPassphrase", "loads", "saves", "loadsConfig", "up"}
Holding == {"unlocks", "offers", "loads", "saves", "loadsConfig", "up"}
KeyOf(p) == IF at[p] \in {"unlocks", "offers"} THEN envelope[p] ELSE memKey[p]

SecretTypes ==
  /\ SecretTypeOK
  /\ at \in [Processes -> SecretSteps] /\ envelope \in [Processes -> Keys]
  /\ loaded \in [Processes -> SUBSET Fields] /\ repair \in Repairs /\ lockedOut \in BOOLEAN
  /\ backups \in [startup : SUBSET Keys, config : SUBSET Keys]
  /\ written \in [startup : SUBSET (Keys \ {NoKey}), config : SUBSET (Keys \ {NoKey})]

(* A repair runs alone, or beside a server that is up.                     *)
RepairRuns ==
  /\ at["repair"] \in {"down", "unlocks", "loads", "saves"}
  /\ at["repair"] # "down" => at["server"] \in {"down", "up"}
  /\ \A p \in Processes : at[p] = "unlocks" => attempts[p] < MaxAttempts

(* The key a process goes by opens both files; those of two are one.       *)
KeysAgree ==
  /\ \A p \in Processes : at[p] \in Holding =>
       /\ KeyOf(p) # NoKey
       /\ startup.key \in {NoKey, KeyOf(p)} /\ config \in {NoKey, KeyOf(p)}
  /\ at["repair"] # "down" /\ at["server"] = "up" => KeyOf("repair") = KeyOf("server")

(* A reset removes what it has copied.                                     *)
ResetCopies ==
  LET s == at["server"]
  IN  /\ s \in {"backsUpConfig", "removesStartup"} => written.startup \subseteq backups.startup
      /\ s \in {"removesStartup", "stripsConfig"} => written.config \subseteq backups.config
      /\ s \in {"stripsConfig", "newPassphrase"} => startup.key = NoKey
      /\ s = "newPassphrase" => config = NoKey

SecretIInv ==
  /\ SecretTypes /\ RepairRuns /\ KeysAgree /\ ResetCopies
  /\ OneKey /\ NobodyLockedOut /\ NothingDiscarded /\ FieldsStay

(* What a process that saves leaves in startup.json are fields of it.      *)
LEMMA SavedFields ==
  ASSUME SecretTypes, NEW p \in Processes
  PROVE  FieldsToSave(p) \subseteq Fields
BY SecretsAssumption DEF SecretTypes, FieldsToSave

(* The invariant of the secrets holds at the start.                        *)
LEMMA SecretsStart == SecretInit => SecretIInv
<1>. SUFFICES ASSUME SecretInit PROVE SecretIInv
  OBVIOUS
<1>. USE SecretsAssumption DEF SecretInit, NoKey, Processes
<1>1. 0 \in Keys /\ {0} \subseteq Keys /\ MaxAttempts \in Nat /\ MaxKeys \in Nat
  BY DEF Keys
<1>2. SecretTypeOK
  BY <1>1 DEF SecretTypeOK
<1>3. SecretTypes
  BY <1>1, <1>2 DEF SecretTypes, SecretSteps
<1>4. RepairRuns /\ KeysAgree /\ ResetCopies
  BY DEF RepairRuns, KeysAgree, ResetCopies, Holding, KeyOf
<1>5. OneKey /\ NobodyLockedOut /\ NothingDiscarded /\ FieldsStay
  BY DEF OneKey, NobodyLockedOut, NothingDiscarded, FieldsStay
<1>. QED
  BY <1>3, <1>4, <1>5 DEF SecretIInv

(* A process that has read its files holds the key of both.                *)
LEMMA SecretsAreKept == SecretIInv => SecretInv
BY DEF SecretIInv, SecretInv, SecretTypes, HeldKeyOpens, KeysAgree, Opens, Holding,
       KeyOf

(* Where a process moves to, and that the other stays.                     *)
LEMMA ProcessMoves ==
  ASSUME SecretTypes, NEW p \in Processes, NEW next \in SecretSteps, Moves(p, next)
  PROVE  /\ at' \in [Processes -> SecretSteps] /\ at'[p] = next
         /\ \A q \in Processes \ {p} : at'[q] = at[q]
BY DEF SecretTypes, Moves

(* A process that stops forgets its key.                                   *)
LEMMA ProcessStops ==
  ASSUME SecretTypes, NEW p \in Processes, Stops(p)
  PROVE  /\ at' \in [Processes -> SecretSteps] /\ at'[p] = "down"
         /\ memKey' \in [Processes -> Keys]
         /\ \A q \in Processes \ {p} : at'[q] = at[q] /\ memKey'[q] = memKey[q]
<1>1. NoKey \in Keys
  BY SecretsAssumption DEF Keys, NoKey
<1>. QED
  BY <1>1 DEF SecretTypes, SecretTypeOK, Stops, Moves, SecretSteps

(* A start: the key of the files, or none of them has one.                 *)
LEMMA StartKeepsSecrets ==
  ASSUME SecretIInv, NEW p \in Processes, Start(p)
  PROVE  SecretIInv'
<1>. USE SecretsAssumption DEF SecretIInv, NoKey
<1>. DEFINE next == IF Found = NoKey THEN "newPassphrase" ELSE "unlocks"
<1>1. /\ at[p] = "down" /\ \A q \in Processes \ {p} : at[q] = "down" \/ (q = "server" /\ at[q] = "up")
      /\ (Found # NoKey \/ p = "server") /\ Moves(p, next)
      /\ envelope' = [envelope EXCEPT ![p] = Found] /\ attempts' = [attempts EXCEPT ![p] = 0]
      /\ UNCHANGED <<startup, config, backups, written, keysMade, memKey, loaded, lockedOut>>
      /\ repair' \in Repairs
  BY DEF Start, disk, SecretTypes
<1>2. next \in {"newPassphrase", "unlocks"} /\ next \in SecretSteps
  BY DEF SecretSteps
<1>3. /\ at' \in [Processes -> SecretSteps] /\ at'[p] = next
      /\ \A q \in Processes \ {p} : at'[q] = at[q]
  BY <1>1, <1>2, ProcessMoves
<1>4. Found \in Keys
  BY DEF Found, SecretTypes, SecretTypeOK
<1>5. envelope' \in [Processes -> Keys] /\ envelope'[p] = Found
      /\ \A q \in Processes \ {p} : envelope'[q] = envelope[q]
  BY <1>1, <1>4 DEF SecretTypes
<1>6. 0 \in 0..MaxAttempts
  OBVIOUS
<1>7. attempts' \in [Processes -> 0..MaxAttempts] /\ attempts'[p] = 0
      /\ \A q \in Processes \ {p} : attempts'[q] = attempts[q]
  BY <1>1, <1>6 DEF SecretTypes, SecretTypeOK
<1>8. SecretTypes'
  BY <1>1, <1>3, <1>5, <1>7 DEF SecretTypes, SecretTypeOK, Keys
<1>9. RepairRuns'
  BY <1>1, <1>2, <1>3, <1>7 DEF RepairRuns, Processes
<1>10. KeysAgree'
  <2>1. ASSUME NEW q \in Processes, at'[q] \in Holding
        PROVE  /\ KeyOf(q)' # NoKey
               /\ startup'.key \in {NoKey, KeyOf(q)'} /\ config' \in {NoKey, KeyOf(q)'}
    <3>1. CASE q = p
      BY <2>1, <3>1, <1>1, <1>2, <1>3, <1>5 DEF KeyOf, Holding, Found, OneKey
    <3>2. CASE q # p
      BY <2>1, <3>2, <1>1, <1>3, <1>5 DEF KeyOf, Holding, KeysAgree
    <3>. QED
      BY <3>1, <3>2
  <2>2. CASE p = "repair"
    <3>1. Found # NoKey /\ KeyOf("repair")' = Found
      BY <2>2, <1>1, <1>3, <1>5 DEF KeyOf
    <3>2. at'["server"] = "up" => KeyOf("server")' = KeyOf("server") /\ KeyOf("server") # NoKey
              /\ startup.key \in {NoKey, KeyOf("server")} /\ config \in {NoKey, KeyOf("server")}
      BY <2>2, <1>1, <1>3 DEF KeyOf, Holding, KeysAgree, Processes
    <3>. QED
      BY <2>1, <3>1, <3>2 DEF KeysAgree, Found
  <2>3. CASE p = "server"
    BY <2>1, <2>3, <1>2, <1>3 DEF KeysAgree
  <2>. QED
    BY <2>2, <2>3 DEF Processes
<1>11. ResetCopies'
  BY <1>1, <1>2, <1>3 DEF ResetCopies, Found, Processes, RepairRuns
<1>12. (OneKey /\ NobodyLockedOut /\ NothingDiscarded)'
  BY <1>1 DEF OneKey, NobodyLockedOut, NothingDiscarded
<1>13. FieldsStay'
  BY <1>1, <1>2, <1>3 DEF FieldsStay, FieldsToSave, Start
<1>. QED
  BY <1>8, <1>9, <1>10, <1>11, <1>12, <1>13

(* The right passphrase gives the key of the files.                        *)
LEMMA UnlockKeepsSecrets ==
  ASSUME SecretIInv, NEW p \in Processes, Unlock(p)
  PROVE  SecretIInv'
<1>. USE SecretsAssumption DEF SecretIInv, NoKey
<1>1. /\ at[p] = "unlocks" /\ memKey' = [memKey EXCEPT ![p] = envelope[p]] /\ Moves(p, "loads")
      /\ UNCHANGED <<startup, config, backups, written, keysMade, envelope, attempts, loaded, repair, lockedOut>>
  BY DEF Unlock, disk
<1>2. /\ at' \in [Processes -> SecretSteps] /\ at'[p] = "loads"
      /\ \A q \in Processes \ {p} : at'[q] = at[q]
  BY <1>1, ProcessMoves DEF SecretSteps
<1>3. memKey' \in [Processes -> Keys] /\ memKey'[p] = envelope[p]
      /\ \A q \in Processes \ {p} : memKey'[q] = memKey[q]
  BY <1>1 DEF SecretTypes, SecretTypeOK
<1>4. SecretTypes'
  BY <1>1, <1>2, <1>3 DEF SecretTypes, SecretTypeOK, Keys
<1>5. RepairRuns'
  BY <1>1, <1>2 DEF RepairRuns, Processes
<1>6. \A q \in Processes : KeyOf(q)' = KeyOf(q) /\ (at'[q] \in Holding <=> at[q] \in Holding)
  BY <1>1, <1>2, <1>3 DEF KeyOf, Holding
<1>7. KeysAgree'
  BY <1>1, <1>2, <1>6 DEF KeysAgree, Processes
<1>8. (ResetCopies /\ OneKey /\ NobodyLockedOut /\ NothingDiscarded)'
  BY <1>1, <1>2 DEF ResetCopies, OneKey, NobodyLockedOut, NothingDiscarded, Processes
<1>9. FieldsStay'
  BY <1>1, <1>2 DEF FieldsStay, FieldsToSave
<1>. QED
  BY <1>4, <1>5, <1>7, <1>8, <1>9

(* A process ends, wherever it was: nothing else changes.                  *)
LEMMA StopKeepsSecrets ==
  ASSUME SecretIInv, NEW p \in Processes, at[p] # "down", Stops(p),
         UNCHANGED <<startup, config, backups, written, keysMade, envelope, loaded, repair, lockedOut>>,
         attempts' \in [Processes -> 0..MaxAttempts],
         \A q \in Processes \ {p} : attempts'[q] = attempts[q]
  PROVE  SecretIInv'
<1>. USE SecretsAssumption DEF SecretIInv, NoKey
<1>1. /\ at' \in [Processes -> SecretSteps] /\ at'[p] = "down" /\ memKey' \in [Processes -> Keys]
      /\ \A q \in Processes \ {p} : at'[q] = at[q] /\ memKey'[q] = memKey[q]
  BY ProcessStops
<1>2. SecretTypes'
  BY <1>1 DEF SecretTypes, SecretTypeOK, Keys
<1>3. RepairRuns'
  BY <1>1 DEF RepairRuns, Processes
<1>4. KeysAgree'
  BY <1>1 DEF KeysAgree, KeyOf, Holding, Processes
<1>5. (ResetCopies /\ OneKey /\ NobodyLockedOut /\ NothingDiscarded)'
  BY <1>1 DEF ResetCopies, OneKey, NobodyLockedOut, NothingDiscarded, Processes
<1>6. FieldsStay'
  BY <1>1 DEF FieldsStay, FieldsToSave
<1>. QED
  BY <1>2, <1>3, <1>4, <1>5, <1>6

(* A wrong passphrase: one more attempt, an offer, or the end.             *)
LEMMA WrongKeepsSecrets ==
  ASSUME SecretIInv, NEW p \in Processes, WrongPassphrase(p)
  PROVE  SecretIInv'
<1>. USE SecretsAssumption DEF SecretIInv, NoKey
<1>1. /\ at[p] = "unlocks" /\ attempts' = [attempts EXCEPT ![p] = @ + 1]
      /\ UNCHANGED <<startup, config, backups, written, keysMade, envelope, loaded, repair, lockedOut>>
  BY DEF WrongPassphrase, disk
<1>2. attempts[p] \in Nat /\ attempts[p] < MaxAttempts /\ attempts[p] + 1 \in 0..MaxAttempts
  BY <1>1 DEF RepairRuns, SecretTypes, SecretTypeOK
<1>3. attempts' \in [Processes -> 0..MaxAttempts] /\ attempts'[p] = attempts[p] + 1
      /\ \A q \in Processes \ {p} : attempts'[q] = attempts[q]
  BY <1>1, <1>2 DEF SecretTypes, SecretTypeOK
<1>4. CASE attempts[p] + 1 < MaxAttempts
  <2>1. UNCHANGED <<at, memKey>>
    BY <1>4 DEF WrongPassphrase
  <2>2. SecretTypes'
    BY <1>1, <1>3, <2>1 DEF SecretTypes, SecretTypeOK, Keys
  <2>3. RepairRuns'
    BY <1>3, <1>4, <2>1 DEF RepairRuns
  <2>4. (KeysAgree /\ ResetCopies /\ OneKey /\ NobodyLockedOut /\ NothingDiscarded /\ FieldsStay)'
    BY <1>1, <2>1
       DEF KeysAgree, KeyOf, ResetCopies, OneKey, NobodyLockedOut, NothingDiscarded,
       FieldsStay, FieldsToSave
  <2>. QED
    BY <2>2, <2>3, <2>4
<1>5. CASE ~(attempts[p] + 1 < MaxAttempts) /\ p = "repair"
  <2>1. Stops(p)
    BY <1>5 DEF WrongPassphrase
  <2>. QED
    BY <1>1, <1>3, <2>1, StopKeepsSecrets
<1>6. CASE ~(attempts[p] + 1 < MaxAttempts) /\ p # "repair"
  <2>1. Moves(p, "offers") /\ memKey' = memKey /\ p = "server"
    BY <1>6 DEF WrongPassphrase, Processes
  <2>2. /\ at' \in [Processes -> SecretSteps] /\ at'["server"] = "offers" /\ at'["repair"] = at["repair"]
    BY <2>1, ProcessMoves DEF SecretSteps, Processes
  <2>3. SecretTypes'
    BY <1>1, <1>3, <2>1, <2>2 DEF SecretTypes, SecretTypeOK, Keys
  <2>4. at["repair"] = "down" /\ at["server"] = "unlocks"
    BY <1>1, <2>1 DEF RepairRuns
  <2>5. RepairRuns'
    BY <2>2, <2>4 DEF RepairRuns, Processes
  <2>6. KeysAgree'
    BY <1>1, <2>1, <2>2, <2>4 DEF KeysAgree, KeyOf, Holding, Processes
  <2>7. (ResetCopies /\ OneKey /\ NobodyLockedOut /\ NothingDiscarded)'
    BY <1>1, <2>2 DEF ResetCopies, OneKey, NobodyLockedOut, NothingDiscarded
  <2>8. FieldsStay'
    BY <1>1, <2>2, <2>4 DEF FieldsStay, FieldsToSave, Processes
  <2>. QED
    BY <2>3, <2>5, <2>6, <2>7, <2>8
<1>. QED
  BY <1>4, <1>5, <1>6

(* The steps of a reset, which only a server alone takes.                  *)
LEMMA OfferKeepsSecrets ==
  ASSUME SecretIInv, Offer
  PROVE  SecretIInv'
<1>. USE SecretsAssumption DEF SecretIInv, NoKey
<1>1. /\ at["server"] = "offers"
      /\ UNCHANGED <<startup, config, backups, written, keysMade, memKey, envelope, loaded, repair, lockedOut>>
  BY DEF Offer, disk
<1>2. PICK next \in {"unlocks", "backsUpStartup"} :
        /\ Moves("server", next)
        /\ next = "unlocks" => attempts' = [attempts EXCEPT !["server"] = 0]
        /\ next # "unlocks" => attempts' = attempts
  <2>1. CASE Moves("server", "unlocks") /\ attempts' = [attempts EXCEPT !["server"] = 0]
    BY <2>1
  <2>2. CASE Moves("server", "backsUpStartup") /\ UNCHANGED attempts
    BY <2>2
  <2>. QED
    BY <2>1, <2>2 DEF Offer
<1>3. at' \in [Processes -> SecretSteps] /\ at'["server"] = next /\ at'["repair"] = at["repair"]
  BY <1>2, ProcessMoves DEF SecretSteps, Processes
<1>4. 0 \in 0..MaxAttempts
  OBVIOUS
<1>5. attempts' \in [Processes -> 0..MaxAttempts] /\ attempts'["repair"] = attempts["repair"]
      /\ (next = "unlocks" => attempts'["server"] = 0)
  BY <1>2, <1>4 DEF SecretTypes, SecretTypeOK, Processes
<1>6. SecretTypes'
  BY <1>1, <1>3, <1>5 DEF SecretTypes, SecretTypeOK, Keys
<1>7. at["repair"] = "down"
  BY <1>1 DEF RepairRuns
<1>8. RepairRuns'
  BY <1>3, <1>5, <1>7 DEF RepairRuns, Processes
<1>9. KeysAgree'
  BY <1>1, <1>3, <1>7 DEF KeysAgree, KeyOf, Holding, Processes
<1>10. (ResetCopies /\ OneKey /\ NobodyLockedOut /\ NothingDiscarded)'
  BY <1>1, <1>3 DEF ResetCopies, OneKey, NobodyLockedOut, NothingDiscarded
<1>11. FieldsStay'
  BY <1>1, <1>3, <1>7 DEF FieldsStay, FieldsToSave, Processes
<1>. QED
  BY <1>6, <1>8, <1>9, <1>10, <1>11

(* The reset copies both files, removes one and strips the other.          *)
LEMMA ResetKeepsSecrets ==
  ASSUME SecretIInv, BackUp \/ RemoveStartup \/ StripConfig
  PROVE  SecretIInv'
<1>. USE SecretsAssumption DEF SecretIInv, NoKey
<1>1. /\ at["server"] \in {"backsUpStartup", "backsUpConfig", "removesStartup", "stripsConfig"}
      /\ UNCHANGED <<written, keysMade, memKey, envelope, attempts, loaded, repair, lockedOut>>
  BY DEF BackUp, RemoveStartup, StripConfig
<1>2. at["repair"] = "down"
  BY <1>1 DEF RepairRuns
<1>3. PICK next \in {"backsUpConfig", "removesStartup", "stripsConfig", "newPassphrase"} :
        Moves("server", next)
  BY DEF BackUp, RemoveStartup, StripConfig
<1>4. at' \in [Processes -> SecretSteps] /\ at'["server"] = next /\ at'["repair"] = "down"
  BY <1>2, <1>3, ProcessMoves DEF SecretSteps, Processes
<1>5. RepairRuns'
  BY <1>1, <1>4 DEF RepairRuns, Processes
<1>6. KeysAgree'
  BY <1>4 DEF KeysAgree, Holding, Processes
<1>7. FieldsStay' /\ NobodyLockedOut'
  BY <1>1, <1>4 DEF FieldsStay, NobodyLockedOut, Processes
<1>8. ASSUME startup' \in [key : Keys, fields : SUBSET Fields], config' \in Keys,
             backups' \in [startup : SUBSET Keys, config : SUBSET Keys]
      PROVE  SecretTypes'
  BY <1>1, <1>4, <1>8 DEF SecretTypes, SecretTypeOK, Keys
<1>9. startup \in [key : Keys, fields : SUBSET Fields] /\ config \in Keys /\ 0 \in Keys
      /\ backups \in [startup : SUBSET Keys, config : SUBSET Keys]
  BY DEF SecretTypes, SecretTypeOK, Keys
<1>10. CASE /\ at["server"] = "backsUpStartup" /\ Moves("server", "backsUpConfig")
            /\ backups' = [backups EXCEPT !.startup = @ \cup Copied(startup.key)]
            /\ UNCHANGED <<startup, config>>
  <2>1. at'["server"] = "backsUpConfig"
    BY <1>4, <1>10 DEF Moves, SecretTypes, Processes
  <2>2. /\ backups' \in [startup : SUBSET Keys, config : SUBSET Keys] /\ backups'.config = backups.config
        /\ backups'.startup = backups.startup \cup ({startup.key} \ {0})
    BY <1>9, <1>10 DEF Copied
  <2>3. 0 \notin written.startup
    BY DEF SecretTypes
  <2>4. (ResetCopies /\ OneKey /\ NothingDiscarded)'
    BY <1>1, <1>10, <2>1, <2>2, <2>3 DEF ResetCopies, OneKey, NothingDiscarded
  <2>. QED
    BY <1>5, <1>6, <1>7, <1>8, <1>9, <1>10, <2>2, <2>4
<1>11. CASE /\ at["server"] = "backsUpConfig" /\ Moves("server", "removesStartup")
            /\ backups' = [backups EXCEPT !.config = @ \cup Copied(config)]
            /\ UNCHANGED <<startup, config>>
  <2>1. at'["server"] = "removesStartup"
    BY <1>4, <1>11 DEF Moves, SecretTypes, Processes
  <2>2. /\ backups' \in [startup : SUBSET Keys, config : SUBSET Keys] /\ backups'.startup = backups.startup
        /\ backups'.config = backups.config \cup ({config} \ {0})
    BY <1>9, <1>11 DEF Copied
  <2>3. 0 \notin written.config
    BY DEF SecretTypes
  <2>4. (ResetCopies /\ OneKey /\ NothingDiscarded)'
    BY <1>1, <1>11, <2>1, <2>2, <2>3 DEF ResetCopies, OneKey, NothingDiscarded
  <2>. QED
    BY <1>5, <1>6, <1>7, <1>8, <1>9, <1>11, <2>2, <2>4
<1>12. CASE RemoveStartup
  <2>1. /\ at["server"] = "removesStartup" /\ Moves("server", "stripsConfig")
        /\ startup' = [key |-> 0, fields |-> {}] /\ UNCHANGED <<config, backups>>
    BY <1>12 DEF RemoveStartup
  <2>2. at'["server"] = "stripsConfig"
    BY <1>4, <2>1 DEF Moves, SecretTypes, Processes
  <2>3. startup' \in [key : Keys, fields : SUBSET Fields]
    BY <1>9, <2>1
  <2>4. (ResetCopies /\ OneKey /\ NothingDiscarded)'
    BY <1>1, <2>1, <2>2 DEF ResetCopies, OneKey, NothingDiscarded
  <2>. QED
    BY <1>5, <1>6, <1>7, <1>8, <1>9, <2>1, <2>3, <2>4
<1>13. CASE StripConfig
  <2>1. /\ at["server"] = "stripsConfig" /\ Moves("server", "newPassphrase")
        /\ config' = 0 /\ UNCHANGED <<startup, backups>>
    BY <1>13 DEF StripConfig, Stripped
  <2>2. at'["server"] = "newPassphrase"
    BY <1>4, <2>1 DEF Moves, SecretTypes, Processes
  <2>3. (ResetCopies /\ OneKey /\ NothingDiscarded)'
    BY <1>1, <2>1, <2>2 DEF ResetCopies, OneKey, NothingDiscarded
  <2>. QED
    BY <1>5, <1>6, <1>7, <1>8, <1>9, <2>1, <2>3
<1>. QED
  BY <1>10, <1>11, <1>12, <1>13 DEF BackUp

(* A new key is made when no file is under one.                            *)
LEMMA NewKeyKeepsSecrets ==
  ASSUME SecretIInv, NewPassphrase
  PROVE  SecretIInv'
<1>. USE SecretsAssumption DEF SecretIInv, NoKey
<1>1. /\ at["server"] = "newPassphrase" /\ keysMade < MaxKeys /\ keysMade' = keysMade + 1
      /\ memKey' = [memKey EXCEPT !["server"] = keysMade + 1] /\ Moves("server", "loads")
      /\ UNCHANGED <<startup, config, backups, written, envelope, attempts, loaded, repair, lockedOut>>
  BY DEF NewPassphrase, disk
<1>2. at' \in [Processes -> SecretSteps] /\ at'["server"] = "loads" /\ at'["repair"] = at["repair"]
  BY <1>1, ProcessMoves DEF SecretSteps, Processes
<1>3. keysMade' \in 0..MaxKeys /\ keysMade + 1 \in Keys /\ keysMade + 1 # 0
  BY <1>1 DEF SecretTypes, SecretTypeOK, Keys
<1>4. memKey' \in [Processes -> Keys] /\ memKey'["server"] = keysMade + 1
  BY <1>1, <1>3 DEF SecretTypes, SecretTypeOK, Processes
<1>5. SecretTypes'
  BY <1>1, <1>2, <1>3, <1>4 DEF SecretTypes, SecretTypeOK, Keys
<1>6. at["repair"] = "down" /\ startup.key = 0 /\ config = 0
  BY <1>1 DEF RepairRuns, ResetCopies
<1>7. RepairRuns'
  BY <1>1, <1>2, <1>6 DEF RepairRuns, Processes
<1>8. KeysAgree'
  BY <1>1, <1>2, <1>3, <1>4, <1>6 DEF KeysAgree, KeyOf, Holding, Processes
<1>9. (ResetCopies /\ OneKey /\ NobodyLockedOut /\ NothingDiscarded)'
  BY <1>1, <1>2 DEF ResetCopies, OneKey, NobodyLockedOut, NothingDiscarded
<1>10. FieldsStay'
  BY <1>2, <1>6 DEF FieldsStay, Processes
<1>. QED
  BY <1>5, <1>7, <1>8, <1>9, <1>10

(* What is read opens: nobody is locked out.                               *)
LEMMA LoadKeepsSecrets ==
  ASSUME SecretIInv, LoadConfig \/ \E p \in Processes : LoadStartup(p)
  PROVE  SecretIInv'
<1>. USE SecretsAssumption DEF SecretIInv, NoKey
<1>1. ASSUME NEW p \in Processes, at[p] \in {"loads", "loadsConfig"}
      PROVE  Opens(p, startup.key) /\ Opens(p, config)
  BY <1>1 DEF KeysAgree, KeyOf, Holding, Opens
<1>2. ASSUME NEW p \in Processes, NEW next \in {"loadsConfig", "saves", "up"}, Moves(p, next),
             at[p] \in {"loads", "loadsConfig"}, p = "repair" => next = "saves",
             UNCHANGED <<startup, config, backups, written, keysMade, memKey, envelope, attempts,
                         repair, lockedOut>>,
             loaded' \in [Processes -> SUBSET Fields],
             next = "saves" => loaded'[p] = startup.fields,
             \A q \in Processes \ {p} : loaded'[q] = loaded[q]
      PROVE  SecretIInv'
  <2>1. /\ at' \in [Processes -> SecretSteps] /\ at'[p] = next
        /\ \A q \in Processes \ {p} : at'[q] = at[q]
    BY <1>2, ProcessMoves DEF SecretSteps
  <2>2. SecretTypes'
    BY <1>2, <2>1 DEF SecretTypes, SecretTypeOK, Keys
  <2>3. RepairRuns'
    BY <1>2, <2>1 DEF RepairRuns, Processes
  <2>4. \A q \in Processes : KeyOf(q)' = KeyOf(q) /\ (at'[q] \in Holding <=> at[q] \in Holding)
    BY <1>2, <2>1 DEF KeyOf, Holding
  <2>5. KeysAgree'
    <3>1. CASE p = "repair"
      BY <3>1, <1>2, <2>1, <2>4 DEF KeysAgree, Processes
    <3>2. CASE p = "server"
      <4>1. at'["repair"] = "down"
        BY <3>2, <1>2, <2>1 DEF RepairRuns, Processes
      <4>. QED
        BY <4>1, <1>2, <2>4 DEF KeysAgree
    <3>. QED
      BY <3>1, <3>2 DEF Processes
  <2>6. (ResetCopies /\ OneKey /\ NobodyLockedOut /\ NothingDiscarded)'
    BY <1>2, <2>1 DEF ResetCopies, OneKey, NobodyLockedOut, NothingDiscarded, Processes
  <2>7. ASSUME NEW q \in Processes, at'[q] = "saves" PROVE startup'.fields \subseteq FieldsToSave(q)'
    <3>1. CASE q = p
      <4>1. startup.fields \subseteq Fields
        BY DEF SecretTypes, SecretTypeOK
      <4>2. repair \in Repairs
        BY DEF SecretTypes
      <4>. QED
        BY <2>7, <3>1, <4>1, <4>2, <1>2, <2>1 DEF FieldsToSave
    <3>2. CASE q # p
      BY <2>7, <3>2, <1>2, <2>1 DEF FieldsStay, FieldsToSave
    <3>. QED
      BY <3>1, <3>2
  <2>8. FieldsStay'
    BY <2>7 DEF FieldsStay
  <2>. QED
    BY <2>2, <2>3, <2>5, <2>6, <2>8
<1>3. CASE LoadConfig
  <2>1. /\ at["server"] = "loadsConfig" /\ Moves("server", "up")
        /\ UNCHANGED <<startup, config, backups, written, keysMade, memKey, envelope, attempts,
                       loaded, repair, lockedOut>>
    BY <1>1, <1>3 DEF LoadConfig, disk, Processes
  <2>. QED
    BY <1>2, <2>1 DEF Processes, SecretTypes
<1>4. ASSUME NEW p \in Processes, LoadStartup(p) PROVE SecretIInv'
  <2>. DEFINE next == IF p = "server" /\ startup.fields = Fields THEN "loadsConfig" ELSE "saves"
  <2>1. /\ at[p] = "loads" /\ loaded' = [loaded EXCEPT ![p] = startup.fields] /\ Moves(p, next)
        /\ UNCHANGED <<startup, config, backups, written, keysMade, memKey, envelope, attempts,
                       repair, lockedOut>>
    BY <1>1, <1>4 DEF LoadStartup, disk
  <2>2. startup.fields \in SUBSET Fields
    BY DEF SecretTypes, SecretTypeOK
  <2>3. /\ loaded' \in [Processes -> SUBSET Fields] /\ loaded'[p] = startup.fields
        /\ \A q \in Processes \ {p} : loaded'[q] = loaded[q]
    BY <2>1, <2>2 DEF SecretTypes
  <2>4. next \in {"loadsConfig", "saves", "up"} /\ (p = "repair" => next = "saves")
    OBVIOUS
  <2>. HIDE DEF next
  <2>. QED
    BY <1>2, <2>1, <2>3, <2>4
<1>. QED
  BY <1>3, <1>4

(* What is saved is under the key of the other file.                       *)
LEMMA SaveKeepsSecrets ==
  ASSUME SecretIInv, SaveConfig \/ \E p \in Processes : SaveStartup(p)
  PROVE  SecretIInv'
<1>. USE SecretsAssumption DEF SecretIInv, NoKey
<1>1. CASE SaveConfig
  <2>1. /\ at["server"] = "up" /\ config' = memKey["server"]
        /\ written' = [written EXCEPT !.config = @ \cup {memKey["server"]}]
        /\ UNCHANGED <<startup, backups, keysMade, memKey, at, envelope, attempts, loaded, repair, lockedOut>>
    BY <1>1 DEF SaveConfig
  <2>2. /\ memKey["server"] \in Keys \ {0} /\ startup.key \in {0, memKey["server"]}
        /\ config \in {0, memKey["server"]}
        /\ at["repair"] # "down" => KeyOf("repair") = memKey["server"]
    BY <2>1 DEF KeysAgree, KeyOf, Holding, Processes, SecretTypes, SecretTypeOK
  <2>3. /\ written' \in [startup : SUBSET (Keys \ {0}), config : SUBSET (Keys \ {0})]
        /\ written'.startup = written.startup /\ written'.config = written.config \cup {memKey["server"]}
    BY <2>1, <2>2 DEF SecretTypes
  <2>4. SecretTypes'
    BY <2>1, <2>2, <2>3 DEF SecretTypes, SecretTypeOK, Keys
  <2>5. RepairRuns'
    BY <2>1 DEF RepairRuns
  <2>6. KeysAgree'
    BY <2>1, <2>2 DEF KeysAgree, KeyOf, Holding, Processes, RepairRuns
  <2>7. 0 \notin written.config
    BY DEF SecretTypes
  <2>8. (ResetCopies /\ OneKey /\ NobodyLockedOut /\ NothingDiscarded)'
    BY <2>1, <2>2, <2>3, <2>7 DEF ResetCopies, OneKey, NobodyLockedOut, NothingDiscarded
  <2>9. FieldsStay'
    BY <2>1 DEF FieldsStay, FieldsToSave
  <2>. QED
    BY <2>4, <2>5, <2>6, <2>8, <2>9
<1>2. ASSUME NEW p \in Processes, SaveStartup(p) PROVE SecretIInv'
  <2>1. /\ at[p] = "saves" /\ startup' = [key |-> memKey[p], fields |-> FieldsToSave(p)]
        /\ written' = [written EXCEPT !.startup = @ \cup {memKey[p]}]
        /\ UNCHANGED <<config, backups, keysMade, envelope, attempts, loaded, repair, lockedOut>>
    BY <1>2 DEF SaveStartup
  <2>2. /\ memKey[p] \in Keys \ {0} /\ startup.key \in {0, memKey[p]} /\ config \in {0, memKey[p]}
        /\ \A q \in Processes : at[q] \in Holding => KeyOf(q) = memKey[p]
    BY <2>1
       DEF KeysAgree, KeyOf, Holding, Processes, SecretTypes, SecretTypeOK, RepairRuns
  <2>3. /\ written' \in [startup : SUBSET (Keys \ {0}), config : SUBSET (Keys \ {0})]
        /\ written'.config = written.config /\ written'.startup = written.startup \cup {memKey[p]}
    BY <2>1, <2>2 DEF SecretTypes
  <2>4. /\ at' \in [Processes -> SecretSteps] /\ memKey' \in [Processes -> Keys]
        /\ at'[p] = (IF p = "server" THEN "loadsConfig" ELSE "down")
        /\ p = "server" => memKey' = memKey
        /\ \A q \in Processes \ {p} : at'[q] = at[q] /\ memKey'[q] = memKey[q]
    <3>1. CASE p = "server"
      <4>1. Moves(p, "loadsConfig") /\ memKey' = memKey
        BY <1>2, <3>1 DEF SaveStartup
      <4>. QED
        BY <4>1, <3>1, ProcessMoves DEF SecretSteps, SecretTypes, SecretTypeOK
    <3>2. CASE p # "server"
      BY <1>2, <3>2, ProcessStops DEF SaveStartup
    <3>. QED
      BY <3>1, <3>2
  <2>5. startup' \in [key : Keys, fields : SUBSET Fields] /\ startup'.key = memKey[p]
        /\ startup'.fields = FieldsToSave(p)
    BY <2>1, <2>2, SavedFields
  <2>6. SecretTypes'
    BY <2>1, <2>3, <2>4, <2>5 DEF SecretTypes, SecretTypeOK, Keys
  <2>7. RepairRuns'
    BY <2>1, <2>4 DEF RepairRuns, Processes
  <2>8. \A q \in Processes : at'[q] \in Holding => at[q] \in Holding /\ KeyOf(q)' = KeyOf(q)
    BY <2>1, <2>4 DEF KeyOf, Holding
  <2>9. KeysAgree'
    <3>1. at'["repair"] # "down" => at'["repair"] \in Holding
      BY <2>7 DEF RepairRuns, Holding
    <3>. QED
      BY <2>1, <2>2, <2>5, <2>8, <3>1 DEF KeysAgree, Processes, Holding
  <2>10. 0 \notin written.startup
    BY DEF SecretTypes
  <2>11. (ResetCopies /\ OneKey /\ NobodyLockedOut /\ NothingDiscarded)'
    BY <2>1, <2>2, <2>3, <2>4, <2>5, <2>10
       DEF ResetCopies, OneKey, NobodyLockedOut, NothingDiscarded,
       Processes, RepairRuns
  <2>12. FieldsStay'
    BY <2>1, <2>4, <2>5 DEF FieldsStay, FieldsToSave, RepairRuns, Processes
  <2>. QED
    BY <2>6, <2>7, <2>9, <2>11, <2>12
<1>. QED
  BY <1>1, <1>2

(* Every step keeps the invariant of the secrets.                          *)
LEMMA SecretsStep == SecretIInv /\ [SecretNext]_secretVars => SecretIInv'
<1>. SUFFICES ASSUME SecretIInv, [SecretNext]_secretVars PROVE SecretIInv'
  OBVIOUS
<1>1. CASE UNCHANGED secretVars
  BY <1>1
     DEF secretVars, SecretIInv, SecretTypes, SecretTypeOK, RepairRuns, KeysAgree,
         KeyOf,
     ResetCopies, OneKey, NobodyLockedOut, NothingDiscarded, FieldsStay, FieldsToSave, Keys
<1>2. ASSUME NEW p \in Processes, Crash(p) PROVE SecretIInv'
  BY <1>2, StopKeepsSecrets DEF Crash, disk, SecretIInv, SecretTypes, SecretTypeOK
<1>. QED
  BY <1>1, <1>2, StartKeepsSecrets, UnlockKeepsSecrets, WrongKeepsSecrets,
     OfferKeepsSecrets,
     ResetKeepsSecrets, NewKeyKeepsSecrets, LoadKeepsSecrets, SaveKeepsSecrets DEF SecretNext

-----------------------------------------------------------------------------
(* The skills.  What a call has still to do where it is; what an index is. *)
FileOwners == Users \cup {Absent, Untouched}
SkillIndexes == UNION {[D -> FileOwners] : D \in SUBSET SkillNames}
SkillLoads == [gen : Nat, listed : BOOLEAN, todo : SUBSET SkillNames, skills : SkillIndexes]
NothingRead == [n \in {} |-> Absent]

SkillTypes ==
  /\ SkillTypeOK /\ cached \in [some : BOOLEAN, skills : SkillIndexes]
  /\ calls \in [Users -> SkillCalls] /\ alone \in [Users -> BOOLEAN]
  /\ awaits \in [Users -> Nat] /\ builds \subseteq SkillLoads
  /\ \A u \in Users :
       /\ stage[u] \notin {"writes", "over"} => pending[u] = {}
       /\ stage[u] \notin {"removes", "over"} => removing[u] = {}

(* A change that is alone finds what it has written, and nothing it has    *)
(* neither to keep nor to remove.                                          *)
AloneSave ==
  \A u \in Users : alone[u] =>
    /\ \A w \in Users \ {u} : AtRest(w)
    /\ stage[u] \in {"writes", "removes"} =>
         /\ \A n \in calls[u].names \ pending[u] : files[n] = u
         /\ \A n \in removing[u] : n \notin calls[u].names
         /\ stage[u] = "removes" =>
              \A n \in SkillNames \ calls[u].names : n \in removing[u] \/ files[n] = Absent

(* A load that is not of this generation is not the one in flight.         *)
LoadsInv ==
  /\ AwaitedIsInFlight
  /\ \A b \in builds :
       /\ b.gen <= generation /\ (b.gen = generation => building)
       /\ ~b.listed => b.todo = {} /\ b.skills = NothingRead

(* Unless a change is under way, or one was not followed by an             *)
(* invalidation, what was read since the last one is what is there.        *)
Changing == {u \in Users : stage[u] \in {"writes", "removes", "unlinked"}}
ReadSoFar(b) ==
  b.listed => b.todo \subseteq Existing /\ b.skills = [n \in Existing \ b.todo |-> files[n]]
IndexInv ==
  ~strays /\ Changing = {} =>
    /\ cached.some => cached.skills = [n \in Existing |-> files[n]]
    /\ \A b \in builds : b.gen = generation => ReadSoFar(b)

SkillIInv == SkillTypes /\ AloneSave /\ LoadsInv /\ IndexInv

(* An index is a function on some of the names.                            *)
LEMMA IndexTypes ==
  /\ NothingRead \in SkillIndexes
  /\ \A s \in SkillIndexes : DOMAIN s \subseteq SkillNames /\ s \in [DOMAIN s -> FileOwners]
  /\ \A D \in SUBSET SkillNames : \A s \in [D -> FileOwners] : s \in SkillIndexes
<1>1. NothingRead \in [{} -> FileOwners]
  BY DEF NothingRead
<1>2. \A D \in SUBSET SkillNames : \A s \in [D -> FileOwners] : s \in SkillIndexes
  BY DEF SkillIndexes
<1>3. ASSUME NEW s \in SkillIndexes
      PROVE  DOMAIN s \subseteq SkillNames /\ s \in [DOMAIN s -> FileOwners]
  <2>1. PICK D \in SUBSET SkillNames : s \in [D -> FileOwners]
    BY DEF SkillIndexes
  <2>. QED
    BY <2>1
<1>. QED
  BY <1>1, <1>2, <1>3

(* The invariant of the skills holds at the start.                         *)
LEMMA SkillsStart == SkillInit => SkillIInv
<1>. SUFFICES ASSUME SkillInit PROVE SkillIInv
  OBVIOUS
<1>1. cached = [some |-> FALSE, skills |-> NothingRead] /\ NothingRead \in SkillIndexes
  BY IndexTypes DEF SkillInit, NotCached, NothingRead
<1>2. DOMAIN cached.skills \subseteq SkillNames
  BY <1>1 DEF NothingRead
<1>3. SkillTypeOK
  <2>1. cached.some \in BOOLEAN /\ building \in BOOLEAN /\ strays \in BOOLEAN
    <3>1. cached.some = FALSE /\ building = FALSE /\ strays = FALSE
      BY <1>1 DEF SkillInit
    <3>. QED
      BY <3>1, Zenon
  <2>2. files \in [SkillNames -> Users \cup {Absent, Untouched}]
    BY DEF SkillInit
  <2>. QED
    BY <1>2, <2>1, <2>2 DEF SkillInit, SkillTypeOK
<1>4. SkillTypes
  BY <1>1, <1>3 DEF SkillInit, SkillTypes
<1>5. AloneSave /\ LoadsInv
  BY DEF SkillInit, AloneSave, LoadsInv, AwaitedIsInFlight
<1>6. IndexInv
  BY <1>1 DEF SkillInit, IndexInv
<1>. QED
  BY <1>4, <1>5, <1>6 DEF SkillIInv

(* What the invariant says of the skills is what the model promises.       *)
LEMMA SkillsAreKept == SkillIInv => SkillInv
<1>. SUFFICES ASSUME SkillIInv PROVE SkillInv
  OBVIOUS
<1>. USE DEF SkillIInv
<1>1. IndexIsFresh
  BY DEF IndexIsFresh, IndexInv, Changing, AtRest
<1>2. ASSUME NEW u \in Users, stage[u] = "removes", removing[u] = {}, alone[u]
      PROVE  files = [n \in SkillNames |-> IF n \in calls[u].names THEN u ELSE Absent]
  <2>1. pending[u] = {}
    BY <1>2 DEF SkillTypes
  <2>2. files \in [SkillNames -> FileOwners]
    BY DEF SkillTypes, SkillTypeOK, FileOwners
  <2>3. \A n \in SkillNames : files[n] = IF n \in calls[u].names THEN u ELSE Absent
    BY <1>2, <2>1 DEF AloneSave
  <2>. QED
    BY <2>2, <2>3
<1>3. SaveIsExact
  BY <1>2 DEF SaveIsExact
<1>. QED
  BY <1>1, <1>3 DEF SkillInv, SkillTypes, LoadsInv

(* invalidate() makes every load in flight one of an earlier generation.   *)
LEMMA InvalidateKeepsLoads ==
  ASSUME SkillIInv, Invalidate, UNCHANGED <<builds, awaits>>,
         \A u \in Users : stage'[u] = "awaits" => stage[u] = "awaits"
  PROVE  /\ LoadsInv' /\ IndexInv'
         /\ cached' \in [some : BOOLEAN, skills : SkillIndexes]
         /\ cached'.some \in BOOLEAN /\ building' \in BOOLEAN /\ generation' \in Nat
         /\ DOMAIN cached'.skills \subseteq SkillNames
<1>. USE DEF SkillIInv
<1>1. cached' = [some |-> FALSE, skills |-> NothingRead] /\ building' = FALSE
      /\ generation' = generation + 1 /\ generation \in Nat
  BY DEF Invalidate, NotCached, NothingRead, SkillTypes, SkillTypeOK
<1>2. \A b \in builds : b.gen \in Nat /\ b.gen <= generation
  BY DEF LoadsInv, SkillTypes, SkillLoads
<1>3. LoadsInv'
  BY <1>1, <1>2 DEF LoadsInv, AwaitedIsInFlight
<1>4. IndexInv'
  BY <1>1, <1>2 DEF IndexInv
<1>5. cached' \in [some : BOOLEAN, skills : SkillIndexes]
  BY <1>1, IndexTypes
<1>6. DOMAIN cached'.skills \subseteq SkillNames
  BY <1>1 DEF NothingRead
<1>7. cached'.some \in BOOLEAN /\ building' \in BOOLEAN /\ generation' \in Nat
  <2>1. cached'.some = FALSE
    BY <1>1
  <2>2. generation' \in Nat
    BY <1>1
  <2>. QED
    BY <1>1, <2>1, <2>2, Zenon
<1>. QED
  BY <1>3, <1>4, <1>5, <1>6, <1>7

(* While the files, the index and the loads stay, so does what is said of  *)
(* them, unless a change ends.                                             *)
LEMMA SameIndexKeepsLoads ==
  ASSUME SkillIInv, SameIndex, UNCHANGED <<builds, awaits>>,
         \A u \in Users : stage'[u] = "awaits" => stage[u] = "awaits",
         \/ strays'
         \/ \E u \in Users : stage'[u] \in {"writes", "removes", "unlinked"}
         \/ UNCHANGED <<files, strays>> /\ Changing \subseteq Changing'
  PROVE  LoadsInv' /\ IndexInv'
<1>. USE DEF SkillIInv
<1>1. UNCHANGED <<cached, building, generation>>
  BY DEF SameIndex
<1>2. LoadsInv'
  BY <1>1 DEF LoadsInv, AwaitedIsInFlight
<1>3. CASE strays' \/ \E u \in Users : stage'[u] \in {"writes", "removes", "unlinked"}
  <2>1. CASE strays'
    BY <1>2, <2>1 DEF IndexInv
  <2>2. CASE \E u \in Users : stage'[u] \in {"writes", "removes", "unlinked"}
    <3>1. Changing' # {}
      BY <2>2 DEF Changing
    <3>. QED
      BY <1>2, <3>1 DEF IndexInv
  <2>. QED
    BY <1>3, <2>1, <2>2
<1>4. CASE UNCHANGED <<files, strays>> /\ Changing \subseteq Changing'
  <2>1. Existing' = Existing
    BY <1>4 DEF Existing
  <2>2. \A b \in builds : ReadSoFar(b)' <=> ReadSoFar(b)
    BY <1>4, <2>1 DEF ReadSoFar
  <2>3. Changing' = {} => Changing = {}
    BY <1>4
  <2>4. SUFFICES ASSUME ~strays, Changing = {}
                 PROVE  /\ cached.some => cached.skills = [n \in Existing' |-> files[n]]
                        /\ \A b \in builds : b.gen = generation => ReadSoFar(b)'
    BY <1>1, <1>2, <1>4, <2>3 DEF IndexInv
  <2>. QED
    BY <2>1, <2>2, <2>4 DEF IndexInv
<1>. QED
  BY <1>2, <1>3, <1>4

SkillStages == {"idle", "writes", "removes", "unlinked", "awaits", "picks", "over"}

(* Where a call moves to, and that the others stay.                        *)
LEMMA StageMoves ==
  ASSUME SkillTypes, NEW u \in Users, NEW next \in SkillStages, Stage(u, next)
  PROVE  /\ stage' \in [Users -> SkillStages] /\ stage'[u] = next
         /\ \A w \in Users \ {u} : stage'[w] = stage[w]
BY DEF SkillTypes, SkillTypeOK, SkillStages, Stage

(* The types, taken apart, before and after a step.                        *)
SkillTypeParts ==
  /\ files \in [SkillNames -> FileOwners]
  /\ cached.some \in BOOLEAN /\ building \in BOOLEAN /\ strays \in BOOLEAN /\ generation \in Nat
  /\ DOMAIN cached.skills \subseteq SkillNames
  /\ stage \in [Users -> SkillStages]
  /\ pending \in [Users -> SUBSET SkillNames] /\ removing \in [Users -> SUBSET SkillNames]
  /\ cached \in [some : BOOLEAN, skills : SkillIndexes]
  /\ calls \in [Users -> SkillCalls] /\ alone \in [Users -> BOOLEAN]
  /\ awaits \in [Users -> Nat] /\ builds \subseteq SkillLoads
  /\ \A u \in Users :
       /\ stage[u] \notin {"writes", "over"} => pending[u] = {}
       /\ stage[u] \notin {"removes", "over"} => removing[u] = {}

(* The types of the skills hold exactly when their parts do.               *)
LEMMA SkillTypesAre == (SkillTypes <=> SkillTypeParts) /\ (SkillTypes' <=> SkillTypeParts')
<1>1. {cached.some, building, strays} \subseteq BOOLEAN <=>
        cached.some \in BOOLEAN /\ building \in BOOLEAN /\ strays \in BOOLEAN
  BY Zenon
<1>2. ({cached.some, building, strays} \subseteq BOOLEAN)' <=>
        (cached.some \in BOOLEAN /\ building \in BOOLEAN /\ strays \in BOOLEAN)'
  BY Zenon
<1>. QED
  BY <1>1, <1>2 DEF SkillTypes, SkillTypeOK, FileOwners, SkillStages, SkillTypeParts

(* A change begins: it is alone if all the others are at rest.             *)
LEMMA BeginsAlone ==
  ASSUME NEW u \in Users, Begins(u)
  PROVE  /\ alone' \in [Users -> BOOLEAN]
         /\ \A v \in Users : alone'[v] => v = u /\ \A w \in Users : AtRest(w)
BY DEF Begins

(* The beginning of a save.                                                *)
LEMMA SaveComesKeepsSkills ==
  ASSUME SkillIInv, NEW u \in Users, SaveComes(u)
  PROVE  SkillIInv'
<1>. USE SkillAssumption DEF SkillIInv
<1>1. /\ stage[u] = "idle" /\ calls[u].kind = "save" /\ Stage(u, "writes") /\ Begins(u) /\ SameIndex
      /\ pending' = [pending EXCEPT ![u] = calls[u].names]
      /\ UNCHANGED <<files, builds, calls, removing, awaits, strays, cached, building, generation>>
  BY DEF SaveComes, SameIndex
<1>2. /\ stage' \in [Users -> SkillStages] /\ stage'[u] = "writes"
      /\ \A w \in Users \ {u} : stage'[w] = stage[w]
  BY <1>1, StageMoves DEF SkillStages
<1>3. calls[u] \in SkillCalls /\ calls[u].names \subseteq SkillNames
  BY DEF SkillTypes
<1>4. /\ pending' \in [Users -> SUBSET SkillNames] /\ pending'[u] = calls[u].names
      /\ \A w \in Users \ {u} : pending'[w] = pending[w]
  BY <1>1, <1>3 DEF SkillTypes, SkillTypeOK
<1>5. /\ alone' \in [Users -> BOOLEAN]
      /\ \A v \in Users : alone'[v] => v = u /\ \A w \in Users : AtRest(w)
  BY <1>1, BeginsAlone
<1>6. SkillTypes'
  BY <1>1, <1>2, <1>4, <1>5, SkillTypesAre DEF SkillTypeParts
<1>7. \A w \in Users \ {u} : AtRest(w) => AtRest(w)'
  BY <1>1, <1>2, <1>4 DEF AtRest
<1>8. removing[u] = {}
  BY <1>1, SkillTypesAre DEF SkillTypeParts
<1>9. AloneSave'
  BY <1>1, <1>2, <1>4, <1>5, <1>7, <1>8 DEF AloneSave
<1>10. LoadsInv' /\ IndexInv'
  BY <1>1, <1>2, SameIndexKeepsLoads
<1>. QED
  BY <1>6, <1>9, <1>10

(* The beginning of a deletion, which may be its end.                      *)
LEMMA DeleteComesKeepsSkills ==
  ASSUME SkillIInv, NEW u \in Users, DeleteComes(u)
  PROVE  SkillIInv'
<1>. USE SkillAssumption DEF SkillIInv
<1>1. /\ stage[u] = "idle" /\ calls[u].kind = "delete" /\ Begins(u) /\ SameIndex
      /\ UNCHANGED <<builds, calls, pending, removing, awaits, strays, cached, building, generation>>
  BY DEF DeleteComes, SameIndex
<1>2. PICK n \in calls[u].names :
        IF files[n] = Absent THEN Stage(u, "over") /\ UNCHANGED files
        ELSE Stage(u, "unlinked") /\ files' = [files EXCEPT ![n] = Absent]
  BY DEF DeleteComes
<1>3. PICK next \in {"over", "unlinked"} :
        /\ Stage(u, next) /\ (next = "over" => UNCHANGED files)
        /\ next = "unlinked" => files' = [files EXCEPT ![n] = Absent]
  BY <1>2
<1>4. /\ stage' \in [Users -> SkillStages] /\ stage'[u] = next
      /\ \A w \in Users \ {u} : stage'[w] = stage[w]
  BY <1>3, StageMoves DEF SkillStages
<1>5. files' \in [SkillNames -> FileOwners]
  BY <1>3, SkillTypesAre DEF SkillTypeParts, FileOwners
<1>6. /\ alone' \in [Users -> BOOLEAN]
      /\ \A v \in Users : alone'[v] => v = u /\ \A w \in Users : AtRest(w)
  BY <1>1, BeginsAlone
<1>7. SkillTypes'
  BY <1>1, <1>4, <1>5, <1>6, SkillTypesAre DEF SkillTypeParts
<1>8. AloneSave'
  BY <1>1, <1>4, <1>6 DEF AloneSave, AtRest
<1>9. Changing \subseteq Changing' /\ (next = "unlinked" => stage'[u] = "unlinked")
  BY <1>1, <1>4 DEF Changing
<1>10. LoadsInv' /\ IndexInv'
  BY <1>1, <1>3, <1>4, <1>9, SameIndexKeepsLoads
<1>. QED
  BY <1>7, <1>8, <1>10

(* One of the concurrent writes or removals of a save, done, failed, or    *)
(* come after its call has failed.                                         *)
LEMMA OneOfManyKeepsSkills ==
  ASSUME SkillIInv, NEW u \in Users, NEW n \in SkillNames,
         NEW waitsAt \in {"writes", "removes"}, NEW what \in {u, Absent},
         waitsAt = "writes" => n \in pending[u] /\ what = u /\ removing' = removing
                               /\ pending' = [pending EXCEPT ![u] = @ \ {n}],
         waitsAt = "removes" => n \in removing[u] /\ what = Absent /\ pending' = pending
                                /\ removing' = [removing EXCEPT ![u] = @ \ {n}],
         \/ /\ files' = [files EXCEPT ![n] = what] /\ strays' = (strays \/ stage[u] = "over")
            /\ UNCHANGED stage /\ SameIndex
         \/ stage[u] = waitsAt /\ Fails(u) /\ UNCHANGED files
         \/ stage[u] = "over" /\ UNCHANGED <<files, stage, strays>> /\ SameIndex,
         UNCHANGED <<builds, calls, awaits, alone>>
  PROVE  SkillIInv'
<1>. USE SkillAssumption DEF SkillIInv
<1>1. stage[u] \in {waitsAt, "over"}
  BY SkillTypesAre DEF SkillTypeParts
<1>2. /\ pending' \in [Users -> SUBSET SkillNames] /\ removing' \in [Users -> SUBSET SkillNames]
      /\ \A w \in Users \ {u} : pending'[w] = pending[w] /\ removing'[w] = removing[w]
      /\ waitsAt = "writes" => pending'[u] = pending[u] \ {n} /\ removing'[u] = removing[u]
      /\ waitsAt = "removes" => pending'[u] = pending[u] /\ removing'[u] = removing[u] \ {n}
  <2>1. pending \in [Users -> SUBSET SkillNames] /\ removing \in [Users -> SUBSET SkillNames]
    BY SkillTypesAre DEF SkillTypeParts
  <2>2. CASE waitsAt = "writes"
    BY <2>1, <2>2
  <2>3. CASE waitsAt = "removes"
    BY <2>1, <2>3
  <2>. QED
    BY <2>2, <2>3
<1>3. \A v \in Users : alone[v] => v = u
  BY DEF AloneSave, AtRest
<1>4. CASE /\ files' = [files EXCEPT ![n] = what] /\ strays' = (strays \/ stage[u] = "over")
           /\ UNCHANGED stage /\ SameIndex
  <2>1. /\ files' \in [SkillNames -> FileOwners] /\ files'[n] = what
        /\ \A m \in SkillNames \ {n} : files'[m] = files[m]
    BY <1>4, SkillTypesAre DEF SkillTypeParts, FileOwners
  <2>2. strays' \in BOOLEAN
    BY <1>4
  <2>3. SkillTypes'
    BY <1>2, <1>4, <2>1, <2>2, SkillTypesAre DEF SkillTypeParts, SameIndex
  <2>4. \A w \in Users \ {u} : AtRest(w)' <=> AtRest(w)
    BY <1>2, <1>4 DEF AtRest
  <2>5. calls[u].names \subseteq SkillNames
    BY SkillTypesAre DEF SkillTypeParts
  <2>6. ASSUME alone[u], stage[u] \in {"writes", "removes"}
        PROVE  /\ \A m \in calls[u].names \ pending'[u] : files'[m] = u
               /\ \A m \in removing'[u] : m \notin calls[u].names
               /\ stage[u] = "removes" =>
                    \A m \in SkillNames \ calls[u].names : m \in removing'[u] \/ files'[m] = Absent
    BY <1>1, <1>2, <2>1, <2>5, <2>6 DEF AloneSave
  <2>7. AloneSave'
    BY <1>3, <1>4, <2>4, <2>6 DEF AloneSave
  <2>8. LoadsInv' /\ IndexInv'
    BY <1>1, <1>4, SameIndexKeepsLoads
  <2>. QED
    BY <2>3, <2>7, <2>8
<1>5. CASE stage[u] = waitsAt /\ Fails(u) /\ UNCHANGED files
  <2>1. /\ stage' \in [Users -> SkillStages] /\ stage'[u] = "over" /\ Invalidate /\ strays' = FALSE
        /\ \A w \in Users \ {u} : stage'[w] = stage[w]
    BY <1>5, StageMoves DEF SkillStages, Fails
  <2>2. /\ LoadsInv' /\ IndexInv' /\ cached' \in [some : BOOLEAN, skills : SkillIndexes]
        /\ cached'.some \in BOOLEAN /\ building' \in BOOLEAN /\ generation' \in Nat
        /\ DOMAIN cached'.skills \subseteq SkillNames
    BY <2>1, InvalidateKeepsLoads
  <2>3. SkillTypes'
    BY <1>2, <1>5, <2>1, <2>2, SkillTypesAre DEF SkillTypeParts
  <2>4. AloneSave'
    BY <1>2, <1>3, <2>1 DEF AloneSave, AtRest
  <2>. QED
    BY <2>2, <2>3, <2>4
<1>6. CASE stage[u] = "over" /\ UNCHANGED <<files, stage, strays>> /\ SameIndex
  <2>1. SkillTypes'
    BY <1>2, <1>6, SkillTypesAre DEF SkillTypeParts, SameIndex
  <2>2. AloneSave'
    BY <1>2, <1>3, <1>6 DEF AloneSave, AtRest
  <2>3. Changing' = Changing
    BY <1>6 DEF Changing
  <2>4. LoadsInv' /\ IndexInv'
    BY <1>6, <2>3, SameIndexKeepsLoads
  <2>. QED
    BY <2>1, <2>2, <2>4
<1>. QED
  BY <1>4, <1>5, <1>6

(* What is to be removed is what is there and not to be kept.              *)
LEMMA SaveListsKeepsSkills ==
  ASSUME SkillIInv, NEW u \in Users, SaveLists(u)
  PROVE  SkillIInv'
<1>. USE DEF SkillIInv
<1>1. /\ stage[u] = "writes" /\ pending[u] = {} /\ Stage(u, "removes") /\ SameIndex
      /\ removing' = [removing EXCEPT ![u] = Existing \ calls[u].names]
      /\ UNCHANGED <<files, builds, calls, pending, awaits, alone, strays, cached, building, generation>>
  BY DEF SaveLists, SameIndex, Outdated
<1>2. /\ stage' \in [Users -> SkillStages] /\ stage'[u] = "removes"
      /\ \A w \in Users \ {u} : stage'[w] = stage[w]
  BY <1>1, StageMoves, SkillTypesAre DEF SkillStages
<1>3. Existing \subseteq SkillNames /\ \A n \in SkillNames : n \in Existing <=> files[n] # Absent
  BY DEF Existing
<1>4. /\ removing' \in [Users -> SUBSET SkillNames] /\ removing'[u] = Existing \ calls[u].names
      /\ \A w \in Users \ {u} : removing'[w] = removing[w]
  BY <1>1, <1>3, SkillTypesAre DEF SkillTypeParts
<1>5. SkillTypes'
  BY <1>1, <1>2, <1>4, SkillTypesAre DEF SkillTypeParts
<1>6. \A v \in Users : alone[v] => v = u
  BY <1>1 DEF AloneSave, AtRest
<1>7. AloneSave'
  BY <1>1, <1>2, <1>3, <1>4, <1>6 DEF AloneSave, AtRest
<1>8. LoadsInv' /\ IndexInv'
  BY <1>1, <1>2, SameIndexKeepsLoads
<1>. QED
  BY <1>5, <1>7, <1>8

(* A change ends, and with it the index, unless that is forgotten.         *)
LEMMA ChangeEndsKeepsSkills ==
  ASSUME SkillIInv, NEW u \in Users, SaveEnds(u) \/ DeleteEnds(u)
  PROVE  SkillIInv'
<1>. USE DEF SkillIInv
<1>1. /\ stage[u] \in {"removes", "unlinked"} /\ pending[u] = {} /\ removing[u] = {} /\ Stage(u, "over")
      /\ UNCHANGED <<files, builds, calls, pending, removing, awaits, alone>>
  BY SkillTypesAre DEF SaveEnds, DeleteEnds, SkillTypeParts
<1>2. /\ stage' \in [Users -> SkillStages] /\ stage'[u] = "over"
      /\ \A w \in Users \ {u} : stage'[w] = stage[w]
  BY <1>1, StageMoves, SkillTypesAre DEF SkillStages
<1>3. \A v \in Users : alone[v] => v = u
  BY <1>1 DEF AloneSave, AtRest
<1>4. AloneSave'
  BY <1>1, <1>2, <1>3 DEF AloneSave, AtRest
<1>5. CASE Invalidate /\ strays' = FALSE
  <2>1. /\ LoadsInv' /\ IndexInv' /\ cached' \in [some : BOOLEAN, skills : SkillIndexes]
        /\ cached'.some \in BOOLEAN /\ building' \in BOOLEAN /\ generation' \in Nat
        /\ DOMAIN cached'.skills \subseteq SkillNames
    BY <1>1, <1>2, <1>5, InvalidateKeepsLoads
  <2>2. SkillTypes'
    BY <1>1, <1>2, <1>5, <2>1, SkillTypesAre DEF SkillTypeParts
  <2>. QED
    BY <1>4, <2>1, <2>2
<1>6. CASE SameIndex /\ strays' = TRUE
  <2>1. LoadsInv' /\ IndexInv'
    BY <1>1, <1>2, <1>6, SameIndexKeepsLoads
  <2>2. SkillTypes'
    BY <1>1, <1>2, <1>6, SkillTypesAre DEF SkillTypeParts, SameIndex
  <2>. QED
    BY <1>4, <2>1, <2>2
<1>. QED
  BY <1>5, <1>6 DEF SaveEnds, DeleteEnds

(* A selection answers from the cache, joins a load or begins the only one *)
(* of its generation.                                                      *)
LEMMA SelectKeepsSkills ==
  ASSUME SkillIInv, NEW u \in Users, SelectComes(u) \/ Pick(u)
  PROVE  SkillIInv'
<1>. USE DEF SkillIInv
<1>1. CASE \/ stage[u] = "idle" /\ Stage(u, "picks") /\ UNCHANGED <<building, builds, awaits, cached, generation>>
           \/ Pick(u)
  <2>1. PICK next \in {"picks", "over"} : Stage(u, next)
    BY <1>1 DEF Pick
  <2>2. /\ stage' \in [Users -> SkillStages] /\ stage'[u] = next
        /\ \A w \in Users \ {u} : stage'[w] = stage[w]
    BY <2>1, StageMoves DEF SkillStages
  <2>3. /\ stage[u] \in {"idle", "picks"} /\ SameIndex
        /\ UNCHANGED <<files, builds, calls, pending, removing, awaits, alone, strays>>
    BY <1>1 DEF SelectComes, Pick, SameIndex
  <2>4. SkillTypes'
    BY <2>2, <2>3, SkillTypesAre DEF SkillTypeParts, SameIndex
  <2>5. AloneSave'
    BY <2>2, <2>3 DEF AloneSave, AtRest
  <2>6. Changing \subseteq Changing'
    BY <2>2, <2>3 DEF Changing
  <2>7. LoadsInv' /\ IndexInv'
    BY <2>2, <2>3, <2>6, SameIndexKeepsLoads
  <2>. QED
    BY <2>4, <2>5, <2>7
<1>2. CASE /\ SelectComes(u) /\ ~cached.some /\ Stage(u, "awaits")
           /\ awaits' = [awaits EXCEPT ![u] = generation] /\ building' = TRUE
  <2>. DEFINE new == [gen |-> generation, listed |-> FALSE, todo |-> {}, skills |-> NothingRead]
  <2>1. /\ stage[u] = "idle" /\ builds' = (IF building THEN builds ELSE builds \cup {new})
        /\ UNCHANGED <<files, cached, generation, calls, pending, removing, alone, strays>>
    BY <1>2 DEF SelectComes, NothingRead
  <2>2. /\ stage' \in [Users -> SkillStages] /\ stage'[u] = "awaits"
        /\ \A w \in Users \ {u} : stage'[w] = stage[w]
    BY <1>2, StageMoves DEF SkillStages
  <2>3. generation \in Nat /\ builds \subseteq SkillLoads
    BY SkillTypesAre DEF SkillTypeParts
  <2>4. new \in SkillLoads
    BY <2>3, IndexTypes DEF SkillLoads
  <2>5. builds' \subseteq SkillLoads
    BY <2>1, <2>3, <2>4
  <2>6. /\ awaits' \in [Users -> Nat] /\ awaits'[u] = generation
        /\ \A w \in Users \ {u} : awaits'[w] = awaits[w]
    BY <1>2, <2>3, SkillTypesAre DEF SkillTypeParts
  <2>7. SkillTypes'
    BY <1>2, <2>1, <2>2, <2>5, <2>6, SkillTypesAre DEF SkillTypeParts
  <2>8. AloneSave'
    BY <2>1, <2>2 DEF AloneSave, AtRest
  <2>9. new.gen = generation /\ new.listed = FALSE /\ new.todo = {} /\ new.skills = NothingRead
    OBVIOUS
  <2>. HIDE DEF new
  <2>10. \E b \in builds' : b.gen = generation
    BY <2>1, <2>9 DEF LoadsInv, AwaitedIsInFlight
  <2>11. \A b, d \in builds' : b.gen = d.gen => b = d
    BY <2>1, <2>9 DEF LoadsInv, AwaitedIsInFlight
  <2>12. \A w \in Users : stage'[w] = "awaits" => \E b \in builds' : b.gen = awaits'[w]
    BY <2>1, <2>2, <2>6, <2>10 DEF LoadsInv, AwaitedIsInFlight
  <2>13. \A b \in builds' : /\ b.gen <= generation
                            /\ ~b.listed => b.todo = {} /\ b.skills = NothingRead
    BY <2>1, <2>3, <2>9 DEF LoadsInv
  <2>14. LoadsInv'
    BY <1>2, <2>1, <2>10, <2>11, <2>12, <2>13 DEF LoadsInv, AwaitedIsInFlight
  <2>15. Changing' = Changing /\ Existing' = Existing
    BY <2>1, <2>2 DEF Changing, Existing
  <2>16. \A b \in builds : ReadSoFar(b)' <=> ReadSoFar(b)
    BY <2>1, <2>15 DEF ReadSoFar
  <2>17. \A b : ~b.listed => ReadSoFar(b)'
    BY DEF ReadSoFar
  <2>18. IndexInv'
    BY <1>2, <2>1, <2>9, <2>15, <2>16, <2>17 DEF IndexInv
  <2>. QED
    BY <2>7, <2>8, <2>14, <2>18
<1>. QED
  BY <1>1, <1>2 DEF SelectComes

(* A load goes on by one step: the others stay as they are.                *)
LEMMA LoadMovesKeepsSkills ==
  ASSUME SkillIInv, NEW b \in builds, NEW d \in SkillLoads, d.gen = b.gen, d.listed,
         builds' = (builds \ {b}) \cup {d},
         ReadSoFar(b) => ReadSoFar(d),
         UNCHANGED <<files, stage, calls, pending, removing, awaits, alone, strays, cached, building,
                     generation>>
  PROVE  SkillIInv'
<1>. USE DEF SkillIInv
<1>1. builds' \subseteq SkillLoads
  BY SkillTypesAre DEF SkillTypeParts
<1>2. SkillTypes'
  BY <1>1, SkillTypesAre DEF SkillTypeParts
<1>3. AloneSave'
  BY DEF AloneSave, AtRest
<1>4. \A g \in Nat : (\E x \in builds : x.gen = g) <=> \E x \in builds' : x.gen = g
  OBVIOUS
<1>5. \A x, y \in builds' : x.gen = y.gen => x = y
  BY DEF LoadsInv, AwaitedIsInFlight
<1>6. /\ \A w \in Users : stage[w] = "awaits" => \E x \in builds' : x.gen = awaits[w]
      /\ building => \E x \in builds' : x.gen = generation
  BY <1>4 DEF LoadsInv, AwaitedIsInFlight
<1>7. LoadsInv'
  BY <1>5, <1>6 DEF LoadsInv, AwaitedIsInFlight
<1>8. Changing' = Changing /\ Existing' = Existing
  BY DEF Changing, Existing
<1>9. \A x : ReadSoFar(x)' <=> ReadSoFar(x)
  BY <1>8 DEF ReadSoFar
<1>10. IndexInv'
  BY <1>8, <1>9 DEF IndexInv
<1>. QED
  BY <1>2, <1>3, <1>7, <1>10

(* A build of the index reads the files one after the other.               *)
LEMMA BuildReadsKeepsSkills ==
  ASSUME SkillIInv, NEW b \in builds, BuildLists(b) \/ \E n \in SkillNames : BuildReads(b, n)
  PROVE  SkillIInv'
<1>. USE DEF SkillIInv
<1>1. b \in SkillLoads /\ Existing \subseteq SkillNames
  BY SkillTypesAre DEF SkillTypeParts, Existing
<1>2. CASE BuildLists(b)
  <2>. DEFINE d == [b EXCEPT !.listed = TRUE, !.todo = Existing]
  <2>1. d \in SkillLoads /\ d.gen = b.gen /\ d.listed /\ d.todo = Existing /\ d.skills = b.skills
    BY <1>1 DEF SkillLoads
  <2>2. b.skills = NothingRead
    BY <1>2 DEF BuildLists, LoadsInv
  <2>3. NothingRead = [n \in Existing \ Existing |-> files[n]]
    BY DEF NothingRead
  <2>4. ReadSoFar(d)
    BY <2>1, <2>2, <2>3 DEF ReadSoFar
  <2>5. builds' = (builds \ {b}) \cup {d}
    BY <1>2 DEF BuildLists
  <2>. HIDE DEF d
  <2>. QED
    BY <1>2, <2>1, <2>4, <2>5, LoadMovesKeepsSkills DEF BuildLists, SameIndex
<1>3. ASSUME NEW n \in SkillNames, BuildReads(b, n) PROVE SkillIInv'
  <2>. DEFINE s == IF files[n] = Absent THEN b.skills
                   ELSE [m \in DOMAIN b.skills \cup {n} |-> IF m = n THEN files[n] ELSE b.skills[m]]
              d == [b EXCEPT !.todo = @ \ {n}, !.skills = s]
  <2>1. n \in b.todo /\ builds' = (builds \ {b}) \cup {d}
    BY <1>3 DEF BuildReads
  <2>2. b.listed
    BY <2>1 DEF LoadsInv
  <2>3. b.skills \in SkillIndexes /\ files[n] \in FileOwners
    BY <1>1, SkillTypesAre DEF SkillTypeParts, SkillLoads
  <2>4. DOMAIN b.skills \cup {n} \in SUBSET SkillNames /\ b.skills \in [DOMAIN b.skills -> FileOwners]
    BY <2>3, IndexTypes
  <2>5. s \in SkillIndexes
    <3>1. CASE files[n] = Absent
      BY <2>3, <3>1
    <3>2. CASE files[n] # Absent
      <4>1. s \in [DOMAIN b.skills \cup {n} -> FileOwners]
        BY <2>3, <2>4, <3>2
      <4>. QED
        BY <2>4, <4>1, IndexTypes
    <3>. QED
      BY <3>1, <3>2
  <2>6. ASSUME ReadSoFar(b)
        PROVE  b.todo \ {n} \subseteq Existing /\ s = [m \in Existing \ (b.todo \ {n}) |-> files[m]]
    <3>1. b.todo \subseteq Existing /\ b.skills = [m \in Existing \ b.todo |-> files[m]]
      BY <2>2, <2>6 DEF ReadSoFar
    <3>2. files[n] # Absent /\ Existing \ (b.todo \ {n}) = (Existing \ b.todo) \cup {n}
      BY <2>1, <3>1 DEF Existing
    <3>. QED
      BY <3>1, <3>2
  <2>. HIDE DEF s
  <2>7. /\ d \in SkillLoads /\ d.gen = b.gen /\ d.listed = b.listed /\ d.todo = b.todo \ {n}
        /\ d.skills = s
    BY <1>1, <2>5 DEF SkillLoads
  <2>. HIDE DEF d
  <2>8. ReadSoFar(b) => ReadSoFar(d)
    BY <2>6, <2>7 DEF ReadSoFar
  <2>. QED
    BY <1>3, <2>1, <2>2, <2>7, <2>8, LoadMovesKeepsSkills DEF BuildReads, SameIndex
<1>. QED
  BY <1>2, <1>3

(* A load ends, and whoever waits for it is answered; the cache gets what  *)
(* was read only if nothing was invalidated since.                         *)
LEMMA BuildEndsKeepsSkills ==
  ASSUME SkillIInv, NEW b \in builds, BuildSettles(b) \/ BuildFails(b)
  PROVE  SkillIInv'
<1>. USE DEF SkillIInv
<1>1. /\ builds' = builds \ {b} /\ building' = (building /\ b.gen # generation)
      /\ UNCHANGED <<generation, files, calls, pending, removing, awaits, alone, strays>>
  BY DEF BuildSettles, BuildFails, AfterFailure
<1>2. PICK next \in {"picks", "over"} :
        stage' = [u \in Users |-> IF u \in Waiting(b) THEN next ELSE stage[u]]
  BY DEF BuildSettles, BuildFails
<1>3. /\ stage' \in [Users -> SkillStages]
      /\ \A u \in Users : \/ stage'[u] = stage[u] /\ ~(stage[u] = "awaits" /\ awaits[u] = b.gen)
                          \/ stage[u] = "awaits" /\ stage'[u] = next
  BY <1>2, SkillTypesAre DEF Waiting, SkillStages, SkillTypeParts
<1>4. b \in SkillLoads /\ b.gen \in Nat /\ b.skills \in SkillIndexes
  BY SkillTypesAre DEF SkillTypeParts, SkillLoads
<1>5. /\ cached' \in [some : BOOLEAN, skills : SkillIndexes] /\ cached'.some \in BOOLEAN
      /\ DOMAIN cached'.skills \subseteq SkillNames
      /\ cached' = cached \/ /\ b.gen = generation /\ cached'.skills = b.skills
                             /\ b.listed /\ b.todo = {}
  <2>1. CASE BuildSettles(b) /\ b.gen = generation
    <3>1. cached' = [some |-> TRUE, skills |-> b.skills] /\ b.listed /\ b.todo = {}
      BY <2>1 DEF BuildSettles
    <3>2. cached'.some = TRUE
      BY <3>1
    <3>. QED
      BY <1>4, <2>1, <3>1, <3>2, IndexTypes
  <2>2. CASE cached' = cached
    BY <2>2, SkillTypesAre DEF SkillTypeParts
  <2>. QED
    BY <2>1, <2>2 DEF BuildSettles, BuildFails
<1>6. building' \in BOOLEAN
  BY <1>1
<1>7. SkillTypes'
  BY <1>1, <1>3, <1>5, <1>6, SkillTypesAre DEF SkillTypeParts
<1>8. AloneSave'
  BY <1>1, <1>3 DEF AloneSave, AtRest
<1>9. /\ \A u \in Users : stage'[u] = "awaits" => \E x \in builds' : x.gen = awaits[u]
      /\ building' => \E x \in builds' : x.gen = generation
      /\ \A x \in builds' : x.gen # b.gen
  BY <1>1, <1>3 DEF LoadsInv, AwaitedIsInFlight
<1>10. LoadsInv'
  BY <1>1, <1>9 DEF LoadsInv, AwaitedIsInFlight
<1>11. Changing' = Changing /\ Existing' = Existing
  BY <1>1, <1>3 DEF Changing, Existing
<1>12. \A x : ReadSoFar(x)' <=> ReadSoFar(x)
  BY <1>1, <1>11 DEF ReadSoFar
<1>13. SUFFICES ASSUME ~strays, Changing = {}
                PROVE  /\ cached'.some => cached'.skills = [n \in Existing |-> files[n]]
                       /\ \A x \in builds' : x.gen = generation => ReadSoFar(x)
  BY <1>1, <1>7, <1>8, <1>10, <1>11, <1>12 DEF IndexInv
<1>14. b.gen = generation /\ b.listed /\ b.todo = {} => b.skills = [n \in Existing |-> files[n]]
  <2>. SUFFICES ASSUME b.gen = generation, b.listed, b.todo = {}
                PROVE  b.skills = [n \in Existing |-> files[n]]
    OBVIOUS
  <2>1. b.skills = [n \in Existing \ {} |-> files[n]]
    BY <1>13 DEF IndexInv, ReadSoFar
  <2>2. Existing \ {} = Existing
    OBVIOUS
  <2>. QED
    BY <2>1, <2>2
<1>. QED
  BY <1>1, <1>5, <1>13, <1>14 DEF IndexInv

(* Every step keeps the invariant of the skills.                           *)
LEMMA SkillsStep == SkillIInv /\ [SkillNext]_skillVars => SkillIInv'
<1>. SUFFICES ASSUME SkillIInv, [SkillNext]_skillVars PROVE SkillIInv'
  OBVIOUS
<1>1. CASE UNCHANGED skillVars
  <2>1. Existing' = Existing /\ Changing' = Changing
    BY <1>1 DEF skillVars, Existing, Changing
  <2>2. \A x : ReadSoFar(x)' <=> ReadSoFar(x)
    BY <1>1, <2>1 DEF skillVars, ReadSoFar
  <2>a. SkillTypes'
    BY <1>1, SkillTypesAre DEF skillVars, SkillIInv, SkillTypeParts
  <2>b. AloneSave'
    BY <1>1 DEF skillVars, SkillIInv, AloneSave, AtRest
  <2>c. LoadsInv'
    BY <1>1 DEF skillVars, SkillIInv, LoadsInv, AwaitedIsInFlight
  <2>3. SkillTypes' /\ AloneSave' /\ LoadsInv'
    BY <2>a, <2>b, <2>c
  <2>4. IndexInv'
    BY <1>1, <2>1, <2>2 DEF skillVars, SkillIInv, IndexInv
  <2>. QED
    BY <2>3, <2>4 DEF SkillIInv
<1>2. ASSUME NEW u \in Users, NEW n \in SkillNames, Write(u, n) PROVE SkillIInv'
  BY <1>2, OneOfManyKeepsSkills DEF Write
<1>3. ASSUME NEW u \in Users, NEW n \in SkillNames, Unlink(u, n) PROVE SkillIInv'
  <2>1. /\ n \in removing[u] /\ pending' = pending /\ removing' = [removing EXCEPT ![u] = @ \ {n}]
        /\ UNCHANGED <<builds, calls, awaits, alone>>
        /\ \/ /\ files' = [files EXCEPT ![n] = Absent] /\ strays' = (strays \/ stage[u] = "over")
              /\ UNCHANGED stage /\ SameIndex
           \/ stage[u] = "removes" /\ Fails(u) /\ UNCHANGED files
           \/ stage[u] = "over" /\ UNCHANGED <<files, stage, strays>> /\ SameIndex
    BY <1>3 DEF Unlink
  <2>2. "removes" \in {"writes", "removes"} /\ Absent \in {u, Absent} /\ "removes" # "writes"
    OBVIOUS
  <2>. QED
    BY <2>1, <2>2, OneOfManyKeepsSkills
<1>4. ASSUME NEW u \in Users, UserStep(u) PROVE SkillIInv'
  <2>1. CASE \E n \in SkillNames : Write(u, n) \/ Unlink(u, n)
    BY <1>2, <1>3, <2>1
  <2>2. CASE SaveComes(u) \/ SaveLists(u) \/ DeleteComes(u)
    BY <2>2, SaveComesKeepsSkills, SaveListsKeepsSkills, DeleteComesKeepsSkills
  <2>3. CASE SaveEnds(u) \/ DeleteEnds(u)
    BY <2>3, ChangeEndsKeepsSkills
  <2>4. CASE SelectComes(u) \/ Pick(u)
    BY <2>4, SelectKeepsSkills
  <2>. QED
    BY <1>4, <2>1, <2>2, <2>3, <2>4 DEF UserStep
<1>5. CASE BuildStep
  BY <1>5, BuildReadsKeepsSkills, BuildEndsKeepsSkills DEF BuildStep
<1>. QED
  BY <1>1, <1>4, <1>5 DEF SkillNext

-----------------------------------------------------------------------------
(* The memory of tasks.  A line of the session file is the header of a     *)
(* block or a line of a text that looks like one.                          *)
MemLine == [of : Texts, number : Nat]
Judged == {"write", "session", "append", "learn"}
Recorded == {"learn", "gone"}

MemTypes ==
  /\ MemTypeOK
  /\ ok \in [MemTasks -> BOOLEAN] /\ verdict \in [MemTasks -> Outcomes \cup {"none"}]
  /\ experiences \in [MemTasks -> [outcome : Outcomes \cup {"none"}, logged : SUBSET Logs]]
  /\ sessionFile \in Seq(MemLine) /\ copy \in [MemTasks -> Seq(MemLine)]
  /\ told \in Seq(MemTasks) /\ mixed \in BOOLEAN /\ lateLogs \subseteq MemTasks /\ resets \in Nat

(* A block has the number of its line, and no task has two.                *)
WellNumbered(content) ==
  /\ \A i \in 1..Len(content) : content[i].number \in {0, i}
  /\ \A i, j \in 1..Len(content) :
       content[i].number > 0 /\ content[j].number > 0 /\ content[i].of = content[j].of => i = j

(* No block is of a task that has still to append its own.                 *)
OnlyOfRecorded(content) ==
  \A i \in 1..Len(content) : content[i].number > 0 =>
    content[i].of \in MemTasks /\ memStage[content[i].of] \in Recorded

(* Unless writers overlapped, the file has the tasks that were told so,    *)
(* in that order, and so has what an append() has read of it.              *)
ToldIn(content, tasks) ==
  /\ \A i \in 1..Len(content) : content[i].number > 0 =>
       \E n \in 1..Len(tasks) : content[i].of = tasks[n]
  /\ \A n \in 1..Len(tasks) : \E i \in 1..Len(content) :
       content[i].number > 0 /\ content[i].of = tasks[n]
  /\ \A m, n \in 1..Len(tasks) : m < n =>
       \A i, j \in 1..Len(content) :
         content[i].number > 0 /\ content[i].of = tasks[m] /\
         content[j].number > 0 /\ content[j].of = tasks[n] => i < j
SessionIInv ==
  /\ WellNumbered(sessionFile) /\ OnlyOfRecorded(sessionFile)
  /\ \A t \in MemTasks : WellNumbered(copy[t]) /\ OnlyOfRecorded(copy[t])
  /\ ~mixed => ToldIn(sessionFile, told) /\ \A t \in MemTasks : memStage[t] = "append" => copy[t] = sessionFile

(* The outcome is that of what was logged before it was derived; a tool    *)
(* that is in flight after its turn makes the task one that logs late.     *)
VerdictHolds(t) ==
  /\ verdict[t] # "none" /\ (verdict[t] = "success") = ok[t]
  /\ verdict[t] = "partial" => logged[t] # {}
  /\ verdict[t] = "failure" /\ logged[t] # {} => t \in lateLogs
TaskVerdict(t) ==
  /\ memStage[t] \in {"idle", "context", "snapshot"} => inTool[t] = {}
  /\ memStage[t] # "turn" /\ inTool[t] # {} => t \in lateLogs
  /\ memStage[t] \in Judged \/ experiences[t] # NoRecord => VerdictHolds(t)
  /\ experiences[t] # NoRecord =>
       /\ memStage[t] \in (Judged \ {"write"}) \cup {"gone"}
       /\ experiences[t].outcome = verdict[t] /\ experiences[t].logged \subseteq logged[t]
       /\ verdict[t] = "partial" => experiences[t].logged # {}
VerdictsInv == \A t \in MemTasks : TaskVerdict(t)

(* Who is about to learn has an experience on disk, and something to learn.*)
LearningInv ==
  /\ \A t \in MemTasks : memStage[t] \in Judged \ {"write"} => experiences[t] # NoRecord
  /\ \A t \in extracting : experiences[t] # NoRecord /\ WorthLearning(t)

MemIInv ==
  MemTypes /\ NoRecordLeaks /\ SessionIInv /\ VerdictsInv /\ LearningInv /\ LearnedFromStored

(* The lines of a text are no blocks.                                      *)
LEMMA LinesOfTexts ==
  ASSUME NEW x \in Texts
  PROVE  /\ TextLines(x) \in Seq(MemLine) /\ Len(TextLines(x)) \in Nat
         /\ \A i \in 1..Len(TextLines(x)) : TextLines(x)[i].number = 0
<1>1. HeaderLike[x] \in Nat
  BY MemoryAssumption
<1>2. [of |-> x, number |-> 0] \in MemLine
  BY DEF MemLine
<1>3. TextLines(x) \in [1..HeaderLike[x] -> MemLine]
  BY <1>2 DEF TextLines
<1>4. TextLines(x) \in Seq(MemLine)
  BY <1>1, <1>3, IsASeq
<1>5. DOMAIN TextLines(x) = 1..HeaderLike[x] /\ DOMAIN TextLines(x) = 1..Len(TextLines(x))
  BY <1>4, LenProperties DEF TextLines
<1>6. Len(TextLines(x)) \in Nat
  BY <1>4
<1>. QED
  BY <1>4, <1>5, <1>6 DEF TextLines

(* What the invariant says of the memory is what the model promises.       *)
LEMMA MemoryIsKept == MemIInv => MemoryInv
<1>. SUFFICES ASSUME MemIInv PROVE MemoryInv
  OBVIOUS
<1>1. /\ MemTypes /\ NoRecordLeaks /\ SessionIInv /\ VerdictsInv /\ LearnedFromStored
      /\ sessionFile \in Seq(MemLine) /\ WellNumbered(sessionFile)
  BY DEF MemIInv, MemTypes, SessionIInv
<1>2. ASSUME NEW t \in MemTasks, experiences[t] # NoRecord
      PROVE  /\ (experiences[t].outcome = "success") = ok[t]
             /\ experiences[t].outcome = "partial" => experiences[t].logged # {}
             /\ experiences[t].outcome = "failure" /\ experiences[t].logged # {} => t \in lateLogs
  <2>1. /\ VerdictHolds(t) /\ experiences[t].outcome = verdict[t]
        /\ experiences[t].logged \subseteq logged[t]
        /\ verdict[t] = "partial" => experiences[t].logged # {}
    BY <1>1, <1>2 DEF VerdictsInv, TaskVerdict
  <2>2. (verdict[t] = "success") = ok[t]
    BY <2>1 DEF VerdictHolds
  <2>3. experiences[t].outcome = "failure" /\ experiences[t].logged # {} => t \in lateLogs
    BY <2>1 DEF VerdictHolds
  <2>. QED
    BY <2>1, <2>2, <2>3, Zenon
<1>3. OutcomeIsOfActivity
  BY <1>2 DEF OutcomeIsOfActivity
<1>4. BlocksNumbered
  <2>1. \A i \in TaskBlocks(sessionFile) : i \in 1..Len(sessionFile) /\ sessionFile[i].number > 0
    BY DEF TaskBlocks
  <2>2. \A i \in 1..Len(sessionFile) : sessionFile[i].number \in {0, i}
    BY <1>1 DEF WellNumbered
  <2>3. \A i \in TaskBlocks(sessionFile) : sessionFile[i].number = i
    BY <2>1, <2>2
  <2>4. \A i, j \in TaskBlocks(sessionFile) : sessionFile[i].of = sessionFile[j].of => i = j
    BY <1>1, <2>1 DEF WellNumbered
  <2>. QED
    BY <2>3, <2>4 DEF BlocksNumbered
<1>5. SessionKeepsTasks
  <2>. SUFFICES ASSUME ~mixed, ToldIn(sessionFile, told) PROVE SessionKeepsTasks
    BY <1>1 DEF SessionIInv, SessionKeepsTasks
  <2>1. \A i \in TaskBlocks(sessionFile) : \E n \in 1..Len(told) : sessionFile[i].of = told[n]
    BY DEF ToldIn, TaskBlocks
  <2>2. \A n \in 1..Len(told) : BlockOf(told[n]) # {}
    BY DEF ToldIn, TaskBlocks, BlockOf
  <2>3. \A m, n \in 1..Len(told) :
          m < n => \A i \in BlockOf(told[m]), j \in BlockOf(told[n]) : i < j
    BY DEF ToldIn, TaskBlocks, BlockOf
  <2>. QED
    BY <2>1, <2>2, <2>3 DEF SessionKeepsTasks
<1>. QED
  BY <1>1, <1>3, <1>4, <1>5 DEF MemoryInv, MemTypes

(* The invariant of the memory holds at the start.                         *)
LEMMA MemoryStart == MemInit => MemIInv
<1>. SUFFICES ASSUME MemInit PROVE MemIInv
  OBVIOUS
<1>. USE DEF MemInit
<1>1. NoRecord \in [outcome : Outcomes \cup {"none"}, logged : SUBSET Logs]
  BY DEF NoRecord, Outcomes, Logs
<1>2. MemTypes
  <2>1. MemTypeOK
    BY DEF MemTypeOK, MemStages
  <2>2. /\ ok \in [MemTasks -> BOOLEAN] /\ verdict \in [MemTasks -> Outcomes \cup {"none"}]
        /\ experiences \in [MemTasks -> [outcome : Outcomes \cup {"none"}, logged : SUBSET Logs]]
    BY <1>1
  <2>3. /\ sessionFile \in Seq(MemLine) /\ copy \in [MemTasks -> Seq(MemLine)]
        /\ told \in Seq(MemTasks) /\ lateLogs \subseteq MemTasks /\ resets \in Nat
    OBVIOUS
  <2>4. mixed \in BOOLEAN
    OBVIOUS
  <2>. QED
    BY <2>1, <2>2, <2>3, <2>4 DEF MemTypes
<1>3. SessionIInv
  BY DEF SessionIInv, WellNumbered, OnlyOfRecorded, ToldIn
<1>4. NoRecordLeaks /\ VerdictsInv /\ LearningInv /\ LearnedFromStored
  BY DEF NoRecordLeaks, VerdictsInv, TaskVerdict, LearningInv, LearnedFromStored, Judged
<1>. QED
  BY <1>2, <1>3, <1>4 DEF MemIInv

(* Where a pipeline goes on, and that the others stay.                     *)
LEMMA PipelineMoves ==
  ASSUME MemTypes, NEW t \in MemTasks, NEW next \in MemStages, To(t, next)
  PROVE  /\ memStage' \in [MemTasks -> MemStages] /\ memStage'[t] = next
         /\ \A u \in MemTasks \ {t} : memStage'[u] = memStage[u]
BY DEF MemTypes, MemTypeOK, To

(* The session is as it was while nobody reads or writes it.               *)
LEMMA SessionStays ==
  ASSUME SessionIInv, UNCHANGED <<sessionFile, told, mixed, copy>>,
         \A u \in MemTasks : memStage[u] \in Recorded => memStage'[u] \in Recorded,
         \A u \in MemTasks : memStage'[u] = "append" => memStage[u] = "append"
  PROVE  SessionIInv'
<1>1. WellNumbered(sessionFile)' /\ \A t \in MemTasks : WellNumbered(copy[t])'
  BY DEF SessionIInv, WellNumbered
<1>2. OnlyOfRecorded(sessionFile)' /\ \A t \in MemTasks : OnlyOfRecorded(copy[t])'
  BY DEF SessionIInv, OnlyOfRecorded
<1>3. ToldIn(sessionFile, told) => ToldIn(sessionFile, told)'
  BY DEF ToldIn
<1>. QED
  BY <1>1, <1>2, <1>3 DEF SessionIInv

(* The file is replaced, by whoever does not read it at the moment.        *)
LEMMA SessionReplaced ==
  ASSUME SessionIInv, NEW t \in MemTasks \cup {"none"}, NEW content, Replace(content, t),
         WellNumbered(content), OnlyOfRecorded(content)',
         \A u \in MemTasks : copy'[u] = copy[u] \/ copy'[u] = <<>>,
         \A u \in MemTasks : memStage[u] \in Recorded => memStage'[u] \in Recorded,
         \A u \in MemTasks : memStage'[u] = "append" => memStage[u] = "append" /\ u # t,
         ~mixed => ToldIn(sessionFile, told)'
  PROVE  SessionIInv'
<1>1. sessionFile' = content /\ mixed' = (mixed \/ \E u \in MemTasks \ {t} : memStage[u] = "append")
  BY DEF Replace
<1>2. WellNumbered(sessionFile)' /\ OnlyOfRecorded(sessionFile)'
  BY <1>1 DEF WellNumbered, OnlyOfRecorded
<1>3. ASSUME NEW u \in MemTasks PROVE WellNumbered(copy[u])' /\ OnlyOfRecorded(copy[u])'
  <2>1. CASE copy'[u] = copy[u]
    BY <2>1 DEF SessionIInv, WellNumbered, OnlyOfRecorded
  <2>2. CASE copy'[u] = <<>>
    BY <2>2 DEF WellNumbered, OnlyOfRecorded
  <2>. QED
    BY <2>1, <2>2
<1>4. ASSUME ~mixed' PROVE ToldIn(sessionFile, told)' /\ \A u \in MemTasks : memStage'[u] # "append"
  BY <1>1, <1>4
<1>. QED
  BY <1>2, <1>3, <1>4 DEF SessionIInv

(* The other tasks' verdicts stand.                                        *)
LEMMA VerdictsStay ==
  ASSUME VerdictsInv, NEW t \in MemTasks, TaskVerdict(t)', lateLogs \subseteq lateLogs',
         \A u \in MemTasks \ {t} :
           /\ memStage'[u] = memStage[u] /\ inTool'[u] = inTool[u] /\ logged'[u] = logged[u]
           /\ ok'[u] = ok[u] /\ verdict'[u] = verdict[u] /\ experiences'[u] = experiences[u]
  PROVE  VerdictsInv'
BY DEF VerdictsInv, TaskVerdict, VerdictHolds

(* What is to be learned stays worth it.                                   *)
LEMMA LearningStays ==
  ASSUME LearningInv, LearnedFromStored, VerdictsInv,
         MemTypes, NEW t \in MemTasks, UNCHANGED <<learned, extracting>>,
         \A u \in MemTasks \ {t} : memStage'[u] = memStage[u] /\ verdict'[u] = verdict[u],
         \A u \in MemTasks : experiences[u] # NoRecord =>
           experiences'[u] # NoRecord /\ verdict'[u] = verdict[u],
         \A u \in MemTasks : logged[u] \subseteq logged'[u],
         memStage'[t] \in Judged \ {"write"} => experiences'[t] # NoRecord
  PROVE  LearningInv' /\ LearnedFromStored'
<1>1. extracting \subseteq MemTasks /\ learned \subseteq MemTasks \X {"outcome", "fix"}
  BY DEF MemTypes, MemTypeOK
<1>2. LearningInv'
  BY <1>1 DEF LearningInv, WorthLearning
<1>3. LearnedFromStored'
  <2>1. ASSUME NEW r \in learned
        PROVE  /\ experiences'[r[1]] # NoRecord
               /\ (r[2] = "fix" \/ verdict'[r[1]] = "failure") => "escalation" \in logged'[r[1]]
    <3>1. r[1] \in MemTasks
      BY <1>1
    <3>. QED
      BY <3>1 DEF LearnedFromStored
  <2>. QED
    BY <2>1 DEF LearnedFromStored
<1>. QED
  BY <1>2, <1>3

(* The steps of a task up to the end of its turn.                          *)
LEMMA TurnKeepsMemory ==
  ASSUME MemIInv, NEW t \in MemTasks, StartRecord(t) \/ PrepareContext(t) \/ RunAgentTurn(t)
  PROVE  MemIInv'
<1>. USE DEF MemIInv
<1>1. PICK next \in {"context", "snapshot", "turn", "finish"} :
        /\ To(t, next)
        /\ memStage[t] = "turn" => next = "finish"
  BY DEF StartRecord, PrepareContext, RunAgentTurn
<1>2. /\ memStage[t] \in {"idle", "context", "turn"}
      /\ UNCHANGED <<logged, inTool, verdict, experiences, sessionFile, told, mixed, copy, learned,
                     extracting, resets>>
  BY DEF StartRecord, PrepareContext, RunAgentTurn, sessionVars
<1>3. /\ memStage' \in [MemTasks -> MemStages] /\ memStage'[t] = next
      /\ \A u \in MemTasks \ {t} : memStage'[u] = memStage[u]
  BY <1>1, PipelineMoves DEF MemStages
<1>4. /\ activeRecords' \subseteq activeRecords \cup {t}
      /\ ok' \in [MemTasks -> BOOLEAN] /\ \A u \in MemTasks \ {t} : ok'[u] = ok[u]
      /\ lateLogs' = lateLogs \/ lateLogs' = lateLogs \cup {t}
      /\ memStage[t] = "turn" /\ inTool[t] # {} => t \in lateLogs'
  BY DEF StartRecord, PrepareContext, RunAgentTurn, MemTypes
<1>5. MemTypes'
  BY <1>2, <1>3, <1>4 DEF MemTypes, MemTypeOK
<1>6. NoRecordLeaks'
  BY <1>3, <1>4 DEF NoRecordLeaks
<1>7. SessionIInv'
  BY <1>2, <1>3, SessionStays DEF Recorded
<1>8. TaskVerdict(t)
  BY DEF VerdictsInv
<1>9. experiences[t] = NoRecord
  BY <1>2, <1>8 DEF TaskVerdict, Judged
<1>10. TaskVerdict(t)'
  BY <1>1, <1>2, <1>3, <1>4, <1>8, <1>9 DEF TaskVerdict, Judged
<1>11. VerdictsInv'
  BY <1>2, <1>3, <1>4, <1>10, VerdictsStay
<1>12. LearningInv' /\ LearnedFromStored'
  BY <1>2, <1>3, LearningStays DEF Judged
<1>. QED
  BY <1>5, <1>6, <1>7, <1>11, <1>12

(* A tool begins, and logs when it is done.                                *)
LEMMA ToolsKeepMemory ==
  ASSUME MemIInv, NEW t \in MemTasks, NEW what \in Logs, ToolBegins(t, what) \/ Log(t, what)
  PROVE  MemIInv'
<1>. USE DEF MemIInv
<1>1. UNCHANGED <<memStage, activeRecords, ok, verdict, experiences, sessionFile, told, mixed, copy,
                  learned, extracting, resets, lateLogs>>
  BY DEF ToolBegins, Log, sessionVars
<1>2. /\ inTool \in [MemTasks -> SUBSET Logs] /\ logged \in [MemTasks -> SUBSET Logs]
      /\ inTool[t] \subseteq Logs /\ logged[t] \subseteq Logs
  BY DEF MemTypes, MemTypeOK
<1>3. /\ inTool' \in [MemTasks -> SUBSET Logs] /\ \A u \in MemTasks \ {t} : inTool'[u] = inTool[u]
      /\ logged' \in [MemTasks -> SUBSET Logs] /\ \A u \in MemTasks \ {t} : logged'[u] = logged[u]
      /\ logged[t] \subseteq logged'[t]
      /\ logged'[t] # logged[t] => inTool[t] # {} /\ inTool'[t] \subseteq inTool[t]
      /\ memStage[t] = "turn" \/ inTool'[t] \subseteq inTool[t]
  <2>1. CASE ToolBegins(t, what)
    <3>1. /\ inTool' = [inTool EXCEPT ![t] = inTool[t] \cup {what}] /\ logged' = logged
          /\ memStage[t] = "turn"
      BY <2>1 DEF ToolBegins
    <3>2. inTool[t] \cup {what} \in SUBSET Logs
      BY <1>2
    <3>. QED
      BY <1>2, <3>1, <3>2
  <2>2. CASE Log(t, what)
    <3>. DEFINE afterwards == IF t \in activeRecords THEN logged[t] \cup {what} ELSE logged[t]
    <3>1. /\ what \in inTool[t] /\ inTool' = [inTool EXCEPT ![t] = inTool[t] \ {what}]
          /\ logged' = [logged EXCEPT ![t] = afterwards]
      BY <2>2 DEF Log
    <3>2. inTool[t] \ {what} \in SUBSET Logs /\ afterwards \in SUBSET Logs /\ logged[t] \subseteq afterwards
      BY <1>2
    <3>. HIDE DEF afterwards
    <3>. QED
      BY <1>2, <3>1, <3>2
  <2>. QED
    BY <2>1, <2>2
<1>4. MemTypes'
  BY <1>1, <1>2, <1>3 DEF MemTypes, MemTypeOK
<1>5. NoRecordLeaks'
  BY <1>1 DEF NoRecordLeaks
<1>6. SessionIInv'
  BY <1>1, SessionStays
<1>7. TaskVerdict(t)
  BY DEF VerdictsInv
<1>8. experiences[t] # NoRecord \/ memStage[t] \in Judged => memStage[t] # "turn"
  BY <1>7 DEF TaskVerdict, Judged
<1>9. memStage[t] \in Judged \/ experiences[t] # NoRecord => VerdictHolds(t)'
  BY <1>1, <1>3, <1>7, <1>8 DEF TaskVerdict, VerdictHolds
<1>10. TaskVerdict(t)'
  <2>1. memStage[t] \in {"idle", "context", "snapshot"} => inTool'[t] = {}
    BY <1>3, <1>7 DEF TaskVerdict
  <2>2. memStage[t] # "turn" /\ inTool'[t] # {} => t \in lateLogs
    BY <1>3, <1>7 DEF TaskVerdict
  <2>3. experiences[t] # NoRecord =>
         /\ memStage[t] \in (Judged \ {"write"}) \cup {"gone"}
         /\ experiences[t].outcome = verdict[t] /\ experiences[t].logged \subseteq logged'[t]
         /\ verdict[t] = "partial" => experiences[t].logged # {}
    BY <1>3, <1>7 DEF TaskVerdict
  <2>. QED
    BY <1>1, <1>9, <2>1, <2>2, <2>3 DEF TaskVerdict
<1>11. VerdictsInv'
  BY <1>1, <1>3, <1>10, VerdictsStay
<1>12. LearningInv' /\ LearnedFromStored'
  BY <1>1, <1>3, LearningStays DEF LearningInv
<1>. QED
  BY <1>4, <1>5, <1>6, <1>11, <1>12

(* The file becomes a snapshot, or goes: no task is in it.                 *)
LEMMA SnapshotKeepsMemory ==
  ASSUME MemIInv, ClearSession \/ Explore \/ \E t \in MemTasks : AppendWorkspaceSnapshot(t)
  PROVE  MemIInv'
<1>. USE DEF MemIInv
<1>. DEFINE listing == TextLines("snapshot")
<1>1. ASSUME NEW content \in {<<>>, listing}, NEW t \in MemTasks \cup {"none"}, Replace(content, t),
             told' = <<>>, resets' \in Nat,
             t \in MemTasks => memStage[t] = "snapshot" /\ To(t, "turn"),
             t \notin MemTasks => UNCHANGED memStage,
             UNCHANGED <<activeRecords, logged, inTool, ok, verdict, experiences, copy, learned,
                         extracting, lateLogs>>
      PROVE  MemIInv'
  <2>1. /\ listing \in Seq(MemLine) /\ Len(listing) \in Nat
        /\ \A i \in 1..Len(listing) : listing[i].number = 0
    BY LinesOfTexts DEF Texts
  <2>. HIDE DEF listing
  <2>2. content \in Seq(MemLine) /\ \A i \in 1..Len(content) : content[i].number = 0
    <3>1. CASE content = <<>>
      BY <3>1
    <3>2. CASE content = listing
      BY <2>1, <3>2
    <3>. QED
      BY <1>1, <3>1, <3>2
  <2>3. WellNumbered(content) /\ OnlyOfRecorded(content)'
    BY <2>2 DEF WellNumbered, OnlyOfRecorded
  <2>4. sessionFile' = content /\ mixed' \in BOOLEAN
    BY <1>1 DEF Replace
  <2>5. /\ memStage' \in [MemTasks -> MemStages]
        /\ \A u \in MemTasks \ {t} : memStage'[u] = memStage[u]
        /\ t \in MemTasks => memStage'[t] = "turn" /\ memStage[t] = "snapshot"
    BY <1>1, PipelineMoves DEF MemStages, MemTypes, MemTypeOK
  <2>6. MemTypes'
    BY <1>1, <2>2, <2>4, <2>5 DEF MemTypes, MemTypeOK
  <2>7. NoRecordLeaks'
    BY <1>1, <2>5 DEF NoRecordLeaks
  <2>8. ToldIn(sessionFile, told)'
    BY <1>1, <2>2, <2>4 DEF ToldIn
  <2>9. "none" \notin MemTasks
    BY MemoryAssumption
  <2>10. SessionIInv'
    BY <1>1, <2>3, <2>5, <2>8, <2>9, SessionReplaced DEF Recorded
  <2>11. \A u \in MemTasks : TaskVerdict(u)'
    BY <1>1, <2>5 DEF VerdictsInv, TaskVerdict, VerdictHolds, Judged
  <2>12. LearningInv' /\ LearnedFromStored'
    BY <1>1, <2>5 DEF LearningInv, LearnedFromStored, WorthLearning, Judged
  <2>. QED
    BY <2>6, <2>7, <2>10, <2>11, <2>12 DEF VerdictsInv
<1>2. "none" \notin MemTasks /\ MaxResets \in Nat
  BY MemoryAssumption
<1>3. resets \in Nat /\ resets + 1 \in Nat
  BY DEF MemTypes
<1>4. CASE ClearSession
  BY <1>1, <1>2, <1>3, <1>4 DEF ClearSession
<1>5. CASE Explore
  BY <1>1, <1>2, <1>3, <1>5 DEF Explore, SaveSnapshot
<1>6. ASSUME NEW t \in MemTasks, AppendWorkspaceSnapshot(t) PROVE MemIInv'
  BY <1>1, <1>3, <1>6 DEF AppendWorkspaceSnapshot, SaveSnapshot
<1>. QED
  BY <1>4, <1>5, <1>6

(* finish(): the outcome is that of what was logged.                       *)
LEMMA FinishKeepsMemory ==
  ASSUME MemIInv, NEW t \in MemTasks, FinishRecord(t)
  PROVE  MemIInv'
<1>. USE DEF MemIInv
<1>1. /\ memStage[t] = "finish"
      /\ UNCHANGED <<activeRecords, logged, inTool, ok, experiences, sessionFile, told, mixed, copy,
                     learned, extracting, resets, lateLogs>>
  BY DEF FinishRecord, sessionVars
<1>2. PICK next \in {"write", "gone"} :
        /\ To(t, next) /\ (next = "gone" => verdict' = verdict /\ t \notin activeRecords)
        /\ next = "write" => verdict' = [verdict EXCEPT ![t] = DeriveOutcome(t)]
  BY DEF FinishRecord
<1>3. /\ memStage' \in [MemTasks -> MemStages] /\ memStage'[t] = next
      /\ \A u \in MemTasks \ {t} : memStage'[u] = memStage[u]
  BY <1>2, PipelineMoves DEF MemStages
<1>4. DeriveOutcome(t) \in Outcomes
  BY DEF DeriveOutcome, Outcomes
<1>5. /\ verdict' \in [MemTasks -> Outcomes \cup {"none"}]
      /\ \A u \in MemTasks \ {t} : verdict'[u] = verdict[u]
      /\ next = "write" => verdict'[t] = DeriveOutcome(t)
  BY <1>2, <1>4 DEF MemTypes
<1>6. MemTypes'
  BY <1>1, <1>3, <1>5 DEF MemTypes, MemTypeOK
<1>7. NoRecordLeaks'
  BY <1>1, <1>2, <1>3 DEF NoRecordLeaks
<1>8. SessionIInv'
  BY <1>1, <1>3, SessionStays DEF Recorded
<1>9. TaskVerdict(t)
  BY DEF VerdictsInv
<1>10. experiences[t] = NoRecord
  BY <1>1, <1>9 DEF TaskVerdict, Judged
<1>11. next = "write" => VerdictHolds(t)'
  <2>. SUFFICES ASSUME next = "write" PROVE VerdictHolds(t)'
    OBVIOUS
  <2>1. ok[t] \in BOOLEAN
    BY DEF MemTypes
  <2>2. verdict'[t] = IF ok[t] THEN "success" ELSE IF logged[t] # {} THEN "partial" ELSE "failure"
    BY <1>5 DEF DeriveOutcome
  <2>3. (verdict'[t] = "success") = ok[t]
    BY <2>1, <2>2
  <2>4. /\ verdict'[t] # "none"
        /\ verdict'[t] = "partial" => logged[t] # {}
        /\ verdict'[t] = "failure" => logged[t] = {}
    BY <2>2
  <2>. QED
    BY <1>1, <2>3, <2>4 DEF VerdictHolds
<1>12. TaskVerdict(t)'
  BY <1>1, <1>3, <1>9, <1>10, <1>11 DEF TaskVerdict, Judged
<1>13. VerdictsInv'
  BY <1>1, <1>3, <1>5, <1>12, VerdictsStay
<1>14. LearningInv' /\ LearnedFromStored'
  BY <1>1, <1>3, <1>5, <1>10, LearningStays DEF Judged
<1>. QED
  BY <1>6, <1>7, <1>8, <1>13, <1>14

(* The experience is written, or the rest of finish() is left out.         *)
LEMMA PersistKeepsMemory ==
  ASSUME MemIInv, NEW t \in MemTasks, PersistRecord(t)
  PROVE  MemIInv'
<1>. USE DEF MemIInv
<1>1. /\ memStage[t] = "write"
      /\ UNCHANGED <<logged, inTool, ok, verdict, sessionFile, told, mixed, copy, learned, extracting,
                     resets, lateLogs>>
  BY DEF PersistRecord, sessionVars
<1>2. TaskVerdict(t) /\ VerdictHolds(t) /\ experiences[t] = NoRecord
  BY <1>1 DEF VerdictsInv, TaskVerdict, Judged
<1>. DEFINE entered == [outcome |-> verdict[t], logged |-> logged[t]]
<1>3. /\ entered \in [outcome : Outcomes \cup {"none"}, logged : SUBSET Logs] /\ entered # NoRecord
      /\ entered.outcome = verdict[t] /\ entered.logged = logged[t]
  BY <1>2 DEF MemTypes, MemTypeOK, VerdictHolds, NoRecord
<1>. HIDE DEF entered
<1>4. CASE /\ experiences' = [experiences EXCEPT ![t] = entered]
           /\ To(t, IF verdict[t] = "failure" THEN "learn" ELSE "session") /\ UNCHANGED activeRecords
  <2>1. PICK next \in {"learn", "session"} : To(t, next)
    BY <1>4
  <2>2. /\ memStage' \in [MemTasks -> MemStages] /\ memStage'[t] = next
        /\ \A u \in MemTasks \ {t} : memStage'[u] = memStage[u]
    BY <2>1, PipelineMoves DEF MemStages
  <2>3. /\ experiences' \in [MemTasks -> [outcome : Outcomes \cup {"none"}, logged : SUBSET Logs]]
        /\ experiences'[t] = entered /\ \A u \in MemTasks \ {t} : experiences'[u] = experiences[u]
    BY <1>3, <1>4 DEF MemTypes
  <2>4. MemTypes'
    BY <1>1, <1>4, <2>2, <2>3 DEF MemTypes, MemTypeOK
  <2>5. NoRecordLeaks'
    BY <1>4, <2>2 DEF NoRecordLeaks
  <2>6. SessionIInv'
    BY <1>1, <2>2, SessionStays DEF Recorded
  <2>7. VerdictHolds(t)'
    BY <1>1, <1>2 DEF VerdictHolds
  <2>8. TaskVerdict(t)'
    BY <1>1, <1>2, <1>3, <2>2, <2>3, <2>7 DEF TaskVerdict, VerdictHolds, Judged
  <2>9. VerdictsInv'
    BY <1>1, <2>2, <2>3, <2>8, VerdictsStay
  <2>10. LearningInv' /\ LearnedFromStored'
    BY <1>1, <1>2, <1>3, <2>2, <2>3, LearningStays
  <2>. QED
    BY <2>4, <2>5, <2>6, <2>9, <2>10
<1>5. CASE PersistRecordFails(t) /\ UNCHANGED experiences
  <2>1. activeRecords' = activeRecords \ {t} /\ To(t, "gone")
    BY <1>5 DEF PersistRecordFails
  <2>2. /\ memStage' \in [MemTasks -> MemStages] /\ memStage'[t] = "gone"
        /\ \A u \in MemTasks \ {t} : memStage'[u] = memStage[u]
    BY <2>1, PipelineMoves DEF MemStages
  <2>3. MemTypes'
    BY <1>1, <1>5, <2>1, <2>2 DEF MemTypes, MemTypeOK
  <2>4. NoRecordLeaks'
    BY <2>1, <2>2 DEF NoRecordLeaks
  <2>5. SessionIInv'
    BY <1>1, <2>2, SessionStays DEF Recorded
  <2>6. TaskVerdict(t)'
    BY <1>1, <1>2, <1>5, <2>2 DEF TaskVerdict, Judged
  <2>7. VerdictsInv'
    BY <1>1, <1>5, <2>2, <2>6, VerdictsStay
  <2>8. LearningInv' /\ LearnedFromStored'
    BY <1>1, <1>5, <2>2, LearningStays DEF Judged
  <2>. QED
    BY <2>3, <2>4, <2>5, <2>7, <2>8
<1>. QED
  BY <1>4, <1>5 DEF PersistRecord, entered

(* append() reads the file as it is now.                                   *)
LEMMA ReadsKeepMemory ==
  ASSUME MemIInv, NEW t \in MemTasks, AppendReads(t)
  PROVE  MemIInv'
<1>. USE DEF MemIInv
<1>1. /\ memStage[t] = "session"
      /\ UNCHANGED <<activeRecords, logged, inTool, ok, verdict, experiences, sessionFile, told,
                     mixed, learned, extracting, resets, lateLogs>>
  BY DEF AppendReads, sessionVars
<1>2. PICK next \in {"append", "learn"} :
        /\ To(t, next) /\ (next = "learn" => copy' = copy)
        /\ next = "append" => copy' = [copy EXCEPT ![t] = sessionFile]
  BY DEF AppendReads
<1>3. /\ memStage' \in [MemTasks -> MemStages] /\ memStage'[t] = next
      /\ \A u \in MemTasks \ {t} : memStage'[u] = memStage[u]
  BY <1>2, PipelineMoves DEF MemStages
<1>4. /\ copy' \in [MemTasks -> Seq(MemLine)] /\ \A u \in MemTasks \ {t} : copy'[u] = copy[u]
      /\ next = "append" => copy'[t] = sessionFile
      /\ next = "learn" => copy' = copy
  BY <1>2 DEF MemTypes
<1>5. MemTypes'
  BY <1>1, <1>3, <1>4 DEF MemTypes, MemTypeOK
<1>6. NoRecordLeaks'
  BY <1>1, <1>3 DEF NoRecordLeaks
<1>7. SessionIInv'
  <2>1. CASE next = "learn"
    BY <1>1, <1>3, <1>4, <2>1, SessionStays DEF Recorded
  <2>2. CASE next = "append"
    <3>1. WellNumbered(sessionFile)' /\ OnlyOfRecorded(sessionFile)'
      BY <1>1, <1>3 DEF SessionIInv, WellNumbered, OnlyOfRecorded, Recorded
    <3>2. ASSUME NEW u \in MemTasks PROVE WellNumbered(copy[u])' /\ OnlyOfRecorded(copy[u])'
      <4>1. CASE u = t
        BY <1>1, <1>4, <2>2, <3>1, <4>1 DEF WellNumbered, OnlyOfRecorded
      <4>2. CASE u # t
        <5>1. copy'[u] = copy[u] /\ WellNumbered(copy[u]) /\ OnlyOfRecorded(copy[u])
          BY <1>4, <4>2 DEF SessionIInv
        <5>2. ASSUME NEW v \in MemTasks, memStage[v] \in Recorded PROVE memStage'[v] \in Recorded
          BY <1>1, <1>3, <5>2 DEF Recorded
        <5>3. WellNumbered(copy[u])'
          BY <1>1, <5>1 DEF WellNumbered
        <5>4. OnlyOfRecorded(copy[u])'
          BY <5>1, <5>2 DEF OnlyOfRecorded
        <5>. QED
          BY <5>3, <5>4
      <4>. QED
        BY <4>1, <4>2
    <3>3. ToldIn(sessionFile, told) => ToldIn(sessionFile, told)'
      <4>1. ASSUME NEW rows, NEW tasks, rows = sessionFile', tasks = told',
                   ToldIn(rows, tasks)
            PROVE  ToldIn(sessionFile, told)'
        BY ONLY <4>1 DEF ToldIn
      <4>. QED
        BY <1>1, <4>1
    <3>. QED
      BY <1>1, <1>3, <1>4, <2>2, <3>1, <3>2, <3>3 DEF SessionIInv
  <2>. QED
    BY <2>1, <2>2
<1>8. TaskVerdict(t)'
  BY <1>1, <1>3 DEF VerdictsInv, TaskVerdict, VerdictHolds, Judged
<1>9. VerdictsInv'
  BY <1>1, <1>3, <1>8, VerdictsStay
<1>10. experiences[t] # NoRecord
  BY <1>1 DEF LearningInv, Judged
<1>11. LearningInv' /\ LearnedFromStored'
  BY <1>1, <1>3, <1>10, LearningStays
<1>. QED
  BY <1>5, <1>6, <1>7, <1>9, <1>11

(* What a sequence holds that is put together of two and what is between.  *)
LEMMA Spliced ==
  ASSUME NEW S, NEW front \in Seq(S), NEW x \in S, NEW rest \in Seq(S),
         NEW joined, joined = front \o (<<x>> \o rest)
  PROVE  /\ joined \in Seq(S) /\ Len(joined) = Len(front) + 1 + Len(rest)
         /\ joined[Len(front) + 1] = x
         /\ \A i \in 1..Len(front) : joined[i] = front[i]
         /\ \A i \in 1..Len(rest) : joined[Len(front) + 1 + i] = rest[i]
<1>1. /\ <<x>> \in Seq(S) /\ Len(<<x>>) = 1 /\ <<x>>[1] = x
      /\ Len(front) \in Nat /\ Len(rest) \in Nat
  OBVIOUS
<1>. DEFINE block == <<x>> \o rest
<1>2. /\ block \in Seq(S) /\ Len(block) = 1 + Len(rest) /\ block[1] = x
      /\ \A i \in 1..Len(rest) : block[i + 1] = rest[i]
  BY <1>1
<1>3. joined = front \o block
  OBVIOUS
<1>. HIDE DEF block
<1>4. /\ joined \in Seq(S) /\ Len(joined) = Len(front) + Len(block)
      /\ \A i \in 1..(Len(front) + Len(block)) :
           joined[i] = IF i <= Len(front) THEN front[i] ELSE block[i - Len(front)]
  BY <1>2, <1>3, ConcatProperties
<1>5. ASSUME NEW i \in 1..Len(rest) PROVE joined[Len(front) + 1 + i] = rest[i]
  <2>1. /\ Len(front) + 1 + i \in 1..(Len(front) + Len(block))
        /\ ~(Len(front) + 1 + i <= Len(front)) /\ (Len(front) + 1 + i) - Len(front) = i + 1
    BY <1>1, <1>2
  <2>. QED
    BY <1>2, <1>4, <2>1
<1>6. joined[Len(front) + 1] = x
  <2>1. /\ Len(front) + 1 \in 1..(Len(front) + Len(block))
        /\ ~(Len(front) + 1 <= Len(front)) /\ (Len(front) + 1) - Len(front) = 1
    BY <1>1, <1>2
  <2>. QED
    BY <1>2, <1>4, <2>1
<1>7. Len(joined) = Len(front) + 1 + Len(rest) /\ \A i \in 1..Len(front) : joined[i] = front[i]
  BY <1>1, <1>2, <1>4
<1>. QED
  BY <1>4, <1>5, <1>6, <1>7

(* What was there, the block of a task and the lines of its text below.    *)
BlockFollows(old, t, content) ==
  /\ content \in Seq(MemLine) /\ Len(old) + 1 \in 1..Len(content)
  /\ content[Len(old) + 1].of = t /\ content[Len(old) + 1].number > 0
  /\ \A i \in 1..Len(old) : i \in 1..Len(content) /\ content[i] = old[i]
  /\ \A i \in 1..Len(content) : content[i].number > 0 => i \in 1..Len(old) \/ i = Len(old) + 1

(* A block numbered after what was read, of a task that is not in it, and  *)
(* its text below: what has a number is the block or was there before.     *)
LEMMA BlockBelow ==
  ASSUME NEW t \in MemTasks, NEW old \in Seq(MemLine), WellNumbered(old),
         \A i \in 1..Len(old) : old[i].number > 0 => old[i].of # t,
         NEW content, content = old \o FormatBlock(NextNumber(old), t)
  PROVE  BlockFollows(old, t, content) /\ WellNumbered(content)
<1>. DEFINE n == Len(old)
            below == TextLines(t)
            new == [of |-> t, number |-> n + 1]
<1>1. n \in Nat
  OBVIOUS
<1>2. /\ below \in Seq(MemLine) /\ Len(below) \in Nat
      /\ \A i \in 1..Len(below) : below[i].number = 0
  BY LinesOfTexts DEF Texts
<1>3. new \in MemLine /\ new.of = t /\ new.number = n + 1
  BY <1>1 DEF MemLine, Texts
<1>4. content = old \o (<<new>> \o below)
  BY DEF FormatBlock, NextNumber, CountTasks
<1>. HIDE DEF below, new
<1>5. /\ content \in Seq(MemLine) /\ Len(content) = n + 1 + Len(below)
      /\ content[n + 1] = new
      /\ \A i \in 1..n : content[i] = old[i]
      /\ \A i \in 1..Len(below) : content[n + 1 + i] = below[i]
  BY <1>2, <1>3, <1>4, Spliced
<1>6. /\ n + 1 \in 1..Len(content) /\ \A i \in 1..n : i \in 1..Len(content)
      /\ \A i \in 1..Len(content) :
           \/ i \in 1..n \/ i = n + 1
           \/ i - n - 1 \in 1..Len(below) /\ n + 1 + (i - n - 1) = i
  BY <1>1, <1>2, <1>5
<1>7. ASSUME NEW i \in 1..Len(content) PROVE i \in 1..n \/ i = n + 1 \/ content[i].number = 0
  <2>. SUFFICES ASSUME i - n - 1 \in 1..Len(below), n + 1 + (i - n - 1) = i
                PROVE  content[i].number = 0
    BY <1>6
  <2>1. content[n + 1 + (i - n - 1)] = below[i - n - 1]
    BY <1>5
  <2>. QED
    BY <1>2, <2>1
<1>8. content[n + 1].of = t /\ content[n + 1].number = n + 1
  BY <1>3, <1>5
<1>. HIDE DEF n
<1>9. \A i \in 1..n : content[i].number \in {0, i}
  BY <1>5 DEF WellNumbered, n
<1>10. \A i \in 1..Len(content) : content[i].number \in {0, i}
  BY <1>7, <1>8, <1>9
<1>11. /\ \A i \in 1..n : content[i].number > 0 => content[i].of # t
       /\ \A i, j \in 1..n :
            content[i].number > 0 /\ content[j].number > 0 /\ content[i].of = content[j].of => i = j
  BY <1>5 DEF WellNumbered, n
<1>12. \A i \in 1..Len(content) : content[i].number > 0 => i \in 1..n \/ i = n + 1
  BY <1>7
<1>13. \A i, j \in 1..Len(content) :
         content[i].number > 0 /\ content[j].number > 0 /\ content[i].of = content[j].of => i = j
  <2>1. ASSUME NEW i \in 1..n, content[i].number > 0 PROVE content[i].of # content[n + 1].of
    BY <1>8, <1>11, <2>1
  <2>2. SUFFICES ASSUME NEW i \in 1..Len(content), NEW j \in 1..Len(content),
                        content[i].number > 0, content[j].number > 0, content[i].of = content[j].of
                 PROVE  i = j
    OBVIOUS
  <2>3. (i \in 1..n \/ i = n + 1) /\ (j \in 1..n \/ j = n + 1)
    BY <1>12, <2>2
  <2>. QED
    BY <1>11, <2>1, <2>2, <2>3
<1>14. content[n + 1].number > 0
  BY <1>1, <1>8
<1>15. WellNumbered(content)
  BY <1>10, <1>13 DEF WellNumbered
<1>. QED
  BY <1>5, <1>6, <1>8, <1>12, <1>14, <1>15 DEF BlockFollows, n

(* The same of an append(): what it writes is of tasks that are recorded.  *)
LEMMA BlockAppended ==
  ASSUME MemIInv, NEW t \in MemTasks, memStage[t] = "append", memStage'[t] \in Recorded,
         \A u \in MemTasks \ {t} : memStage'[u] = memStage[u],
         NEW content, content = copy[t] \o FormatBlock(NextNumber(copy[t]), t)
  PROVE  BlockFollows(copy[t], t, content) /\ WellNumbered(content) /\ OnlyOfRecorded(content)'
<1>. USE DEF MemIInv
<1>1. copy[t] \in Seq(MemLine) /\ WellNumbered(copy[t]) /\ OnlyOfRecorded(copy[t])
  BY DEF MemTypes, SessionIInv
<1>2. \A i \in 1..Len(copy[t]) : copy[t][i].number > 0 =>
        copy[t][i].of \in MemTasks \ {t} /\ memStage'[copy[t][i].of] \in Recorded
  <2>1. \A i \in 1..Len(copy[t]) : copy[t][i].number > 0 =>
          copy[t][i].of \in MemTasks /\ memStage[copy[t][i].of] \in Recorded
    BY <1>1 DEF OnlyOfRecorded
  <2>2. memStage[t] \notin Recorded
    BY DEF Recorded
  <2>. QED
    BY <2>1, <2>2
<1>3. \A i \in 1..Len(copy[t]) : copy[t][i].number > 0 => copy[t][i].of # t
  BY <1>2
<1>4. BlockFollows(copy[t], t, content) /\ WellNumbered(content)
  BY <1>1, <1>3, BlockBelow
<1>5. OnlyOfRecorded(content)'
  <2>. DEFINE n == Len(copy[t])
  <2>1. /\ content[n + 1].of = t
        /\ \A i \in 1..n : content[i] = copy[t][i]
        /\ \A i \in 1..Len(content) : content[i].number > 0 => i \in 1..n \/ i = n + 1
    BY <1>4 DEF BlockFollows
  <2>. HIDE DEF n
  <2>2. \A i \in 1..n : copy[t][i].number > 0 =>
          copy[t][i].of \in MemTasks /\ memStage'[copy[t][i].of] \in Recorded
    BY <1>2 DEF n
  <2>3. ASSUME NEW i \in 1..Len(content), content[i].number > 0
        PROVE  content[i].of \in MemTasks /\ memStage'[content[i].of] \in Recorded
    <3>1. CASE i \in 1..n
      BY <2>1, <2>2, <2>3, <3>1
    <3>2. CASE i = n + 1
      BY <2>1, <3>2
    <3>. QED
      BY <2>1, <2>3, <3>1, <3>2
  <2>. QED
    BY <2>3 DEF OnlyOfRecorded
<1>. QED
  BY <1>4, <1>5

(* append() writes the file, or fails.                                     *)
LEMMA WritesKeepMemory ==
  ASSUME MemIInv, NEW t \in MemTasks, AppendWrites(t)
  PROVE  MemIInv'
<1>. USE DEF MemIInv
<1>1. /\ memStage[t] = "append" /\ To(t, "learn") /\ copy' = [copy EXCEPT ![t] = <<>>]
      /\ UNCHANGED <<activeRecords, logged, inTool, ok, verdict, experiences, learned, extracting,
                     resets, lateLogs>>
  BY DEF AppendWrites
<1>2. /\ memStage' \in [MemTasks -> MemStages] /\ memStage'[t] = "learn"
      /\ \A u \in MemTasks \ {t} : memStage'[u] = memStage[u]
  BY <1>1, PipelineMoves DEF MemStages
<1>3. <<>> \in Seq(MemLine)
  OBVIOUS
<1>4. /\ copy' \in [MemTasks -> Seq(MemLine)] /\ copy'[t] = <<>>
      /\ \A u \in MemTasks \ {t} : copy'[u] = copy[u]
  BY <1>1, <1>3 DEF MemTypes
<1>5. ASSUME sessionFile' \in Seq(MemLine), told' \in Seq(MemTasks), mixed' \in BOOLEAN
      PROVE  MemTypes'
  BY <1>1, <1>2, <1>4, <1>5 DEF MemTypes, MemTypeOK
<1>6. NoRecordLeaks'
  BY <1>1, <1>2 DEF NoRecordLeaks
<1>7. TaskVerdict(t)'
  BY <1>1, <1>2 DEF VerdictsInv, TaskVerdict, VerdictHolds, Judged
<1>8. VerdictsInv'
  BY <1>1, <1>2, <1>7, VerdictsStay
<1>9. experiences[t] # NoRecord
  BY <1>1 DEF LearningInv, Judged
<1>10. LearningInv' /\ LearnedFromStored'
  BY <1>1, <1>2, <1>9, LearningStays
<1>11. CASE UNCHANGED sessionVars
  <2>1. UNCHANGED <<sessionFile, told, mixed>>
    BY <1>11 DEF sessionVars
  <2>2. MemTypes'
    BY <1>5, <2>1 DEF MemTypes
  <2>3. WellNumbered(sessionFile)' /\ OnlyOfRecorded(sessionFile)'
    BY <1>1, <1>2, <2>1 DEF SessionIInv, WellNumbered, OnlyOfRecorded, Recorded
  <2>4. ASSUME NEW u \in MemTasks PROVE WellNumbered(copy[u])' /\ OnlyOfRecorded(copy[u])'
    <3>1. CASE u = t
      BY <1>4, <3>1 DEF WellNumbered, OnlyOfRecorded
    <3>2. CASE u # t
      BY <1>1, <1>2, <1>4, <3>2
         DEF SessionIInv, WellNumbered, OnlyOfRecorded, Recorded
    <3>. QED
      BY <3>1, <3>2
  <2>5. ToldIn(sessionFile, told) => ToldIn(sessionFile, told)'
    BY <2>1 DEF ToldIn
  <2>6. SessionIInv'
    BY <1>2, <1>4, <2>1, <2>3, <2>4, <2>5 DEF SessionIInv
  <2>. QED
    BY <1>6, <1>8, <1>10, <2>2, <2>6
<1>12. CASE /\ Replace(copy[t] \o FormatBlock(NextNumber(copy[t]), t), t)
            /\ told' = Append(told, t)
  <2>1. PICK content : content = copy[t] \o FormatBlock(NextNumber(copy[t]), t)
    OBVIOUS
  <2>2. Replace(content, t) /\ sessionFile' = content /\ mixed' \in BOOLEAN
    BY <1>12, <2>1 DEF Replace
  <2>. DEFINE n == Len(copy[t])
  <2>3. BlockFollows(copy[t], t, content) /\ WellNumbered(content) /\ OnlyOfRecorded(content)'
    <3>1. /\ memStage[t] = "append" /\ memStage'[t] \in Recorded
          /\ \A u \in MemTasks \ {t} : memStage'[u] = memStage[u]
      BY <1>1, <1>2 DEF Recorded
    <3>2. \A longer : longer = copy[t] \o FormatBlock(NextNumber(copy[t]), t) =>
            BlockFollows(copy[t], t, longer) /\ WellNumbered(longer) /\ OnlyOfRecorded(longer)'
      BY <3>1, BlockAppended, ZenonT(60)
    <3>. QED
      BY ONLY <2>1, <3>2
  <2>4. /\ content \in Seq(MemLine) /\ n + 1 \in 1..Len(content)
        /\ content[n + 1].of = t /\ content[n + 1].number > 0
        /\ \A i \in 1..n : i \in 1..Len(content) /\ content[i] = copy[t][i]
        /\ \A i \in 1..Len(content) : content[i].number > 0 => i \in 1..n \/ i = n + 1
    BY <2>3 DEF BlockFollows
  <2>5. told \in Seq(MemTasks) /\ copy[t] \in Seq(MemLine) /\ Len(told) \in Nat /\ n \in Nat
    BY DEF MemTypes
  <2>6. /\ told' \in Seq(MemTasks) /\ Len(told') = Len(told) + 1 /\ told'[Len(told) + 1] = t
        /\ \A i \in 1..Len(told) : told'[i] = told[i]
    BY <1>12, <2>5
  <2>7. MemTypes'
    BY <1>5, <2>2, <2>4, <2>6
  <2>8. ASSUME ~mixed PROVE ToldIn(sessionFile, told)'
    <3>1. ToldIn(copy[t], told) /\ OnlyOfRecorded(copy[t])
      BY <1>1, <2>8 DEF SessionIInv
    <3>2. \A i \in 1..n : content[i].number > 0 => content[i].of # t
      BY <1>1, <2>4, <3>1 DEF OnlyOfRecorded, Recorded
    <3>3. \A m \in 1..Len(told') : \/ m \in 1..Len(told) /\ told'[m] = told[m]
                                   \/ m = Len(told) + 1 /\ told'[m] = t
      BY <2>5, <2>6
    <3>4. \A m \in 1..Len(told) : m \in 1..Len(told') /\ told[m] # t
      <4>1. \A m \in 1..Len(told) : told[m] # t
        BY <1>1, <3>1 DEF ToldIn, OnlyOfRecorded, Recorded
      <4>. QED
        BY <2>5, <2>6, <4>1
    <3>5. \A i \in 1..Len(content) : content[i].number > 0 =>
            \E m \in 1..Len(told') : content[i].of = told'[m]
      <4>1. \A i \in 1..n : content[i].number > 0 =>
              \E m \in 1..Len(told) : content[i].of = told[m]
        <5>1. \A i \in 1..n : copy[t][i].number > 0 =>
                \E m \in 1..Len(told) : copy[t][i].of = told[m]
          BY <3>1 DEF ToldIn
        <5>. QED
          BY <2>4, <5>1
      <4>2. Len(told) + 1 \in 1..Len(told')
        BY <2>5, <2>6
      <4>. QED
        BY <2>4, <2>6, <3>4, <4>1, <4>2
    <3>6. \A m \in 1..Len(told') : \E i \in 1..Len(content) :
            content[i].number > 0 /\ content[i].of = told'[m]
      <4>1. ASSUME NEW m \in 1..Len(told)
            PROVE  \E i \in 1..n : content[i].number > 0 /\ content[i].of = told[m]
        <5>1. PICK i \in 1..n : copy[t][i].number > 0 /\ copy[t][i].of = told[m]
          BY <3>1 DEF ToldIn
        <5>. QED
          BY <2>4, <5>1
      <4>. QED
        BY <2>4, <3>3, <4>1
    <3>7. ASSUME NEW l \in 1..Len(told'), NEW m \in 1..Len(told'), l < m,
                 NEW i \in 1..Len(content), NEW j \in 1..Len(content),
                 content[i].number > 0, content[i].of = told'[l],
                 content[j].number > 0, content[j].of = told'[m]
          PROVE  i < j
      <4>1. l \in 1..Len(told) /\ told'[l] = told[l] /\ told[l] # t
        BY <2>5, <2>6, <3>3, <3>4, <3>7
      <4>2. i \in 1..n
        BY <2>4, <3>7, <4>1
      <4>3. CASE told'[m] = t
        BY <2>4, <2>5, <3>2, <3>7, <4>2, <4>3
      <4>4. CASE told'[m] # t
        <5>1. m \in 1..Len(told) /\ told'[m] = told[m] /\ j \in 1..n
          BY <2>4, <3>3, <3>7, <4>4
        <5>. QED
          <6>1. \A v, w \in 1..Len(told) : v < w =>
                  \A x, y \in 1..n :
                    copy[t][x].number > 0 /\ copy[t][x].of = told[v] /\
                    copy[t][y].number > 0 /\ copy[t][y].of = told[w] => x < y
            BY <3>1 DEF ToldIn
          <6>. QED
            BY <2>4, <3>7, <4>1, <4>2, <5>1, <6>1
      <4>. QED
        BY <4>3, <4>4
    <3>8. ToldIn(content, told')
      <4>1. \A l, m \in 1..Len(told') : l < m => \A i, j \in 1..Len(content) :
              content[i].number > 0 /\ content[i].of = told'[l] /\
              content[j].number > 0 /\ content[j].of = told'[m] => i < j
        BY <3>7
      <4>. QED
        BY ONLY <3>5, <3>6, <4>1, Zenon DEF ToldIn
    <3>9. \A rows, tasks : rows = sessionFile' /\ tasks = told' =>
            (ToldIn(rows, tasks) => ToldIn(sessionFile, told)')
      BY DEF ToldIn
    <3>. QED
      BY <2>2, <3>8, <3>9
  <2>9. SessionIInv'
    BY <1>1, <1>2, <1>4, <2>2, <2>3, <2>8, SessionReplaced DEF Recorded
  <2>. QED
    BY <1>6, <1>8, <1>10, <2>7, <2>9
<1>. QED
  BY <1>11, <1>12 DEF AppendWrites

(* The record leaves memory, and rules are learned of it in the background.*)
LEMMA LearnKeepsMemory ==
  ASSUME MemIInv, NEW t \in MemTasks, Learn(t) \/ ExtractEnds(t)
  PROVE  MemIInv'
<1>. USE DEF MemIInv
<1>1. CASE Learn(t)
  <2>1. /\ memStage[t] = "learn" /\ To(t, "gone") /\ activeRecords' = activeRecords \ {t}
        /\ extracting' = extracting \cup (IF WorthLearning(t) THEN {t} ELSE {})
        /\ UNCHANGED <<logged, inTool, ok, verdict, experiences, sessionFile, told, mixed, copy,
                       learned, resets, lateLogs>>
    BY <1>1 DEF Learn, sessionVars
  <2>2. /\ memStage' \in [MemTasks -> MemStages] /\ memStage'[t] = "gone"
        /\ \A u \in MemTasks \ {t} : memStage'[u] = memStage[u]
    BY <2>1, PipelineMoves DEF MemStages
  <2>3. MemTypes'
    BY <2>1, <2>2 DEF MemTypes, MemTypeOK
  <2>4. NoRecordLeaks'
    BY <2>1, <2>2 DEF NoRecordLeaks
  <2>5. SessionIInv'
    BY <2>1, <2>2, SessionStays DEF Recorded
  <2>6. TaskVerdict(t)'
    BY <2>1, <2>2 DEF VerdictsInv, TaskVerdict, VerdictHolds, Judged
  <2>7. VerdictsInv'
    BY <2>1, <2>2, <2>6, VerdictsStay
  <2>8. LearningInv'
    BY <2>1, <2>2 DEF LearningInv, WorthLearning, Judged
  <2>9. LearnedFromStored'
    BY <2>1 DEF LearnedFromStored
  <2>. QED
    BY <2>3, <2>4, <2>5, <2>7, <2>8, <2>9
<1>2. CASE ExtractEnds(t)
  <2>1. /\ t \in extracting /\ extracting' = extracting \ {t}
        /\ UNCHANGED <<memStage, activeRecords, logged, inTool, ok, verdict, experiences, sessionFile,
                       told, mixed, copy, resets, lateLogs>>
    BY <1>2 DEF ExtractEnds, sessionVars
  <2>2. PICK new \in Extracted(t) \cup {{}} : learned' = learned \cup new
    BY <1>2 DEF ExtractEnds
  <2>3. \A r \in new : r = <<t, "outcome">> \/ (r = <<t, "fix">> /\ "escalation" \in logged[t])
    BY DEF Extracted
  <2>4. MemTypes'
    BY <2>1, <2>2, <2>3 DEF MemTypes, MemTypeOK
  <2>5. NoRecordLeaks'
    BY <2>1 DEF NoRecordLeaks
  <2>6. SessionIInv'
    BY <2>1, SessionStays
  <2>7. VerdictsInv'
    BY <2>1 DEF VerdictsInv, TaskVerdict, VerdictHolds
  <2>8. LearningInv'
    BY <2>1 DEF LearningInv, WorthLearning
  <2>9. ASSUME NEW r \in learned'
        PROVE  /\ experiences[r[1]] # NoRecord
               /\ (r[2] = "fix" \/ verdict[r[1]] = "failure") => "escalation" \in logged[r[1]]
    <3>1. CASE r \in learned
      BY <3>1 DEF LearnedFromStored
    <3>2. CASE r \in new
      <4>1. r[1] = t /\ (r[2] = "fix" => "escalation" \in logged[t])
        BY <2>3, <3>2
      <4>2. experiences[t] # NoRecord /\ WorthLearning(t)
        BY <2>1 DEF LearningInv
      <4>. QED
        BY <4>1, <4>2 DEF WorthLearning
    <3>. QED
      BY <2>2, <3>1, <3>2
  <2>10. LearnedFromStored'
    BY <2>1, <2>9 DEF LearnedFromStored
  <2>. QED
    BY <2>4, <2>5, <2>6, <2>7, <2>8, <2>10
<1>. QED
  BY <1>1, <1>2

(* Every step keeps the invariant of the memory.                           *)
LEMMA MemoryStep == MemIInv /\ [MemNext]_memVars => MemIInv'
<1>. SUFFICES ASSUME MemIInv, [MemNext]_memVars PROVE MemIInv'
  OBVIOUS
<1>1. CASE UNCHANGED memVars
  <2>1. MemTypes' /\ NoRecordLeaks' /\ VerdictsInv' /\ LearningInv' /\ LearnedFromStored'
    BY <1>1
       DEF MemIInv, memVars, MemTypes, MemTypeOK, NoRecordLeaks, VerdictsInv,
           TaskVerdict,
       VerdictHolds, LearningInv, WorthLearning, LearnedFromStored
  <2>2. SessionIInv'
    BY <1>1, SessionStays DEF MemIInv, memVars
  <2>. QED
    BY <2>1, <2>2 DEF MemIInv
<1>2. ASSUME NEW t \in MemTasks, StartRecord(t) \/ PipelineStep(t) \/ ExtractEnds(t) PROVE MemIInv'
  BY <1>2, TurnKeepsMemory, SnapshotKeepsMemory, FinishKeepsMemory, PersistKeepsMemory,
     ReadsKeepMemory, WritesKeepMemory, LearnKeepsMemory DEF PipelineStep
<1>3. ASSUME NEW t \in MemTasks, NEW what \in Logs, ToolBegins(t, what) \/ Log(t, what) PROVE MemIInv'
  BY <1>3, ToolsKeepMemory
<1>4. CASE ClearSession \/ Explore
  BY <1>4, SnapshotKeepsMemory
<1>. QED
  BY <1>1, <1>2, <1>3, <1>4 DEF MemNext

-----------------------------------------------------------------------------
(* The preferences.  A mutex with who is inside and who waits for it.      *)
Exclusive(lk, inside, waiting) ==
  /\ lk \in [locked : BOOLEAN, queue : Seq(Clients)]
  /\ inside \subseteq Clients /\ waiting \subseteq Clients /\ inside \cap waiting = {}
  /\ \A c, d \in inside : c = d
  /\ lk.locked <=> inside # {}
  /\ ~lk.locked => lk.queue = <<>>
  /\ \A c \in Clients : c \in waiting <=> \E i \in 1..Len(lk.queue) : lk.queue[i] = c
  /\ \A i, j \in 1..Len(lk.queue) : lk.queue[i] = lk.queue[j] => i = j

Inner == {"holds", "consults", "persists"}
InsideClients == {c \in Clients : place[c] \in Inner}
WaitingClients == {c \in Clients : place[c] = "waits"}
PrefMutex == Exclusive(prefLock, InsideClients, WaitingClients)

PrefTypes ==
  /\ PrefTypeOK /\ known \in BOOLEAN
  /\ \A i \in Ids(stored) : stored[i] \in Rule
  /\ asks \in [Clients -> PrefRequests]
  /\ DOMAIN before = Clients

(* There is one load at most, of what the file holds, before the rules are *)
(* known, and only who reads or holds the mutex awaits it.                 *)
LoadsAreCurrent ==
  /\ \A k, l \in loads : k = l
  /\ known => loads = {}
  /\ \A l \in loads :
       l.value = stored /\ \A c \in l.waiting : c \in Clients /\ place[c] \in {"reads", "holds"}

(* Whoever consults or persists knows the rules; a snapshot to go back to  *)
(* is what the file holds.                                                 *)
SnapshotIsStored ==
  \A c \in Clients :
    /\ place[c] \in {"consults", "persists"} => known
    /\ place[c] = "persists" => before[c] = stored

PrefIInv ==
  /\ PrefTypes /\ PrefMutex /\ LoadsAreCurrent /\ SnapshotIsStored
  /\ IndexesMatch /\ MemoryIsStored /\ FailedStaysOut /\ failedIds \cap Ids(rules) = {}

-----------------------------------------------------------------------------
(* A caller that is outside enters a mutex, at once or by waiting.         *)
LEMMA EnterExclusive ==
  ASSUME NEW lk, NEW inside, NEW waiting, Exclusive(lk, inside, waiting),
         NEW c \in Clients, c \notin inside \cup waiting
  PROVE  Exclusive(AfterAcquire(lk, c), IF lk.locked THEN inside ELSE {c},
                   IF lk.locked THEN waiting \cup {c} ELSE waiting)
<1> DEFINE new == AfterAcquire(lk, c)
<1>. lk \in [locked : BOOLEAN, queue : Seq(Clients)]
  BY DEF Exclusive
<1>1. CASE lk.locked
  <2>1. new = [lk EXCEPT !.queue = Append(@, c)]
    BY <1>1 DEF AfterAcquire
  <2>2. /\ new \in [locked : BOOLEAN, queue : Seq(Clients)]
        /\ new.queue = Append(lk.queue, c) /\ new.locked = lk.locked
    <3>1. Append(lk.queue, c) \in Seq(Clients)
      OBVIOUS
    <3>2. new = [lk EXCEPT !.queue = Append(lk.queue, c)]
      BY <2>1
    <3>. HIDE DEF new
    <3>. QED
      BY <3>1, <3>2
  <2>3. /\ Len(new.queue) = Len(lk.queue) + 1 /\ new.queue[Len(lk.queue) + 1] = c
        /\ \A i \in 1..Len(lk.queue) : new.queue[i] = lk.queue[i] /\ lk.queue[i] \in Clients
        /\ Len(lk.queue) \in Nat
    BY <2>2 DEF Exclusive
  <2>4. \A i \in 1..Len(lk.queue) : lk.queue[i] # c
    BY DEF Exclusive
  <2>. HIDE DEF new
  <2>5. ASSUME NEW d \in Clients
        PROVE  d \in waiting \cup {c} <=> \E i \in 1..Len(new.queue) : new.queue[i] = d
    <3>1. CASE d = c
      BY <3>1, <2>3
    <3>2. CASE d # c
      BY <3>2, <2>3 DEF Exclusive
    <3>. QED
      BY <3>1, <3>2
  <2>6. \A i, j \in 1..Len(new.queue) : new.queue[i] = new.queue[j] => i = j
    BY <2>3, <2>4 DEF Exclusive
  <2>7. Exclusive(new, inside, waiting \cup {c})
    BY <1>1, <2>2, <2>5, <2>6 DEF Exclusive
  <2>. QED
    BY <1>1, <2>7 DEF new
<1>2. CASE ~lk.locked
  <2>1. new = [lk EXCEPT !.locked = TRUE]
    BY <1>2 DEF AfterAcquire
  <2>2. /\ new \in [locked : BOOLEAN, queue : Seq(Clients)] /\ new.locked /\ new.queue = <<>>
        /\ lk.queue = <<>>
    <3>1. lk.queue = <<>>
      BY <1>2 DEF Exclusive
    <3>. QED
      BY <2>1, <3>1
  <2>3. waiting = {}
    BY <2>2 DEF Exclusive
  <2>. HIDE DEF new
  <2>4. Exclusive(new, {c}, waiting)
    BY <2>2, <2>3 DEF Exclusive
  <2>. QED
    BY <1>2, <2>4 DEF new
<1>. QED
  BY <1>1, <1>2

(* Whoever was inside leaves, and the first who waits is inside.           *)
LEMMA LeaveExclusive ==
  ASSUME NEW lk, NEW inside, NEW waiting, Exclusive(lk, inside, waiting), inside # {}
  PROVE  /\ Exclusive(AfterRelease(lk), HandedTo(lk), waiting \ HandedTo(lk))
         /\ HandedTo(lk) \subseteq waiting
<1> DEFINE new == AfterRelease(lk)
<1>. lk \in [locked : BOOLEAN, queue : Seq(Clients)]
  BY DEF Exclusive
<1>1. CASE lk.queue = <<>>
  <2>1. new = [lk EXCEPT !.locked = FALSE] /\ HandedTo(lk) = {}
    BY <1>1 DEF AfterRelease, HandedTo
  <2>2. /\ new \in [locked : BOOLEAN, queue : Seq(Clients)] /\ ~new.locked /\ new.queue = <<>>
    BY <1>1, <2>1 DEF Exclusive
  <2>3. waiting = {}
    BY <1>1 DEF Exclusive
  <2>. HIDE DEF new
  <2>4. Exclusive(new, {}, {})
    BY <2>2 DEF Exclusive
  <2>. QED
    BY <2>1, <2>3, <2>4 DEF new
<1>2. CASE lk.queue # <<>>
  <2> DEFINE first == Head(lk.queue)
  <2>1. new = [lk EXCEPT !.queue = Tail(@)] /\ HandedTo(lk) = {first}
    BY <1>2 DEF AfterRelease, HandedTo
  <2>2. /\ new \in [locked : BOOLEAN, queue : Seq(Clients)]
        /\ new.queue = Tail(lk.queue) /\ new.locked
        /\ first \in Clients /\ first = lk.queue[1] /\ Len(lk.queue) \in Nat \ {0}
        /\ Len(new.queue) = Len(lk.queue) - 1
        /\ \A i \in 1..Len(new.queue) : new.queue[i] = lk.queue[i + 1]
    <3>1. lk.locked
      BY <1>2 DEF Exclusive
    <3>2. new.locked = lk.locked /\ new.queue = Tail(lk.queue)
      BY <2>1
    <3>3. new \in [locked : BOOLEAN, queue : Seq(Clients)]
      <4>1. Tail(lk.queue) \in Seq(Clients)
        BY <1>2
      <4>. QED
        BY <2>1, <4>1
    <3>. HIDE DEF new
    <3>. QED
      BY <1>2, <3>1, <3>2, <3>3
  <2>3. first \in waiting
    BY <2>2 DEF Exclusive
  <2>. HIDE DEF new, first
  <2>4. ASSUME NEW d \in Clients
        PROVE  d \in waiting \ {first} <=> \E i \in 1..Len(new.queue) : new.queue[i] = d
    <3>1. ASSUME NEW i \in 1..Len(new.queue), new.queue[i] = d PROVE d \in waiting \ {first}
      <4>1. i + 1 \in 1..Len(lk.queue) /\ lk.queue[i + 1] = d /\ i + 1 # 1
        BY <2>2, <3>1
      <4>2. d # first
        BY <4>1, <2>2 DEF Exclusive
      <4>. QED
        BY <4>1, <4>2 DEF Exclusive
    <3>2. ASSUME d \in waiting \ {first} PROVE \E i \in 1..Len(new.queue) : new.queue[i] = d
      <4>1. PICK i \in 1..Len(lk.queue) : lk.queue[i] = d
        BY <3>2 DEF Exclusive
      <4>2. i - 1 \in 1..Len(new.queue) /\ new.queue[i - 1] = d
        BY <2>2, <3>2, <4>1
      <4>. QED
        BY <4>2
    <3>. QED
      BY <3>1, <3>2
  <2>5. \A i, j \in 1..Len(new.queue) : new.queue[i] = new.queue[j] => i = j
    BY <2>2 DEF Exclusive
  <2>6. Exclusive(new, {first}, waiting \ {first})
    BY <2>2, <2>3, <2>4, <2>5 DEF Exclusive
  <2>. QED
    BY <2>1, <2>3, <2>6 DEF new
<1>. QED
  BY <1>1, <1>2

-----------------------------------------------------------------------------
(* A request that ends leaves the mutex, or was never inside.              *)
LEMMA AnswerKeepsMutex ==
  ASSUME PrefTypes, PrefMutex, NEW c \in Clients, place[c] \in Inner,
         NEW o \in {"done", "failed"}, Answer(c, o)
  PROVE  /\ PrefMutex'
         /\ place' \in [Clients -> {"idle", "waits", "holds", "reads", "consults", "persists", "over"}]
         /\ answered' \in [Clients -> {"none", "done", "failed"}]
         /\ \A d \in Clients : /\ place'[d] \notin {"consults", "persists"}
                               /\ place[d] \in {"reads", "holds"} => d = c \/ place'[d] = place[d]
<1> DEFINE first == HandedTo(prefLock)
<1>1. /\ c \in InsideClients /\ InsideClients \subseteq Clients /\ WaitingClients \subseteq Clients
  BY DEF InsideClients, WaitingClients
<1>2. \A d \in Clients \ {c} : place[d] \notin Inner
  BY <1>1 DEF PrefMutex, Exclusive, InsideClients
<1>3. /\ Exclusive(AfterRelease(prefLock), first, WaitingClients \ first)
      /\ first \subseteq WaitingClients
  BY <1>1, LeaveExclusive DEF PrefMutex
<1>4. prefLock' = AfterRelease(prefLock)
  BY DEF Answer
<1>5. place' = [d \in Clients |-> IF d = c THEN "over" ELSE IF d \in first THEN "holds" ELSE place[d]]
  BY DEF Answer
<1>6. \A d \in Clients : place[d] \in {"idle", "waits", "holds", "reads", "consults", "persists", "over"}
  BY DEF PrefTypes, PrefTypeOK
<1>7. \A d \in first : d \in Clients /\ place[d] = "waits" /\ d # c
  BY <1>3 DEF WaitingClients, Inner
<1>. HIDE DEF first
<1>8. InsideClients' = first
  <2>1. ASSUME NEW d \in Clients PROVE place'[d] \in Inner <=> d \in first
    BY <1>2, <1>5, <1>7 DEF Inner
  <2>. QED
    BY <1>7, <2>1 DEF InsideClients
<1>9. WaitingClients' = WaitingClients \ first
  <2>1. ASSUME NEW d \in Clients PROVE place'[d] = "waits" <=> place[d] = "waits" /\ d \notin first
    BY <1>5, <1>7 DEF Inner
  <2>. QED
    BY <2>1 DEF WaitingClients
<1>10. PrefMutex'
  BY <1>3, <1>4, <1>8, <1>9 DEF PrefMutex
<1>11. place' \in [Clients -> {"idle", "waits", "holds", "reads", "consults", "persists", "over"}]
  BY <1>5, <1>6
<1>12. answered' \in [Clients -> {"none", "done", "failed"}]
  BY DEF Answer, PrefTypes, PrefTypeOK
<1>13. ASSUME NEW d \in Clients
       PROVE  /\ place'[d] \notin {"consults", "persists"}
              /\ place[d] \in {"reads", "holds"} => d = c \/ place'[d] = place[d]
  <2>1. CASE d = c
    BY <1>5, <2>1
  <2>2. CASE d # c
    BY <1>2, <1>5, <1>7, <2>2 DEF Inner
  <2>. QED
    BY <2>1, <2>2
<1>. QED
  BY <1>10, <1>11, <1>12, <1>13

(* Who goes on without entering or leaving keeps the mutex as it is.       *)
LEMMA GoesKeepsMutex ==
  ASSUME PrefTypes, PrefMutex, NEW c \in Clients, UNCHANGED prefLock,
         NEW next \in {"reads", "holds", "consults", "persists", "over"}, Goes(c, next),
         place[c] \in Inner <=> next \in Inner, place[c] # "waits"
  PROVE  /\ PrefMutex'
         /\ place' \in [Clients -> {"idle", "waits", "holds", "reads", "consults", "persists", "over"}]
         /\ place'[c] = next /\ \A d \in Clients \ {c} : place'[d] = place[d]
<1>1. /\ place' \in [Clients -> {"idle", "waits", "holds", "reads", "consults", "persists", "over"}]
      /\ place'[c] = next /\ \A d \in Clients \ {c} : place'[d] = place[d]
  BY DEF Goes, PrefTypes, PrefTypeOK
<1>2. InsideClients' = InsideClients /\ WaitingClients' = WaitingClients
  <2>1. ASSUME NEW d \in Clients
        PROVE  /\ place'[d] \in Inner <=> place[d] \in Inner
               /\ place'[d] = "waits" <=> place[d] = "waits"
    BY <1>1
  <2>. QED
    BY <2>1 DEF InsideClients, WaitingClients
<1>. QED
  BY <1>1, <1>2 DEF PrefMutex

-----------------------------------------------------------------------------
(* The sizes that can reach the threshold: the quotient rounded up, and    *)
(* the one rounded down.                                                   *)
LEMMA RoundedUp ==
  ASSUME NEW x \in Nat, NEW y \in Nat, NEW n \in Nat \ {0}, x <= y * n
  PROVE  (x + n - 1) \div n <= y
<1> DEFINE q == (x + n - 1) \div n
           r == (x + n - 1) % n
<1>1. q \in Int /\ r \in 0..(n - 1) /\ x + n - 1 = n * q + r
  OBVIOUS
<1>. HIDE DEF q, r
<1>2. ASSUME q > y PROVE FALSE
  <2>1. q >= y + 1
    BY <1>1, <1>2
  <2>2. n * q >= n * (y + 1)
    BY <1>1, <2>1
  <2>3. n * (y + 1) = y * n + n
    OBVIOUS
  <2>. QED
    BY <1>1, <2>2, <2>3
<1>3. q <= y
  BY <1>1, <1>2
<1>. QED
  BY <1>3 DEF q

(* And the quotient rounded down is the largest that fits.                 *)
LEMMA RoundedDown ==
  ASSUME NEW x \in Nat, NEW y \in Nat, NEW n \in Nat \ {0}, y * n <= x
  PROVE  y <= x \div n
<1> DEFINE q == x \div n
           r == x % n
<1>1. q \in Int /\ r \in 0..(n - 1) /\ x = n * q + r
  OBVIOUS
<1>. HIDE DEF q, r
<1>2. ASSUME q < y PROVE FALSE
  <2>1. q + 1 <= y
    BY <1>1, <1>2
  <2>2. n * (q + 1) <= n * y
    BY <1>1, <2>1
  <2>3. n * (q + 1) = n * q + n /\ n * y = y * n
    BY <1>1
  <2>. QED
    BY <1>1, <2>2, <2>3
<1>3. y <= q
  BY <1>1, <1>2
<1>. QED
  BY <1>3 DEF q

(* A similar text shares a token, and has a size that the filter lets by.  *)
LEMMA SimilarPasses ==
  ASSUME NEW a \in SUBSET Tokens, NEW b \in SUBSET Tokens, a # {}, Similar(a, b)
  PROVE  a \cap b # {} /\ PassesLengthFilter(Cardinality(b), Cardinality(a))
<1> DEFINE both == Cardinality(a \cap b)
           all == Cardinality(a \cup b)
           ca == Cardinality(a)
           cb == Cardinality(b)
<1>1. IsFiniteSet(Tokens) /\ SimNum \in Nat \ {0} /\ SimDen \in Nat \ {0}
  <2>1. IsFiniteSet(Tokens) /\ SimNum \in Nat \ {0} /\ SimDen \in Nat /\ SimNum <= SimDen
    BY PreferenceAssumption
  <2>. QED
    BY <2>1
<1>2. IsFiniteSet(a \cup b) /\ IsFiniteSet(a) /\ IsFiniteSet(b) /\ IsFiniteSet(a \cap b)
  <2>1. (a \cup b) \in SUBSET Tokens /\ (a \cap b) \in SUBSET Tokens
    OBVIOUS
  <2>. QED
    BY <1>1, <2>1, FS_Subset
<1>3. both \in Nat /\ all \in Nat /\ ca \in Nat /\ cb \in Nat
  BY <1>2, FS_CardinalityType
<1>4. both <= ca /\ both <= cb /\ ca <= all /\ cb <= all
  <2>1. /\ (a \cap b) \in SUBSET a /\ (a \cap b) \in SUBSET b
        /\ a \in SUBSET (a \cup b) /\ b \in SUBSET (a \cup b)
    OBVIOUS
  <2>. QED
    BY <1>2, <2>1, FS_Subset
<1>5. ca > 0
  BY <1>2, <1>3, FS_EmptySet
<1>6. both * SimDen >= SimNum * all
  BY <1>1, <1>3 DEF Similar
<1>7. a \cap b = {} => both = 0
  BY FS_EmptySet
<1>. HIDE DEF both, all, ca, cb
<1>8. SimNum * ca <= SimNum * all /\ SimNum * cb <= SimNum * all
  BY <1>1, <1>3, <1>4
<1>9. both * SimDen <= cb * SimDen /\ both * SimDen <= ca * SimDen
  BY <1>1, <1>3, <1>4
<1>10. /\ SimNum * ca \in Nat /\ cb * SimDen \in Nat /\ SimNum * cb \in Nat /\ ca * SimDen \in Nat
       /\ SimNum * all \in Nat /\ both * SimDen \in Nat
  BY <1>1, <1>3
<1>11. SimNum * ca <= cb * SimDen /\ SimNum * cb <= ca * SimDen
  BY <1>6, <1>8, <1>9, <1>10
<1>12. cb >= (SimNum * ca + SimDen - 1) \div SimDen
  BY <1>1, <1>3, <1>10, <1>11, RoundedUp
<1>13. cb <= (SimDen * ca) \div SimNum
  <2>1. SimDen * ca = ca * SimDen /\ cb * SimNum = SimNum * cb
    BY <1>1, <1>3
  <2>. QED
    BY <1>1, <1>3, <1>10, <1>11, <2>1, RoundedDown
<1>14. PassesLengthFilter(cb, ca)
  BY <1>3, <1>5, <1>12, <1>13 DEF PassesLengthFilter
<1>15. a \cap b # {}
  <2>1. SimNum * ca >= 1
    BY <1>1, <1>3, <1>5
  <2>2. both # 0
    BY <1>1, <1>3, <1>6, <1>8, <1>10, <2>1
  <2>. QED
    BY <1>7, <2>2
<1>. QED
  BY <1>14, <1>15 DEF ca, cb

(* The index finds exactly the rules that are similar, for every text.    *)
THEOREM IndexFindsSimilar ==
  ASSUME PrefTypes, IndexesMatch
  PROVE  SimilarIsFound
<1>1. SUFFICES ASSUME NEW sought \in SUBSET Tokens
               PROVE  FindSimilar(sought) = {i \in Ids(rules) : Similar(sought, rules[i].text)}
  BY DEF SimilarIsFound
<1>2. \A i \in Ids(rules) : rules[i].text \in SUBSET Tokens /\ tokensById[i] = rules[i].text
  BY DEF PrefTypes, PrefTypeOK, Rule, IndexesMatch
<1>3. CASE sought = {}
  <2>1. \A i \in Ids(rules) : Similar(sought, rules[i].text) <=> rules[i].text = {}
    BY <1>3 DEF Similar
  <2>. QED
    BY <1>3, <2>1 DEF FindSimilar, IndexesMatch
<1>4. CASE sought # {}
  <2>1. \A i : (i \in UNION {postings[w] : w \in sought})
                 <=> i \in Ids(rules) /\ sought \cap rules[i].text # {}
    <3>1. \A w \in sought : postings[w] = {i \in Ids(rules) : w \in rules[i].text}
      BY DEF IndexesMatch
    <3>. QED
      BY <3>1
  <2>2. ASSUME NEW i \in Ids(rules), Similar(sought, rules[i].text)
        PROVE  /\ sought \cap rules[i].text # {}
               /\ PassesLengthFilter(Cardinality(tokensById[i]), Cardinality(sought))
    BY <1>2, <1>4, <2>2, SimilarPasses
  <2>3. \A i : i \in FindSimilar(sought) <=> i \in Ids(rules) /\ Similar(sought, rules[i].text)
    <3>1. FindSimilar(sought) =
            {i \in UNION {postings[w] : w \in sought} :
               /\ PassesLengthFilter(Cardinality(tokensById[i]), Cardinality(sought))
               /\ Similar(sought, tokensById[i])}
      BY <1>4 DEF FindSimilar
    <3>. QED
      BY <1>2, <2>1, <2>2, <3>1
  <2>. QED
    BY <2>3
<1>. QED
  BY <1>3, <1>4

-----------------------------------------------------------------------------
(* The indexes after each kind of change: all rules replaced, one rule     *)
(* with other topics and perhaps another text, and rules taken out.        *)
LEMMA ReplacedIndexes ==
  ASSUME NEW rs, ReplaceRules(rs)
  PROVE  rules' = rs /\ IndexesMatch'
BY DEF ReplaceRules, Indexed, IndexesMatch, Ids

(* One rule is added or changed, and its topics are indexed anew.          *)
LEMMA RetopicMatches ==
  ASSUME IndexesMatch, NEW i, NEW rule, rules' = With(rules, i, rule),
         NEW old, i \in Ids(rules) => old = rules[i].topics, i \notin Ids(rules) => old = {},
         topicIndex' = Retopic(i, old, rule.topics)
  PROVE  \A t \in Topics : topicIndex'[t] = {j \in Ids(rules') : t \in rules'[j].topics}
<1>1. /\ Ids(rules') = Ids(rules) \cup {i} /\ rules'[i] = rule
      /\ \A j \in Ids(rules) \ {i} : rules'[j] = rules[j]
  BY DEF With, Ids
<1>2. SUFFICES ASSUME NEW t \in Topics
               PROVE  topicIndex'[t] = {j \in Ids(rules') : t \in rules'[j].topics}
  OBVIOUS
<1>3. topicIndex[t] = {j \in Ids(rules) : t \in rules[j].topics}
  BY DEF IndexesMatch
<1>4. topicIndex'[t] = IF t \in rule.topics THEN topicIndex[t] \cup {i}
                       ELSE IF t \in old THEN topicIndex[t] \ {i} ELSE topicIndex[t]
  BY DEF Retopic
<1>5. ASSUME NEW j
      PROVE  j \in topicIndex'[t] <=> j \in Ids(rules') /\ t \in rules'[j].topics
  <2>1. CASE j = i
    BY <1>1, <1>3, <1>4, <2>1
  <2>2. CASE j # i
    BY <1>1, <1>3, <1>4, <2>2
  <2>. QED
    BY <2>1, <2>2
<1>. QED
  BY <1>5

(* The same of the tokens of its text.                                     *)
LEMMA RetokenMatches ==
  ASSUME IndexesMatch, NEW i, NEW rule, rules' = With(rules, i, rule), Retoken(i, rule.text)
  PROVE  /\ tokensById' = [j \in Ids(rules') |-> rules'[j].text]
         /\ \A w \in Tokens : postings'[w] = {j \in Ids(rules') : w \in rules'[j].text}
         /\ emptyIds' = {j \in Ids(rules') : rules'[j].text = {}}
<1>1. /\ Ids(rules') = Ids(rules) \cup {i} /\ rules'[i] = rule
      /\ \A j \in Ids(rules) \ {i} : rules'[j] = rules[j]
  BY DEF With, Ids
<1>2. tokensById' = [j \in Ids(rules') |-> rules'[j].text]
  <2>1. Ids(tokensById) = Ids(rules) /\ \A j \in Ids(rules) : tokensById[j] = rules[j].text
    BY DEF IndexesMatch, Ids
  <2>2. tokensById' = [j \in Ids(rules') |-> IF j = i THEN rule.text ELSE tokensById[j]]
    BY <1>1, <2>1 DEF Retoken
  <2>3. \A j \in Ids(rules') :
          rules'[j].text = IF j = i THEN rule.text ELSE tokensById[j]
    BY <1>1, <2>1
  <2>. QED
    BY <2>2, <2>3
<1>3. ASSUME NEW w \in Tokens
      PROVE  postings'[w] = {j \in Ids(rules') : w \in rules'[j].text}
  <2>1. postings[w] = {j \in Ids(rules) : w \in rules[j].text}
    BY DEF IndexesMatch
  <2>2. postings'[w] = IF w \in rule.text THEN postings[w] \cup {i} ELSE postings[w] \ {i}
    BY DEF Retoken
  <2>3. ASSUME NEW j PROVE j \in postings'[w] <=> j \in Ids(rules') /\ w \in rules'[j].text
    BY <1>1, <2>1, <2>2
  <2>. QED
    BY <2>3
<1>4. emptyIds' = {j \in Ids(rules') : rules'[j].text = {}}
  <2>1. emptyIds = {j \in Ids(rules) : rules[j].text = {}}
    BY DEF IndexesMatch
  <2>2. emptyIds' = IF rule.text = {} THEN emptyIds \cup {i} ELSE emptyIds \ {i}
    BY DEF Retoken
  <2>3. ASSUME NEW j PROVE j \in emptyIds' <=> j \in Ids(rules') /\ rules'[j].text = {}
    BY <1>1, <2>1, <2>2
  <2>. QED
    BY <2>3
<1>. QED
  BY <1>2, <1>3, <1>4

(* A rule keeps its text: the token index still fits it.                   *)
LEMMA SameTextMatches ==
  ASSUME IndexesMatch, NEW i \in Ids(rules), NEW rule, rules' = With(rules, i, rule),
         rule.text = rules[i].text, UNCHANGED <<tokensById, postings, emptyIds>>
  PROVE  /\ tokensById' = [j \in Ids(rules') |-> rules'[j].text]
         /\ \A w \in Tokens : postings'[w] = {j \in Ids(rules') : w \in rules'[j].text}
         /\ emptyIds' = {j \in Ids(rules') : rules'[j].text = {}}
<1>1. Ids(rules') = Ids(rules) /\ \A j \in Ids(rules) : rules'[j].text = rules[j].text
  BY DEF With, Ids
<1>2. /\ tokensById = [j \in Ids(rules) |-> rules[j].text]
      /\ \A w \in Tokens : postings[w] = {j \in Ids(rules) : w \in rules[j].text}
      /\ emptyIds = {j \in Ids(rules) : rules[j].text = {}}
  BY DEF IndexesMatch
<1>3. [j \in Ids(rules') |-> rules'[j].text] = [j \in Ids(rules) |-> rules[j].text]
  BY <1>1
<1>4. ASSUME NEW w \in Tokens
      PROVE  {j \in Ids(rules') : w \in rules'[j].text} = {j \in Ids(rules) : w \in rules[j].text}
  BY <1>1
<1>5. {j \in Ids(rules') : rules'[j].text = {}} = {j \in Ids(rules) : rules[j].text = {}}
  BY <1>1
<1>. QED
  BY <1>2, <1>3, <1>4, <1>5

(* Rules are taken out of the memory and of both indexes.                  *)
LEMMA DeleteMatches ==
  ASSUME IndexesMatch, NEW gone, Delete(gone)
  PROVE  /\ Ids(rules') = Ids(rules) \ gone /\ \A i \in Ids(rules') : rules'[i] = rules[i]
         /\ IndexesMatch'
<1>1. Ids(rules') = Ids(rules) \ gone /\ \A i \in Ids(rules') : rules'[i] = rules[i]
  BY DEF Delete, Without, Ids
<1>2. tokensById' = [j \in Ids(rules') |-> rules'[j].text]
  <2>1. Ids(tokensById) = Ids(rules) /\ \A j \in Ids(rules) : tokensById[j] = rules[j].text
    BY DEF IndexesMatch, Ids
  <2>2. tokensById' = [j \in Ids(rules') |-> tokensById[j]]
    BY <1>1, <2>1 DEF Delete, Unindexed
  <2>. QED
    BY <1>1, <2>1, <2>2
<1>3. \A t \in Topics : topicIndex'[t] = {i \in Ids(rules') : t \in rules'[i].topics}
  BY <1>1 DEF Delete, Unindexed, IndexesMatch
<1>4. \A w \in Tokens : postings'[w] = {i \in Ids(rules') : w \in rules'[i].text}
  BY <1>1 DEF Delete, Unindexed, IndexesMatch
<1>5. emptyIds' = {i \in Ids(rules') : rules'[i].text = {}}
  BY <1>1 DEF Delete, Unindexed, IndexesMatch
<1>. QED
  BY <1>1, <1>2, <1>3, <1>4, <1>5 DEF IndexesMatch

(* The rules of a memory: those in use, none of a change that failed.      *)
RulesAllowed(rs) ==
  /\ Ids(rs) \subseteq RuleIds /\ \A i \in Ids(rs) : rs[i] \in Rule
  /\ failedIds \cap Ids(rs) = {}

(* A rule that is added or changed is one the memory may hold.             *)
LEMMA WithIsAllowed ==
  ASSUME RulesAllowed(rules), NEW i \in RuleIds \ failedIds, NEW rule \in Rule,
         rules' = With(rules, i, rule)
  PROVE  RulesAllowed(rules')
BY DEF RulesAllowed, With, Ids

(* A rule that is confirmed keeps its text and is applied once more.       *)
LEMMA Confirmed ==
  ASSUME NEW old \in Rule, NEW topics \in SUBSET Topics
  PROVE  LET rule == [old EXCEPT !.topics = topics, !.applied = @ + 1]
         IN  rule \in Rule /\ rule.text = old.text /\ rule.topics = topics
<1>. DEFINE first == [old EXCEPT !.topics = topics]
            rule == [old EXCEPT !.topics = topics, !.applied = @ + 1]
<1>2. first \in Rule /\ first.text = old.text /\ first.topics = topics
  BY DEF Rule
<1>3. rule = [first EXCEPT !.applied = @ + 1]
  OBVIOUS
<1>. HIDE DEF first
<1>4. [first EXCEPT !.applied = @ + 1] \in Rule
  BY <1>2 DEF Rule
<1>5. /\ [first EXCEPT !.applied = @ + 1].text = first.text
      /\ [first EXCEPT !.applied = @ + 1].topics = first.topics
  BY <1>2 DEF Rule
<1>. QED
  BY <1>2, <1>3, <1>4, <1>5

(* Every change a request may make leaves the indexes as the rules say.    *)
LEMMA MutationKeepsIndexes ==
  ASSUME PrefTypes, IndexesMatch, RulesAllowed(rules), NEW r \in PrefRequests,
         ~Nothing(r), Mutate(r)
  PROVE  IndexesMatch' /\ RulesAllowed(rules')
<1>1. r.text \in SUBSET Tokens /\ r.topics \in SUBSET Topics
  <2>1. \A q \in PrefRequests :
          q.kind \in PrefKinds /\ q.text \subseteq Tokens /\ q.topics \subseteq Topics
    BY PreferenceAssumption
  <2>. QED
    BY <2>1
<1>2. /\ Ids(rules) \subseteq RuleIds /\ \A i \in Ids(rules) : i \notin failedIds /\ rules[i] \in Rule
  BY DEF RulesAllowed
<1>3. ASSUME NEW i \in Ids(rules), rules' = With(rules, i, [rules[i] EXCEPT !.applied = @ + 1]),
             UNCHANGED indexes
      PROVE  IndexesMatch' /\ RulesAllowed(rules')
  <2> DEFINE rule == [rules[i] EXCEPT !.applied = @ + 1]
  <2>1. rule \in Rule /\ rule.text = rules[i].text /\ rule.topics = rules[i].topics
    BY <1>2 DEF Rule
  <2>. HIDE DEF rule
  <2>2. rules' = With(rules, i, rule)
    BY <1>3 DEF rule
  <2>3. RulesAllowed(rules')
    BY <1>2, <2>1, <2>2, WithIsAllowed
  <2>4. /\ tokensById' = [j \in Ids(rules') |-> rules'[j].text]
        /\ \A w \in Tokens : postings'[w] = {j \in Ids(rules') : w \in rules'[j].text}
        /\ emptyIds' = {j \in Ids(rules') : rules'[j].text = {}}
    <3>1. UNCHANGED <<tokensById, postings, emptyIds>>
      BY <1>3 DEF indexes
    <3>. QED
      BY <2>1, <2>2, <3>1, SameTextMatches
  <2>5. \A t \in Topics : topicIndex'[t] = {j \in Ids(rules') : t \in rules'[j].topics}
    <3>1. topicIndex' = topicIndex
      BY <1>3 DEF indexes
    <3>2. Ids(rules') = Ids(rules) /\ \A j \in Ids(rules) : rules'[j].topics = rules[j].topics
      BY <2>1, <2>2 DEF With, Ids
    <3>. QED
      BY <3>1, <3>2 DEF IndexesMatch
  <2>. QED
    BY <2>3, <2>4, <2>5 DEF IndexesMatch
<1>4. CASE r.kind = "add" /\ Upsert(r)
  <2>1. ASSUME NEW i \in FindSimilar(r.text), NEW topics,
               topics = IF r.topics = {} THEN rules[i].topics ELSE r.topics,
               rules' = With(rules, i, [rules[i] EXCEPT !.topics = topics, !.applied = @ + 1]),
               topicIndex' = Retopic(i, rules[i].topics, topics),
               UNCHANGED <<tokensById, postings, emptyIds>>
        PROVE  IndexesMatch' /\ RulesAllowed(rules')
    <3> DEFINE rule == [rules[i] EXCEPT !.topics = topics, !.applied = @ + 1]
    <3>1. i \in Ids(rules)
      BY <1>1, IndexFindsSimilar DEF SimilarIsFound
    <3>2. rules[i] \in Rule /\ topics \in SUBSET Topics
      BY <1>1, <1>2, <2>1, <3>1 DEF Rule
    <3>3. rule \in Rule /\ rule.text = rules[i].text /\ rule.topics = topics
      BY <3>2, Confirmed
    <3>. HIDE DEF rule
    <3>4. rules' = With(rules, i, rule)
      BY <2>1 DEF rule
    <3>5. RulesAllowed(rules')
      BY <1>2, <3>1, <3>3, <3>4, WithIsAllowed
    <3>6. /\ tokensById' = [j \in Ids(rules') |-> rules'[j].text]
          /\ \A w \in Tokens : postings'[w] = {j \in Ids(rules') : w \in rules'[j].text}
          /\ emptyIds' = {j \in Ids(rules') : rules'[j].text = {}}
      BY <2>1, <3>1, <3>3, <3>4, SameTextMatches
    <3>7. topicIndex' = Retopic(i, rules[i].topics, rule.topics)
      BY <2>1, <3>3
    <3>8. \A t \in Topics : topicIndex'[t] = {j \in Ids(rules') : t \in rules'[j].topics}
      BY <3>1, <3>4, <3>7, RetopicMatches
    <3>. QED
      BY <3>5, <3>6, <3>8 DEF IndexesMatch
  <2>2. ASSUME NEW i \in RuleIds \ (Ids(rules) \cup Ids(stored) \cup failedIds),
               rules' = With(rules, i, [text |-> r.text, topics |-> r.topics, applied |-> 0]),
               topicIndex' = Retopic(i, {}, r.topics), Retoken(i, r.text)
        PROVE  IndexesMatch' /\ RulesAllowed(rules')
    <3> DEFINE rule == [text |-> r.text, topics |-> r.topics, applied |-> 0]
    <3>1. rule \in Rule /\ rule.text = r.text /\ rule.topics = r.topics
      BY <1>1 DEF Rule
    <3>. HIDE DEF rule
    <3>2. rules' = With(rules, i, rule)
      BY <2>2 DEF rule
    <3>3. RulesAllowed(rules')
      BY <3>1, <3>2, WithIsAllowed
    <3>4. topicIndex' = Retopic(i, {}, rule.topics) /\ Retoken(i, rule.text)
      BY <2>2, <3>1
    <3>5. \A t \in Topics : topicIndex'[t] = {j \in Ids(rules') : t \in rules'[j].topics}
      BY <3>2, <3>4, RetopicMatches
    <3>6. /\ tokensById' = [j \in Ids(rules') |-> rules'[j].text]
          /\ \A w \in Tokens : postings'[w] = {j \in Ids(rules') : w \in rules'[j].text}
          /\ emptyIds' = {j \in Ids(rules') : rules'[j].text = {}}
      BY <3>2, <3>4, RetokenMatches
    <3>. QED
      BY <3>3, <3>5, <3>6 DEF IndexesMatch
  <2>. QED
    BY <1>4, <2>1, <2>2 DEF Upsert
<1>5. CASE r.kind = "update" /\ Update(r)
  <2> DEFINE rule == [rules[r.id] EXCEPT !.text = r.text, !.topics = r.topics]
  <2>1. r.id \in Ids(rules)
    BY <1>5 DEF Nothing, Named
  <2>2. rule \in Rule /\ rule.text = r.text /\ rule.topics = r.topics
    BY <1>1, <1>2, <2>1 DEF Rule
  <2>. HIDE DEF rule
  <2>3. /\ rules' = With(rules, r.id, rule)
        /\ topicIndex' = Retopic(r.id, rules[r.id].topics, rule.topics) /\ Retoken(r.id, rule.text)
    BY <1>5, <2>2 DEF Update, rule
  <2>4. RulesAllowed(rules')
    BY <1>2, <2>1, <2>2, <2>3, WithIsAllowed
  <2>5. \A t \in Topics : topicIndex'[t] = {j \in Ids(rules') : t \in rules'[j].topics}
    BY <2>1, <2>3, RetopicMatches
  <2>6. /\ tokensById' = [j \in Ids(rules') |-> rules'[j].text]
        /\ \A w \in Tokens : postings'[w] = {j \in Ids(rules') : w \in rules'[j].text}
        /\ emptyIds' = {j \in Ids(rules') : rules'[j].text = {}}
    BY <2>3, RetokenMatches
  <2>. QED
    BY <2>4, <2>5, <2>6 DEF IndexesMatch
<1>6. ASSUME NEW gone, Delete(gone) PROVE IndexesMatch' /\ RulesAllowed(rules')
  BY <1>6, DeleteMatches DEF RulesAllowed
<1>7. CASE r.kind = "clear" /\ ReplaceRules(NoRules)
  <2>1. IndexesMatch' /\ rules' = NoRules
    BY <1>7, ReplacedIndexes
  <2>. QED
    BY <2>1 DEF RulesAllowed, NoRules, Ids
<1>8. r.kind = "mark" => r.id \in Ids(rules)
  BY DEF Nothing, Named
<1>. QED
  BY <1>3, <1>4, <1>5, <1>6, <1>7, <1>8 DEF Mutate

-----------------------------------------------------------------------------
(* What the invariant says of the preferences.                             *)
LEMMA PreferencesAreKept == PrefIInv => PreferenceInv
BY IndexFindsSimilar DEF PrefIInv, PreferenceInv, PrefTypes

(* And the invariant holds at first.                                       *)
LEMMA PreferencesStart == PrefInit => PrefIInv
<1>. SUFFICES ASSUME PrefInit PROVE PrefIInv
  OBVIOUS
<1>. USE DEF PrefInit
<1>1. /\ Ids(rules) = {} /\ rules = NoRules /\ known = FALSE /\ loads = {} /\ failedIds = {}
  BY DEF Ids, NoRules
<1>2. Ids(stored) \subseteq RuleIds /\ \A i \in Ids(stored) : stored[i] \in Rule
  <2>1. \A rs \in FirstRules : DOMAIN rs \subseteq RuleIds /\ \A i \in DOMAIN rs : rs[i] \in Rule
    BY PreferenceAssumption
  <2>. QED
    BY <2>1 DEF Ids
<1>3. PrefTypes
  <2>1. \A c \in Clients : place[c] = "idle"
    OBVIOUS
  <2>2. /\ place \in [Clients -> {"idle", "waits", "holds", "reads", "consults", "persists", "over"}]
        /\ answered \in [Clients -> {"none", "done", "failed"}] /\ DOMAIN before = Clients
    OBVIOUS
  <2>. QED
    BY <1>1, <1>2, <2>2 DEF PrefTypes, PrefTypeOK
<1>4. PrefMutex
  <2>1. InsideClients = {} /\ WaitingClients = {}
    BY DEF InsideClients, WaitingClients, Inner
  <2>2. prefLock \in [locked : BOOLEAN, queue : Seq(Clients)] /\ ~prefLock.locked /\ prefLock.queue = <<>>
    BY DEF FreeLock
  <2>3. Len(prefLock.queue) = 0
    BY <2>2
  <2>. QED
    BY <2>1, <2>2, <2>3 DEF PrefMutex, Exclusive
<1>5. IndexesMatch
  BY <1>1 DEF IndexesMatch
<1>. QED
  BY <1>1, <1>3, <1>4, <1>5
     DEF PrefIInv, LoadsAreCurrent, SnapshotIsStored, MemoryIsStored, FailedStaysOut

-----------------------------------------------------------------------------
(* A request comes and waits for the mutex, takes it, or only reads.       *)
LEMMA ComesKeepsPreferences ==
  ASSUME PrefIInv, NEW c \in Clients, PrefComes(c)
  PROVE  PrefIInv'
<1>1. /\ PrefTypes /\ PrefMutex /\ LoadsAreCurrent /\ SnapshotIsStored /\ place[c] = "idle"
      /\ c \notin InsideClients \cup WaitingClients
      /\ UNCHANGED <<known, rules, topicIndex, tokensById, postings, emptyIds, stored, loads, asks,
                     before, answered, failedIds>>
  BY DEF PrefIInv, PrefComes, InsideClients, WaitingClients, Inner, indexes
<1>2. PICK next \in {"reads", "waits", "holds"} : Goes(c, next)
  BY DEF PrefComes
<1>3. /\ place' \in [Clients -> {"idle", "waits", "holds", "reads", "consults", "persists", "over"}]
      /\ place'[c] = next /\ \A d \in Clients \ {c} : place'[d] = place[d]
  BY <1>1, <1>2 DEF Goes, PrefTypes, PrefTypeOK
<1>4. PrefMutex'
  <2>1. CASE next = "reads"
    <3>1. InsideClients' = InsideClients /\ WaitingClients' = WaitingClients
      BY <1>1, <1>3, <2>1 DEF InsideClients, WaitingClients, Inner
    <3>2. prefLock' = prefLock
      <4>1. place'[c] = "reads"
        BY <1>3, <2>1
      <4>2. asks[c].kind = "read" \/ Goes(c, IF prefLock.locked THEN "waits" ELSE "holds")
        BY DEF PrefComes
      <4>3. Goes(c, IF prefLock.locked THEN "waits" ELSE "holds") => place'[c] \in {"waits", "holds"}
        BY <1>1 DEF Goes, PrefTypes, PrefTypeOK
      <4>. QED
        BY <4>1, <4>2, <4>3 DEF PrefComes
    <3>. QED
      BY <1>1, <3>1, <3>2 DEF PrefMutex
  <2>2. CASE next # "reads"
    <3>1. prefLock' = AfterAcquire(prefLock, c) /\ Goes(c, IF prefLock.locked THEN "waits" ELSE "holds")
      <4>1. Goes(c, "reads") => place'[c] = "reads"
        BY <1>1 DEF Goes, PrefTypes, PrefTypeOK
      <4>. QED
        BY <1>3, <2>2, <4>1 DEF PrefComes
    <3>2. next = IF prefLock.locked THEN "waits" ELSE "holds"
      BY <1>1, <1>3, <3>1 DEF Goes, PrefTypes, PrefTypeOK
    <3>3. Exclusive(AfterAcquire(prefLock, c), IF prefLock.locked THEN InsideClients ELSE {c},
                    IF prefLock.locked THEN WaitingClients \cup {c} ELSE WaitingClients)
      BY <1>1, EnterExclusive DEF PrefMutex
    <3>4. InsideClients' = IF prefLock.locked THEN InsideClients ELSE {c}
      <4>1. ~prefLock.locked => InsideClients = {}
        BY <1>1 DEF PrefMutex, Exclusive
      <4>2. InsideClients' = IF prefLock.locked THEN InsideClients ELSE InsideClients \cup {c}
        BY <1>1, <1>3, <3>2 DEF InsideClients, Inner
      <4>. QED
        BY <4>1, <4>2
    <3>5. WaitingClients' = IF prefLock.locked THEN WaitingClients \cup {c} ELSE WaitingClients
      BY <1>1, <1>3, <3>2 DEF WaitingClients
    <3>. QED
      BY <3>1, <3>3, <3>4, <3>5 DEF PrefMutex
  <2>. QED
    BY <2>1, <2>2
<1>5. PrefTypes'
  BY <1>1, <1>3 DEF PrefTypes, PrefTypeOK
<1>6. LoadsAreCurrent'
  <2>1. \A l \in loads : c \notin l.waiting
    BY <1>1 DEF LoadsAreCurrent
  <2>. QED
    BY <1>1, <1>3, <2>1 DEF LoadsAreCurrent
<1>7. SnapshotIsStored'
  BY <1>1, <1>3 DEF SnapshotIsStored
<1>8. IndexesMatch' /\ FailedStaysOut' /\ (failedIds \cap Ids(rules) = {})'
  BY <1>1 DEF PrefIInv, IndexesMatch, FailedStaysOut
<1>9. MemoryIsStored'
  BY <1>1, <1>3 DEF PrefIInv, MemoryIsStored
<1>. QED
  BY <1>4, <1>5, <1>6, <1>7, <1>8, <1>9 DEF PrefIInv

(* Somebody begins a load, or awaits the one that runs.                    *)
LEMMA LoadBeginsKeepsPreferences ==
  ASSUME PrefIInv, NEW c \in Clients, EnsureLoaded(c)
  PROVE  PrefIInv'
<1>1. /\ PrefTypes /\ PrefMutex /\ LoadsAreCurrent /\ SnapshotIsStored
      /\ place[c] \in {"reads", "holds"} /\ ~known
      /\ UNCHANGED <<known, rules, topicIndex, tokensById, postings, emptyIds, stored, prefLock,
                     place, asks, before, answered, failedIds>>
  BY DEF PrefIInv, EnsureLoaded, indexes
<1>2. LoadsAreCurrent'
  <2>1. CASE SharesLoad
    <3>1. loads' = {[l EXCEPT !.waiting = @ \cup {c}] : l \in loads}
      BY <2>1 DEF EnsureLoaded
    <3>2. ASSUME NEW k \in loads', NEW l \in loads' PROVE k = l
      <4>1. PICK x \in loads : k = [x EXCEPT !.waiting = @ \cup {c}]
        BY <3>1
      <4>2. PICK y \in loads : l = [y EXCEPT !.waiting = @ \cup {c}]
        BY <3>1
      <4>3. x = y
        BY <1>1 DEF LoadsAreCurrent
      <4>. QED
        BY <4>1, <4>2, <4>3
    <3>3. ASSUME NEW l \in loads'
          PROVE  /\ l.value = stored
                 /\ \A d \in l.waiting : d \in Clients /\ place[d] \in {"reads", "holds"}
      <4>1. PICK x \in loads : l = [x EXCEPT !.waiting = @ \cup {c}]
        BY <3>1
      <4>2. x.value = stored /\ \A d \in x.waiting : d \in Clients /\ place[d] \in {"reads", "holds"}
        BY <1>1 DEF LoadsAreCurrent
      <4>3. l.value = x.value /\ (l.waiting = x.waiting \cup {c} \/ l.waiting = x.waiting)
        BY <4>1
      <4>. QED
        BY <1>1, <4>2, <4>3
    <3>. QED
      BY <1>1, <3>2, <3>3 DEF LoadsAreCurrent
  <2>2. CASE ~SharesLoad
    <3>1. loads' = {[by |-> c, waiting |-> {c}, value |-> stored]}
      BY <2>2 DEF EnsureLoaded, SharesLoad
    <3>. QED
      BY <1>1, <3>1 DEF LoadsAreCurrent
  <2>. QED
    BY <2>1, <2>2
<1>3. PrefMutex'
  BY <1>1 DEF PrefMutex, InsideClients, WaitingClients
<1>. QED
  BY <1>1, <1>2, <1>3
     DEF PrefIInv, PrefTypes, PrefTypeOK, SnapshotIsStored, IndexesMatch,
     MemoryIsStored, FailedStaysOut

(* The file was read: the memory is what it holds, indexed.                *)
LEMMA LoadSettlesKeepsPreferences ==
  ASSUME PrefIInv, NEW l \in loads, LoadSettles(l)
  PROVE  PrefIInv'
<1>1. /\ PrefTypes /\ PrefMutex /\ LoadsAreCurrent /\ SnapshotIsStored /\ FailedStaysOut
      /\ known' = TRUE /\ ReplaceRules(l.value) /\ loads' = loads \ {l}
      /\ UNCHANGED <<stored, prefLock, place, asks, before, answered, failedIds>>
  BY DEF PrefIInv, LoadSettles
<1>2. rules' = stored /\ IndexesMatch' /\ loads' = {} /\ ~known
  BY <1>1, ReplacedIndexes DEF LoadsAreCurrent
<1>3. PrefMutex'
  BY <1>1 DEF PrefMutex, InsideClients, WaitingClients
<1>4. \A c \in Clients : place[c] \notin {"consults", "persists"}
  BY <1>1, <1>2 DEF SnapshotIsStored
<1>5. PrefTypes'
  BY <1>1, <1>2 DEF PrefTypes, PrefTypeOK
<1>6. LoadsAreCurrent' /\ SnapshotIsStored'
  BY <1>1, <1>2, <1>4 DEF LoadsAreCurrent, SnapshotIsStored
<1>7. MemoryIsStored' /\ FailedStaysOut' /\ (failedIds \cap Ids(rules) = {})'
  BY <1>1, <1>2 DEF MemoryIsStored, FailedStaysOut
<1>. QED
  BY <1>2, <1>3, <1>5, <1>6, <1>7 DEF PrefIInv

(* The file cannot be read, and all who awaited it are told so.            *)
LEMMA LoadFailsKeepsPreferences ==
  ASSUME PrefIInv, NEW l \in loads, LoadFails(l)
  PROVE  PrefIInv'
<1> DEFINE holder == {c \in l.waiting : place[c] = "holds"}
           first == HandedTo(prefLock)
<1>1. /\ PrefTypes /\ PrefMutex /\ LoadsAreCurrent /\ SnapshotIsStored
      /\ loads' = loads \ {l}
      /\ answered' = [c \in Clients |-> IF c \in l.waiting THEN "failed" ELSE answered[c]]
      /\ prefLock' = (IF holder # {} THEN AfterRelease(prefLock) ELSE prefLock)
      /\ place' = [c \in Clients |-> IF c \in l.waiting THEN "over"
                                     ELSE IF holder # {} /\ c \in first THEN "holds" ELSE place[c]]
      /\ UNCHANGED <<known, rules, topicIndex, tokensById, postings, emptyIds, stored, asks, before,
                     failedIds>>
  BY DEF PrefIInv, LoadFails, indexes
<1>2. /\ ~known /\ loads' = {}
      /\ \A c \in l.waiting : c \in Clients /\ place[c] \in {"reads", "holds"}
  BY <1>1 DEF LoadsAreCurrent
<1>3. \A c \in Clients :
        /\ place[c] \in {"idle", "waits", "holds", "reads", "over"}
        /\ answered[c] \in {"none", "done", "failed"}
  BY <1>1, <1>2 DEF SnapshotIsStored, PrefTypes, PrefTypeOK
<1>4. PrefMutex'
  <2>1. CASE holder = {}
    <3>1. \A c \in Clients : place'[c] = IF c \in l.waiting THEN "over" ELSE place[c]
      BY <1>1, <2>1
    <3>2. \A c \in l.waiting : place[c] = "reads"
      BY <1>2, <2>1
    <3>3. InsideClients' = InsideClients /\ WaitingClients' = WaitingClients
      <4>. HIDE DEF holder, first
      <4>. QED
        BY <3>1, <3>2 DEF InsideClients, WaitingClients, Inner
    <3>. QED
      BY <1>1, <2>1, <3>3 DEF PrefMutex
  <2>2. CASE holder # {}
    <3>1. PICK h \in holder : TRUE
      BY <2>2
    <3>2. h \in InsideClients /\ InsideClients \subseteq {h} /\ h \in l.waiting
      <4>1. h \in InsideClients
        BY <1>2, <3>1 DEF InsideClients, Inner
      <4>. QED
        BY <1>1, <3>1, <4>1 DEF PrefMutex, Exclusive
    <3>3. /\ Exclusive(AfterRelease(prefLock), first, WaitingClients \ first)
          /\ first \subseteq WaitingClients
      BY <1>1, <3>2, LeaveExclusive DEF PrefMutex
    <3>4. /\ place' = [c \in Clients |-> IF c \in l.waiting THEN "over"
                                         ELSE IF c \in first THEN "holds" ELSE place[c]]
          /\ prefLock' = AfterRelease(prefLock)
      BY <1>1, <2>2
    <3>. HIDE DEF holder, first
    <3>5. \A d \in first : d \in Clients /\ place[d] = "waits" /\ d \notin l.waiting
      BY <1>2, <3>3 DEF WaitingClients
    <3>6. ASSUME NEW d \in Clients
          PROVE  /\ place'[d] \in Inner <=> d \in first
                 /\ place'[d] = "waits" <=> place[d] = "waits" /\ d \notin first
      <4>1. d # h => place[d] \notin Inner
        BY <3>2 DEF InsideClients
      <4>. QED
        BY <1>2, <3>2, <3>4, <3>5, <4>1 DEF Inner
    <3>7. InsideClients' = first /\ WaitingClients' = WaitingClients \ first
      BY <3>5, <3>6 DEF InsideClients, WaitingClients
    <3>. QED
      BY <3>3, <3>4, <3>7 DEF PrefMutex
  <2>. QED
    BY <2>1, <2>2
<1>5. place' \in [Clients -> {"idle", "waits", "holds", "reads", "over"}]
  BY <1>1, <1>3
<1>6. PrefTypes'
  <2>1. answered' \in [Clients -> {"none", "done", "failed"}]
    BY <1>1, <1>3
  <2>. QED
    BY <1>1, <1>5, <2>1 DEF PrefTypes, PrefTypeOK
<1>7. LoadsAreCurrent' /\ SnapshotIsStored'
  BY <1>1, <1>2, <1>5 DEF LoadsAreCurrent, SnapshotIsStored
<1>8. IndexesMatch' /\ MemoryIsStored' /\ FailedStaysOut' /\ (failedIds \cap Ids(rules) = {})'
  BY <1>1, <1>2 DEF PrefIInv, IndexesMatch, MemoryIsStored, FailedStaysOut
<1>. QED
  BY <1>4, <1>6, <1>7, <1>8 DEF PrefIInv

(* A reader is answered once the rules are known.                          *)
LEMMA ReadKeepsPreferences ==
  ASSUME PrefIInv, NEW c \in Clients, Read(c)
  PROVE  PrefIInv'
<1>1. /\ PrefTypes /\ PrefMutex /\ LoadsAreCurrent /\ SnapshotIsStored
      /\ place[c] = "reads" /\ known /\ Goes(c, "over") /\ answered' = [answered EXCEPT ![c] = "done"]
      /\ UNCHANGED <<known, rules, topicIndex, tokensById, postings, emptyIds, stored, loads,
                     prefLock, asks, before, failedIds>>
  BY DEF PrefIInv, Read, indexes
<1>2. /\ PrefMutex'
      /\ place' \in [Clients -> {"idle", "waits", "holds", "reads", "consults", "persists", "over"}]
      /\ place'[c] = "over" /\ \A d \in Clients \ {c} : place'[d] = place[d]
  BY <1>1, GoesKeepsMutex DEF Inner
<1>3. PrefTypes'
  <2>1. answered' \in [Clients -> {"none", "done", "failed"}]
    BY <1>1 DEF PrefTypes, PrefTypeOK
  <2>. QED
    BY <1>1, <1>2, <2>1 DEF PrefTypes, PrefTypeOK
<1>4. LoadsAreCurrent' /\ SnapshotIsStored'
  BY <1>1, <1>2 DEF LoadsAreCurrent, SnapshotIsStored
<1>5. IndexesMatch' /\ FailedStaysOut' /\ (failedIds \cap Ids(rules) = {})'
  BY <1>1 DEF PrefIInv, IndexesMatch, FailedStaysOut
<1>6. MemoryIsStored'
  BY <1>1, <1>2 DEF PrefIInv, MemoryIsStored
<1>. QED
  BY <1>2, <1>3, <1>4, <1>5, <1>6 DEF PrefIInv

-----------------------------------------------------------------------------
(* Whoever is inside is alone there, no load runs once the rules are       *)
(* known, and the memory is what the file holds until it changes it.       *)
LEMMA InsideIsAlone ==
  ASSUME PrefIInv, NEW c \in Clients, place[c] \in Inner, known
  PROVE  /\ \A d \in Clients \ {c} : place[d] \notin Inner
         /\ loads = {}
         /\ place[c] # "persists" => rules = stored
<1>1. \A d \in Clients \ {c} : place[d] \notin Inner
  BY DEF PrefIInv, PrefMutex, Exclusive, InsideClients
<1>. QED
  BY <1>1 DEF PrefIInv, LoadsAreCurrent, MemoryIsStored, Inner

(* A request that ends, with the memory and the file alike.                *)
LEMMA AnswerKeepsPreferences ==
  ASSUME PrefIInv, NEW c \in Clients, place[c] \in Inner, known, known',
         NEW o \in {"done", "failed"}, Answer(c, o),
         rules' = stored', Ids(stored') \subseteq RuleIds, \A i \in Ids(stored') : stored'[i] \in Rule,
         IndexesMatch', FailedStaysOut', failedIds' \subseteq RuleIds,
         UNCHANGED <<known, loads, asks, before>>
  PROVE  PrefIInv'
<1>1. PrefTypes /\ PrefMutex /\ loads = {}
  BY InsideIsAlone DEF PrefIInv
<1>2. /\ PrefMutex'
      /\ place' \in [Clients -> {"idle", "waits", "holds", "reads", "consults", "persists", "over"}]
      /\ answered' \in [Clients -> {"none", "done", "failed"}]
      /\ \A d \in Clients : place'[d] \notin {"consults", "persists"}
  BY <1>1, AnswerKeepsMutex
<1>3. PrefTypes'
  BY <1>1, <1>2 DEF PrefTypes, PrefTypeOK
<1>4. LoadsAreCurrent' /\ SnapshotIsStored' /\ MemoryIsStored'
  BY <1>1, <1>2 DEF LoadsAreCurrent, SnapshotIsStored, MemoryIsStored
<1>5. failedIds' \cap Ids(rules') = {}
  BY DEF FailedStaysOut
<1>. QED
  BY <1>2, <1>3, <1>4, <1>5 DEF PrefIInv

(* What was in the memory when it changes is what the file holds.          *)
LEMMA ChangeKeepsPreferences ==
  ASSUME PrefIInv, NEW c \in Clients, place[c] \in {"holds", "consults"}, known,
         IndexesMatch', RulesAllowed(rules'), before' = [before EXCEPT ![c] = rules],
         Goes(c, "persists"),
         UNCHANGED <<known, stored, loads, prefLock, asks, answered, failedIds>>
  PROVE  PrefIInv'
<1>1. /\ PrefTypes /\ PrefMutex /\ SnapshotIsStored /\ loads = {} /\ rules = stored
      /\ \A d \in Clients \ {c} : place[d] \notin Inner
  BY InsideIsAlone DEF PrefIInv, Inner
<1>2. /\ PrefMutex'
      /\ place' \in [Clients -> {"idle", "waits", "holds", "reads", "consults", "persists", "over"}]
      /\ place'[c] = "persists" /\ \A d \in Clients \ {c} : place'[d] = place[d]
  BY <1>1, GoesKeepsMutex DEF Inner
<1>3. DOMAIN before' = Clients /\ before'[c] = stored
  BY <1>1 DEF PrefTypes
<1>4. PrefTypes'
  BY <1>1, <1>2, <1>3 DEF PrefTypes, PrefTypeOK, RulesAllowed
<1>5. SnapshotIsStored'
  BY <1>1, <1>2, <1>3 DEF SnapshotIsStored, Inner
<1>6. LoadsAreCurrent' /\ MemoryIsStored'
  BY <1>1, <1>2 DEF LoadsAreCurrent, MemoryIsStored
<1>7. FailedStaysOut' /\ (failedIds \cap Ids(rules) = {})'
  BY DEF PrefIInv, FailedStaysOut, RulesAllowed
<1>. QED
  BY <1>2, <1>4, <1>5, <1>6, <1>7 DEF PrefIInv

(* A request has nothing to do, asks the model, or changes the rules.      *)
LEMMA LockedKeepsPreferences ==
  ASSUME PrefIInv, NEW c \in Clients, Locked(c)
  PROVE  PrefIInv'
<1>1. /\ PrefTypes /\ PrefMutex /\ LoadsAreCurrent /\ SnapshotIsStored /\ IndexesMatch
      /\ RulesAllowed(rules) /\ place[c] = "holds" /\ known
      /\ UNCHANGED <<known, stored, loads, asks, failedIds>>
  BY DEF PrefIInv, Locked, RulesAllowed, PrefTypes, PrefTypeOK
<1>2. rules = stored /\ loads = {} /\ \A d \in Clients \ {c} : place[d] \notin Inner
  BY <1>1, InsideIsAlone DEF Inner
<1>3. CASE Answer(c, "done") /\ UNCHANGED <<rules, indexes, before>>
  <2>1. /\ rules' = stored' /\ Ids(stored') \subseteq RuleIds /\ \A i \in Ids(stored') : stored'[i] \in Rule
        /\ failedIds' \subseteq RuleIds
    BY <1>1, <1>2, <1>3 DEF PrefTypes, PrefTypeOK
  <2>2. IndexesMatch' /\ FailedStaysOut'
    BY <1>1, <1>3 DEF PrefIInv, IndexesMatch, FailedStaysOut, indexes
  <2>. QED
    BY <1>1, <1>3, <2>1, <2>2, AnswerKeepsPreferences DEF Inner
<1>4. CASE Goes(c, "consults") /\ UNCHANGED <<rules, indexes, before, prefLock, answered>>
  <2>1. /\ PrefMutex'
        /\ place' \in [Clients -> {"idle", "waits", "holds", "reads", "consults", "persists", "over"}]
        /\ place'[c] = "consults" /\ \A d \in Clients \ {c} : place'[d] = place[d]
    BY <1>1, <1>4, GoesKeepsMutex DEF Inner
  <2>2. PrefTypes'
    BY <1>1, <1>4, <2>1 DEF PrefTypes, PrefTypeOK
  <2>3. LoadsAreCurrent' /\ SnapshotIsStored' /\ MemoryIsStored'
    BY <1>1, <1>2, <1>4, <2>1 DEF LoadsAreCurrent, SnapshotIsStored, MemoryIsStored
  <2>4. IndexesMatch' /\ FailedStaysOut' /\ (failedIds \cap Ids(rules) = {})'
    BY <1>1, <1>4 DEF PrefIInv, IndexesMatch, FailedStaysOut, indexes
  <2>. QED
    BY <2>1, <2>2, <2>3, <2>4 DEF PrefIInv
<1>5. CASE /\ ~Nothing(asks[c]) /\ Mutate(asks[c]) /\ before' = [before EXCEPT ![c] = rules]
           /\ Goes(c, "persists") /\ UNCHANGED <<prefLock, answered>>
  <2>1. asks[c] \in PrefRequests
    BY <1>1 DEF PrefTypes
  <2>2. IndexesMatch' /\ RulesAllowed(rules')
    BY <1>1, <1>5, <2>1, MutationKeepsIndexes
  <2>. QED
    BY <1>1, <1>5, <2>2, ChangeKeepsPreferences
<1>. QED
  BY <1>3, <1>4, <1>5 DEF Locked

(* The model answers, or fails to.                                         *)
LEMMA ConsolidatedIsAllowed ==
  ASSUME RulesAllowed(rules), NEW answer \in Answers, {e.id : e \in answer} \subseteq Ids(rules) \cup {NoId}
  PROVE  RulesAllowed(Consolidated(answer))
<1>1. \A e \in answer : e.text \in SUBSET Tokens /\ e.topics \in SUBSET Topics
  <2>1. \A a \in Answers : \A e \in a : e.text \subseteq Tokens /\ e.topics \subseteq Topics
    BY PreferenceAssumption
  <2>. QED
    BY <2>1
<1>2. Ids(Consolidated(answer)) = {e.id : e \in Kept(answer)}
  BY DEF Consolidated, Ids
<1>3. Ids(Consolidated(answer)) \subseteq Ids(rules)
  BY <1>2 DEF Kept
<1>4. ASSUME NEW i \in {e.id : e \in Kept(answer)} PROVE Consolidated(answer)[i] \in Rule
  <2> DEFINE chosen == CHOOSE e \in Kept(answer) : e.id = i
  <2>1. chosen \in Kept(answer)
    BY <1>4
  <2>. HIDE DEF chosen
  <2>2. chosen.text \in SUBSET Tokens /\ chosen.topics \in SUBSET Topics
    BY <1>1, <2>1 DEF Kept
  <2>3. Consolidated(answer)[i] = [text |-> chosen.text, topics |-> chosen.topics, applied |-> 0]
    BY <1>4 DEF Consolidated, chosen
  <2>. QED
    BY <2>2, <2>3 DEF Rule
<1>. QED
  BY <1>2, <1>3, <1>4 DEF RulesAllowed

(* The model that consolidates answers, or fails.                          *)
LEMMA ModelKeepsPreferences ==
  ASSUME PrefIInv, NEW c \in Clients, ModelAnswers(c) \/ ModelFails(c)
  PROVE  PrefIInv'
<1>1. /\ PrefTypes /\ SnapshotIsStored /\ IndexesMatch /\ RulesAllowed(rules) /\ place[c] = "consults"
      /\ UNCHANGED <<known, stored, loads, asks, failedIds>>
  BY DEF PrefIInv, ModelAnswers, ModelFails, RulesAllowed, PrefTypes, PrefTypeOK
<1>2. known /\ known'
  BY <1>1 DEF SnapshotIsStored
<1>3. rules = stored
  BY <1>1, <1>2, InsideIsAlone DEF Inner
<1>4. ASSUME NEW o \in {"done", "failed"}, Answer(c, o), UNCHANGED <<rules, indexes, before>>
      PROVE  PrefIInv'
  <2>1. /\ rules' = stored' /\ Ids(stored') \subseteq RuleIds /\ \A i \in Ids(stored') : stored'[i] \in Rule
        /\ failedIds' \subseteq RuleIds
    BY <1>1, <1>3, <1>4 DEF PrefTypes, PrefTypeOK
  <2>2. IndexesMatch' /\ FailedStaysOut'
    BY <1>1, <1>4 DEF PrefIInv, IndexesMatch, FailedStaysOut, indexes
  <2>. QED
    BY <1>1, <1>2, <1>4, <2>1, <2>2, AnswerKeepsPreferences DEF Inner
<1>5. ASSUME NEW answer \in Answers, {e.id : e \in answer} \subseteq Ids(rules) \cup {NoId},
             ReplaceRules(Consolidated(answer)), before' = [before EXCEPT ![c] = rules],
             Goes(c, "persists"), UNCHANGED <<prefLock, answered>>
      PROVE  PrefIInv'
  <2>1. IndexesMatch' /\ rules' = Consolidated(answer)
    BY <1>5, ReplacedIndexes
  <2>2. RulesAllowed(rules')
    BY <1>1, <1>5, <2>1, ConsolidatedIsAllowed
  <2>. QED
    BY <1>1, <1>2, <1>5, <2>1, <2>2, ChangeKeepsPreferences
<1>. QED
  BY <1>4, <1>5 DEF ModelAnswers, ModelFails

(* The file is written, or cannot be and the snapshot is put back.         *)
LEMMA PersistKeepsPreferences ==
  ASSUME PrefIInv, NEW c \in Clients, Persist(c) \/ PersistFails(c)
  PROVE  PrefIInv'
<1>1. /\ PrefTypes /\ SnapshotIsStored /\ IndexesMatch /\ place[c] = "persists" /\ before[c] = stored
      /\ UNCHANGED <<known, loads, asks, before>> /\ known /\ known'
  BY DEF PrefIInv, Persist, PersistFails, SnapshotIsStored
<1>2. /\ Ids(rules) \subseteq RuleIds /\ \A i \in Ids(rules) : rules[i] \in Rule
      /\ Ids(stored) \subseteq RuleIds /\ \A i \in Ids(stored) : stored[i] \in Rule
      /\ failedIds \subseteq RuleIds
      /\ failedIds \cap Ids(rules) = {} /\ failedIds \cap Ids(stored) = {}
  BY <1>1 DEF PrefIInv, PrefTypes, PrefTypeOK, FailedStaysOut
<1>3. CASE Persist(c)
  <2>1. stored' = rules /\ Answer(c, "done") /\ UNCHANGED <<rules, indexes, failedIds>>
    BY <1>3 DEF Persist
  <2>2. IndexesMatch' /\ FailedStaysOut'
    BY <1>1, <1>2, <2>1 DEF IndexesMatch, FailedStaysOut, indexes
  <2>. QED
    BY <1>1, <1>2, <2>1, <2>2, AnswerKeepsPreferences DEF Inner
<1>4. CASE PersistFails(c)
  <2>1. /\ ReplaceRules(stored) /\ Answer(c, "failed") /\ stored' = stored
        /\ failedIds' = failedIds \cup (Ids(rules) \ Ids(stored))
    BY <1>1, <1>4 DEF PersistFails, Undo
  <2>2. IndexesMatch' /\ rules' = stored
    BY <2>1, ReplacedIndexes
  <2>3. FailedStaysOut' /\ failedIds' \subseteq RuleIds
    BY <1>2, <2>1 DEF FailedStaysOut
  <2>. QED
    BY <1>1, <1>2, <2>1, <2>2, <2>3, AnswerKeepsPreferences DEF Inner
<1>. QED
  BY <1>3, <1>4

(* Every step of the preferences keeps the invariant.                      *)
LEMMA PreferencesStep == PrefIInv /\ [PrefNext]_prefVars => PrefIInv'
<1>. SUFFICES ASSUME PrefIInv, [PrefNext]_prefVars PROVE PrefIInv'
  OBVIOUS
<1>1. CASE UNCHANGED prefVars
  BY <1>1
     DEF prefVars, PrefIInv, PrefTypes, PrefTypeOK, PrefMutex, InsideClients,
         WaitingClients,
     LoadsAreCurrent, SnapshotIsStored, IndexesMatch, MemoryIsStored, FailedStaysOut
<1>2. CASE LoadEnds
  BY <1>2, LoadSettlesKeepsPreferences, LoadFailsKeepsPreferences DEF LoadEnds
<1>3. ASSUME NEW c \in Clients, ClientStep(c) PROVE PrefIInv'
  BY <1>3, ComesKeepsPreferences, LoadBeginsKeepsPreferences, ReadKeepsPreferences,
     LockedKeepsPreferences, ModelKeepsPreferences, PersistKeepsPreferences DEF ClientStep
<1>. QED
  BY <1>1, <1>2, <1>3 DEF PrefNext

-----------------------------------------------------------------------------
(* Each store by itself, whatever its callers ask for and whatever fails.  *)
(* The secrets: what SecretInv says holds at every moment of a start.      *)
THEOREM SecretsAreSafe == SecretInit /\ [][SecretNext]_secretVars => []SecretInv
<1>1. SecretInit => SecretIInv
  BY SecretsStart
<1>2. SecretIInv /\ [SecretNext]_secretVars => SecretIInv'
  BY SecretsStep
<1>3. SecretIInv => SecretInv
  BY SecretsAreKept
<1>. QED
  BY <1>1, <1>2, <1>3, PTL

(* The skills: what SkillInv says holds at every moment.                   *)
THEOREM SkillsAreSafe == SkillInit /\ [][SkillNext]_skillVars => []SkillInv
<1>1. SkillInit => SkillIInv
  BY SkillsStart
<1>2. SkillIInv /\ [SkillNext]_skillVars => SkillIInv'
  BY SkillsStep
<1>3. SkillIInv => SkillInv
  BY SkillsAreKept
<1>. QED
  BY <1>1, <1>2, <1>3, PTL

(* The memory of tasks: what MemoryInv says holds at every moment.         *)
THEOREM MemoryIsSafe == MemInit /\ [][MemNext]_memVars => []MemoryInv
<1>1. MemInit => MemIInv
  BY MemoryStart
<1>2. MemIInv /\ [MemNext]_memVars => MemIInv'
  BY MemoryStep
<1>3. MemIInv => MemoryInv
  BY MemoryIsKept
<1>. QED
  BY <1>1, <1>2, <1>3, PTL

(* The preferences: both indexes always say what the rules say, a similar  *)
(* rule is found if there is one, and no change that failed is written.    *)
THEOREM PreferencesAreSafe == PrefInit /\ [][PrefNext]_prefVars => []PreferenceInv
<1>1. PrefInit => PrefIInv
  BY PreferencesStart
<1>2. PrefIInv /\ [PrefNext]_prefVars => PrefIInv'
  BY PreferencesStep
<1>3. PrefIInv => PreferenceInv
  BY PreferencesAreKept
<1>. QED
  BY <1>1, <1>2, <1>3, PTL

(* The parts of the server side by side: every step of the server is one   *)
(* of a part or leaves it alone.                                           *)
StoresIInv == ConfigIInv /\ SecretIInv /\ SkillIInv /\ MemIInv /\ PrefIInv
WorkIInv ==
  /\ SubIInv /\ WindowFacts /\ FileFacts /\ ProcIInv /\ LibIInv /\ PullIInv /\ PlaceIInv
  /\ LookupFacts /\ ReasonFacts /\ HistoryFacts /\ ScreenIInv

(* A step of the server is one of each store, or leaves it alone.          *)
LEMMA ServerStep ==
  ASSUME MCNext
  PROVE  /\ [ConfigNext]_configVars /\ [SecretNext]_secretVars /\ [SkillNext]_skillVars
         /\ [MemNext]_memVars /\ [PrefNext]_prefVars
<1>1. OthersKeep
  BY DEF MCNext
<1>2. SecretNext \/ part # "secrets"
  BY DEF MCNext
<1>3. SkillNext \/ part # "skills"
  BY DEF MCNext
<1>4. MemNext \/ part # "memory"
  BY DEF MCNext
<1>5. PrefNext \/ part # "preferences"
  BY DEF MCNext
<1>6. ConfigNext \/ part # "config"
  BY DEF MCNext
<1>. QED
  BY <1>1, <1>2, <1>3, <1>4, <1>5, <1>6 DEF OthersKeep

(* A step of the server is one of each part that works, or leaves it       *)
(* alone.                                                                  *)
LEMMA WorkStep ==
  ASSUME MCNext
  PROVE  /\ [SubNext]_subVars /\ [BuilderNext]_builderVars /\ [ProcNext]_procVars
         /\ [CallsNext]_callVars /\ [LibNext]_libVars /\ [PlaceNext]_placeVars
         /\ [TaskNext]_taskVars
<1>1. OthersKeep
  BY DEF MCNext
<1>2. SubNext \/ part # "subagent"
  BY DEF MCNext
<1>3. BuilderNext \/ part # "context"
  BY DEF MCNext
<1>4. ProcNext \/ part # "process"
  BY DEF MCNext
<1>5. CallsNext \/ part # "calls"
  BY DEF MCNext
<1>6. LibNext \/ part # "library"
  BY DEF MCNext
<1>7. PlaceNext \/ part # "placement"
  BY DEF MCNext
<1>8. TaskNext \/ part # "task"
  BY DEF MCNext
<1>. QED
  BY <1>1, <1>2, <1>3, <1>4, <1>5, <1>6, <1>7, <1>8 DEF OthersKeep

(* What the server keeps on disk for its user, its configuration included, *)
(* and in memory for that, is right at every moment (StoresInv).           *)
THEOREM StoresAreSafe == MCSpec => []StoresInv
<1>1. MCInit => StoresIInv
  BY InitIInv, SecretsStart, SkillsStart, MemoryStart, PreferencesStart DEF MCInit, StoresIInv
<1>2. StoresIInv /\ [MCNext]_<<part, configVars, prefVars, skillVars, secretVars, streamVars, subVars,
                              memVars, taskVars, builderVars, procVars, promptVars, callVars,
                              libVars, textVars, placeVars>> => StoresIInv'
  <2>1. CASE MCNext
    BY <2>1, ServerStep, NextKeepsIInv, SecretsStep, SkillsStep, MemoryStep, PreferencesStep
       DEF StoresIInv
  <2>2. CASE UNCHANGED <<part, configVars, prefVars, skillVars, secretVars, streamVars, subVars,
                         memVars, taskVars, builderVars, procVars, promptVars, callVars,
                         libVars, textVars, placeVars>>
    <3>1. secretVars' = secretVars /\ skillVars' = skillVars /\ memVars' = memVars
          /\ prefVars' = prefVars /\ configVars' = configVars
      BY <2>2
    <3>. QED
      BY <3>1, NextKeepsIInv, SecretsStep, SkillsStep, MemoryStep, PreferencesStep DEF StoresIInv
  <2>. QED
    BY <2>1, <2>2
<1>3. StoresIInv => StoresInv
  BY SecretsAreKept, SkillsAreKept, MemoryIsKept, PreferencesAreKept
     DEF StoresIInv, StoresInv, ConfigIInv
<1>. QED
  BY <1>1, <1>2, <1>3, PTL DEF MCSpec

(* What the server does with a task and around it is right at every        *)
(* moment: subagents, headers, calls, placements, the library of models,   *)
(* the process itself and what the user sees of a task (WorkInv).          *)
THEOREM WorkIsSafe == MCSpec => []WorkInv
<1>1. MCInit => WorkIInv
  BY SubStarts, WindowStarts, FilesStart, ProcStarts, LibStarts, PullStarts, PlaceStarts,
     LookupStarts, ReasonStarts, HistoryStarts, ScreenStarts, StreamsAssumption
     DEF MCInit, WorkIInv
<1>2. ASSUME WorkIInv, [SubNext]_subVars, [BuilderNext]_builderVars, [ProcNext]_procVars,
             [CallsNext]_callVars, [LibNext]_libVars, [PlaceNext]_placeVars, [TaskNext]_taskVars
      PROVE  WorkIInv'
  <2>1. SubIInv' /\ WindowFacts' /\ FileFacts'
    BY <1>2, SubStepKeeps, WindowKeeps, FilesKeep DEF WorkIInv
  <2>2. ProcIInv'
    BY <1>2, StagesKeep, ChildKeeps, PeersKeep, OrderKeeps DEF WorkIInv, ProcIInv
  <2>3. LibIInv' /\ PullIInv' /\ PlaceIInv'
    BY <1>2, LibStepKeeps, PullStepKeeps, PlaceStepKeeps DEF WorkIInv
  <2>4. LookupFacts' /\ ReasonFacts' /\ HistoryFacts'
    BY <1>2, LookupKeeps, ReasonKeeps, HistoryKeeps DEF WorkIInv
  <2>5. ScreenIInv'
    BY <1>2, ScreenStep, StreamsAssumption DEF WorkIInv
  <2>. QED
    BY <2>1, <2>2, <2>3, <2>4, <2>5 DEF WorkIInv
<1>3. WorkIInv /\ [MCNext]_<<part, configVars, prefVars, skillVars, secretVars, streamVars, subVars,
                            memVars, taskVars, builderVars, procVars, promptVars, callVars,
                            libVars, textVars, placeVars>> => WorkIInv'
  <2>1. CASE MCNext
    BY <2>1, <1>2, WorkStep
  <2>2. CASE UNCHANGED <<part, configVars, prefVars, skillVars, secretVars, streamVars, subVars,
                         memVars, taskVars, builderVars, procVars, promptVars, callVars,
                         libVars, textVars, placeVars>>
    <3>1. subVars' = subVars /\ builderVars' = builderVars /\ procVars' = procVars
          /\ callVars' = callVars /\ libVars' = libVars /\ placeVars' = placeVars
          /\ taskVars' = taskVars
      BY <2>2
    <3>. QED
      BY <3>1, <1>2
  <2>. QED
    BY <2>1, <2>2
<1>4. WorkIInv => WorkInv
  <2>1. WorkIInv => SubagentInv /\ BuilderInv /\ ProcessInv /\ PlacementInv /\ CallsInv
    BY HeaderFactsMean, ProcIInvImplies, PlaceIInvImplies, CallFactsMean DEF WorkIInv, SubIInv
  <2>2. WorkIInv => LibraryInv
    BY LibraryFactsMean DEF WorkIInv
  <2>3. WorkIInv => ScreenInv
    BY ScreenHolds DEF WorkIInv
  <2>. QED
    BY <2>1, <2>2, <2>3 DEF WorkInv
<1>. QED
  BY <1>1, <1>3, <1>4, PTL DEF MCSpec

(* What the answers of the server rest on.                                 *)
AnswersIInv ==
  StreamIInv /\ PromptIInv /\ TextIInv /\ NumberFacts /\ FileFacts /\ LibIInv /\ FreeIInv

(* A step of the server is one of each part that answers, or leaves it     *)
(* alone.                                                                  *)
LEMMA AnswerStep ==
  ASSUME MCNext
  PROVE  /\ [StreamNext]_streamVars /\ [PromptNext]_promptVars /\ [TextNext]_textVars
         /\ [BuilderNext]_builderVars /\ [LibNext]_libVars
<1>1. OthersKeep
  BY DEF MCNext
<1>2. StreamNext \/ part # "stream"
  BY DEF MCNext
<1>3. PromptNext \/ part # "prompt"
  BY DEF MCNext
<1>4. TextNext \/ part # "text"
  BY DEF MCNext
<1>5. BuilderNext \/ part # "context"
  BY DEF MCNext
<1>6. LibNext \/ part # "library"
  BY DEF MCNext
<1>. QED
  BY <1>1, <1>2, <1>3, <1>4, <1>5, <1>6 DEF OthersKeep

(* What becomes of a model's answer, of what the user types, of what a     *)
(* header is filled with and of what a deletion frees is right at every    *)
(* moment (AnswersInv).                                                    *)
THEOREM AnswersAreSafe == MCSpec => []AnswersInv
<1>1. MCInit => AnswersIInv
  BY StreamStarts, PromptStarts, TextStarts, NumbersStart, FilesStart, LibStarts, FreeStarts,
     StreamAssumption, PromptAssumption, BuilderAssumption, LibraryAssumption
     DEF MCInit, AnswersIInv
<1>2. ASSUME AnswersIInv, [StreamNext]_streamVars, [PromptNext]_promptVars, [TextNext]_textVars,
             [BuilderNext]_builderVars, [LibNext]_libVars
      PROVE  AnswersIInv'
  <2>1. StreamIInv' /\ PromptIInv' /\ TextIInv'
    BY <1>2, StreamStep, PromptStep, TextGoesOn DEF AnswersIInv
  <2>2. NumberFacts' /\ FileFacts'
    BY <1>2, BuilderAssumption, NumbersKeep, FilesKeep DEF AnswersIInv
  <2>3. LibIInv'
    BY <1>2, LibStepKeeps DEF AnswersIInv
  <2>4. FreeIInv'
    <3>1. ScanShape'
      BY <2>3 DEF LibIInv
    <3> QED BY <1>2, <2>3, <3>1, LibraryAssumption, FreeStepKeeps DEF AnswersIInv
  <2>. QED
    BY <2>1, <2>2, <2>3, <2>4 DEF AnswersIInv
<1>3. AnswersIInv /\ [MCNext]_<<part, configVars, prefVars, skillVars, secretVars, streamVars,
                               subVars, memVars, taskVars, builderVars, procVars, promptVars,
                               callVars, libVars, textVars, placeVars>> => AnswersIInv'
  <2>1. CASE MCNext
    BY <2>1, <1>2, AnswerStep
  <2>2. CASE UNCHANGED <<part, configVars, prefVars, skillVars, secretVars, streamVars, subVars,
                         memVars, taskVars, builderVars, procVars, promptVars, callVars,
                         libVars, textVars, placeVars>>
    <3>1. streamVars' = streamVars /\ promptVars' = promptVars /\ textVars' = textVars
          /\ builderVars' = builderVars /\ libVars' = libVars
      BY <2>2
    <3>. QED
      BY <3>1, <1>2
  <2>. QED
    BY <2>1, <2>2
<1>4. AnswersIInv => AnswersInv
  <2>1. AnswersIInv => StreamInv /\ PromptInv /\ TextInv
    BY StreamHolds, AnswersAreLines, TextIsRight DEF AnswersIInv
  <2>2. AnswersIInv => HeaderFits
    BY BuilderAssumption, HeadersFit DEF AnswersIInv
  <2>3. AnswersIInv => FreedIsReal
    BY DEF AnswersIInv, FreeIInv
  <2>. QED
    BY <2>1, <2>2, <2>3 DEF AnswersInv
<1>. QED
  BY <1>1, <1>3, <1>4, PTL DEF MCSpec
=============================================================================
