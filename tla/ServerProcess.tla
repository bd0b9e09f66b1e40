---------------------------- MODULE ServerProcess ----------------------------
(***************************************************************************)
(* The server as a process (server/index.ts): what it asks and checks      *)
(* before it listens, the Ollama it finds or starts for itself             *)
(* (ollama/lifecycle.ts), the connections it serves (rsocketServer.ts) and *)
(* the ways it ends: an error, an exit of its own, a signal.               *)
(*                                                                         *)
(* One port of this machine belongs to Ollama: at most one of the child    *)
(* and another Ollama, which its user starts and stops, listens on it.     *)
(***************************************************************************)
EXTENDS Naturals, FiniteSets

CONSTANTS
  Peers,    \* connections that clients open, each once
  MaxStarts \* how often another Ollama is started

VARIABLES
  launch,          \* what the command line asks for
  saved,           \* startup.json: which of password and port it has
  usesOllama,      \* a role is configured to use the provider "ollama"
  cert,            \* what the certificate on disk is: "ok", "warning", "expired", "broken"
  startStage,      \* where main() stands
  exitCode,        \* none, 0, 1, or killed by a signal
  password,        \* none, empty, set
  child,           \* the spawned Ollama: none, starting, up, told (to end), dead
  startedByServer, \* of the handle ensureOllamaRunning returned
  other,           \* another Ollama listens
  otherStarts,
  peers,           \* away, live, gone
  running,         \* connections with a stream in flight: activeSessions' controllers
  perConnection,   \* connections with resources
  wasUp            \* the stage in which the process ended

procVars == <<launch, saved, usesOllama, cert, startStage, exitCode, password, child,
              startedByServer, other, otherStarts, peers, running, perConnection, wasUp>>
givenVars == <<launch, saved, usesOllama, cert>>
ollamaVars == <<child, startedByServer, other, otherStarts>>
peerVars == <<peers, running, perConnection>>

ChildAlive == child \in {"starting", "up"}

(* parseServerArgs: help before the rotation before a repair; anything but *)
(* "start" is unknown, and a malformed flag makes it throw.                *)
Launches == {"help", "regen", "repair", "start", "unknown", "malformed"}

ProcInit ==
  /\ launch \in Launches
  /\ saved \in SUBSET {"password", "port"}
  /\ usesOllama \in BOOLEAN
  /\ cert \in {"ok", "warning", "expired", "broken"}
  /\ startStage = "args" /\ exitCode = "none" /\ wasUp = "args"
  /\ password = "none"
  /\ child = "none" /\ startedByServer = FALSE
  /\ other \in BOOLEAN /\ otherStarts = 0
  /\ peers = [c \in Peers |-> "away"]
  /\ running = {} /\ perConnection = {}

(* The process ends: its sockets close, a child it did not stop goes on.   *)
Exit(code) ==
  /\ exitCode' = code
  /\ startStage' = "ended"
  /\ wasUp' = startStage
  /\ peers' = [c \in Peers |-> IF peers[c] = "live" THEN "gone" ELSE peers[c]]

GoesTo(next) == startStage' = next /\ UNCHANGED <<exitCode, wasUp, peerVars>>
EndsWith(code) == Exit(code) /\ UNCHANGED <<running, perConnection>>

-----------------------------------------------------------------------------
ParseArgs ==
  /\ startStage = "args"
  /\ CASE launch = "help" -> EndsWith("0")
       [] launch = "regen" -> EndsWith("0") \/ EndsWith("1")
       [] launch \in {"unknown", "malformed"} -> EndsWith("1")
       [] OTHER -> GoesTo("defaults")
  /\ UNCHANGED <<givenVars, password, ollamaVars>>

(* installUserDataDefaults, then a repair, which ends here.                *)
InstallDefaults ==
  /\ startStage = "defaults"
  /\ IF launch = "repair" THEN EndsWith("0") \/ EndsWith("1") ELSE GoesTo("unlock") \/ EndsWith("1")
  /\ UNCHANGED <<givenVars, password, ollamaVars>>

(* unlockOrSetupStartupCipher and loadStartupSecrets: the operator gives   *)
(* up, the input ends, the file cannot be read, or the secrets are known.  *)
UnlockSecrets ==
  /\ startStage = "unlock"
  /\ \/ GoesTo("password") /\ password' = IF "password" \in saved THEN "set" ELSE "none"
     \/ EndsWith("1") /\ UNCHANGED password
  /\ UNCHANGED <<givenVars, ollamaVars>>

(* The password is asked for when none is saved.  An empty one ends the    *)
(* process before anything is saved.                                       *)
Acceptable(p) == p # "empty"
AskPassword ==
  /\ startStage = "password"
  /\ \/ \E typed \in (IF password = "none" THEN {"empty", "set"} ELSE {password}) :
          /\ password' = typed
          /\ IF Acceptable(typed) THEN GoesTo("port") ELSE EndsWith("1")
     \/ password = "none" /\ EndsWith("1") /\ UNCHANGED password
  /\ UNCHANGED <<givenVars, ollamaVars>>

(* The port is asked for when none is saved; a missing or unusable answer  *)
(* is 7000.  What was asked for is saved.                                  *)
AskPort ==
  /\ startStage = "port"
  /\ \/ GoesTo("preview") /\ saved' = {"password", "port"}
     \/ saved # {"password", "port"} /\ EndsWith("1") /\ UNCHANGED saved
  /\ UNCHANGED <<launch, usesOllama, cert, password, ollamaVars>>

(* The providers of the roles: is a local Ollama needed?                   *)
Preview ==
  /\ startStage = "preview"
  /\ GoesTo(IF usesOllama THEN "probe" ELSE "container") \/ EndsWith("1")
  /\ UNCHANGED <<givenVars, password, ollamaVars>>

-----------------------------------------------------------------------------
Reachable == other \/ child = "up"

(* ensureOllamaRunning: one that answers is used as it is; else a child is *)
(* spawned.                                                                *)
ProbeOllama ==
  /\ startStage = "probe"
  /\ IF Reachable
     THEN GoesTo("container") /\ UNCHANGED child
     ELSE GoesTo("spawning") /\ child' = "starting"
  /\ UNCHANGED <<givenVars, password, startedByServer, other, otherStarts>>

(* Mutant: an error of the start leaves the child running.                 *)
LeaveIt == UNCHANGED child
(* child.kill(): the signal is sent, nothing waits for the end.            *)
KillChild == child' = IF ChildAlive THEN "told" ELSE child

(* The first of "spawn", "error" and "exit" decides.                       *)
SpawnEvents ==
  /\ startStage = "spawning"
  /\ \/ child # "dead" /\ GoesTo("polling") /\ UNCHANGED child
     \/ child = "starting" /\ EndsWith("1") /\ child' = "none"
     \/ child = "dead" /\ EndsWith("1") /\ KillChild
  /\ UNCHANGED <<givenVars, password, startedByServer, other, otherStarts>>

(* waitForOllama: whoever answers ends the wait; past the deadline it      *)
(* throws, and the child is killed.  That the child has ended is not       *)
(* noticed any more.                                                       *)
Poll ==
  /\ startStage = "polling"
  /\ \/ Reachable /\ GoesTo("container") /\ startedByServer' = TRUE /\ UNCHANGED child
     \/ ~Reachable /\ EndsWith("1") /\ KillChild /\ UNCHANGED startedByServer
  /\ UNCHANGED <<givenVars, password, other, otherStarts>>

(* createContainer and what main() does before the models are listed; the  *)
(* check of the password is made again by AuthMiddleware.                  *)
Container ==
  /\ startStage = "container"
  /\ GoesTo(IF usesOllama THEN "models" ELSE "roles") \/ EndsWith("1")
  /\ UNCHANGED <<givenVars, password, ollamaVars>>

(* listModels needs an Ollama that answers.                                *)
ListModels ==
  /\ startStage = "models"
  /\ (Reachable /\ GoesTo("roles")) \/ EndsWith("1")
  /\ UNCHANGED <<givenVars, password, ollamaVars>>

(* The capabilities of the roles' models: a missing model is a warning,    *)
(* any other error ends the process.                                       *)
SyncRoles ==
  /\ startStage = "roles"
  /\ GoesTo("certificate") \/ EndsWith("1")
  /\ UNCHANGED <<givenVars, password, ollamaVars>>

(* An expired certificate is refused; one that is about to expire is not.  *)
LoadCertificate ==
  /\ startStage = "certificate"
  /\ IF cert = "expired" THEN EndsWith("1") ELSE GoesTo("bind") \/ EndsWith("1")
  /\ UNCHANGED <<givenVars, password, ollamaVars>>

(* server.start(): a certificate whose key is not its own cannot be used,  *)
(* the port may be taken.  From here on signals have handlers.             *)
Bind ==
  /\ startStage = "bind"
  /\ (cert # "broken" /\ GoesTo("serving")) \/ EndsWith("1")
  /\ UNCHANGED <<givenVars, password, ollamaVars>>

-----------------------------------------------------------------------------
Connect(c) ==
  /\ startStage = "serving" /\ peers[c] = "away"
  /\ peers' = [peers EXCEPT ![c] = "live"]
  /\ UNCHANGED <<givenVars, startStage, exitCode, wasUp, password, ollamaVars, running,
                 perConnection>>

(* A task and an exploration are streams and make the resources of the     *)
(* connection, a synchronisation makes them too, a pull is only a stream.  *)
Work(c, kind) ==
  /\ startStage = "serving" /\ peers[c] = "live"
  /\ perConnection' = IF kind # "pull" THEN perConnection \cup {c}
                          ELSE perConnection
  /\ running' = IF kind # "sync" THEN running \cup {c} ELSE running
  /\ UNCHANGED <<givenVars, startStage, exitCode, wasUp, password, ollamaVars, peers>>

StreamOver(c) ==
  /\ startStage = "serving" /\ c \in running
  /\ running' = running \ {c}
  /\ UNCHANGED <<givenVars, startStage, exitCode, wasUp, password, ollamaVars, peers,
                 perConnection>>

(* Mutant: the entry of a disposed connection is kept.                     *)
OnlyDisposed(cs) == perConnection
(* disposeConnection: the broker, the workspace and the terminal of each.  *)
Disposed(cs) == perConnection \ cs

(* onClose: its streams are aborted, its session and resources given up.   *)
Close(c) ==
  /\ startStage = "serving" /\ peers[c] = "live"
  /\ peers' = [peers EXCEPT ![c] = "gone"]
  /\ running' = running \ {c}
  /\ perConnection' = Disposed({c})
  /\ UNCHANGED <<givenVars, startStage, exitCode, wasUp, password, ollamaVars>>

(* performShutdown: abort, stop, dispose, stop the Ollama that was         *)
(* started, exit.  It awaits nothing, so neither its watchdog nor a second *)
(* signal nor what the abort set off runs before the exit.                 *)
Shutdown ==
  /\ running' = {}
  /\ perConnection' = Disposed(perConnection)
  /\ Exit("0")
  /\ IF startedByServer THEN KillChild ELSE UNCHANGED child

(* SIGINT or SIGTERM.  Before the handlers are there it ends the process   *)
(* at once.  Ctrl+C of a terminal reaches the child as well.               *)
Signal(group) ==
  /\ startStage # "ended"
  /\ \/ startStage = "serving" /\ Shutdown
     \/ startStage # "serving" /\ EndsWith("signal")
        /\ IF group THEN KillChild ELSE UNCHANGED child
  /\ UNCHANGED <<givenVars, password, startedByServer, other, otherStarts>>

-----------------------------------------------------------------------------
(* The Ollamas.  The child gets the port if it is free, and ends if not.   *)
ChildComesUp ==
  /\ child = "starting"
  /\ child' = IF other THEN "dead" ELSE "up"
  /\ UNCHANGED <<givenVars, startStage, exitCode, wasUp, password, startedByServer, other,
                 otherStarts, peerVars>>
ChildEnds ==
  /\ child \in {"starting", "up", "told"}
  /\ child' = "dead"
  /\ UNCHANGED <<givenVars, startStage, exitCode, wasUp, password, startedByServer, other,
                 otherStarts, peerVars>>
OtherStarted ==
  /\ ~other /\ child \notin {"up", "told"} /\ otherStarts < MaxStarts
  /\ other' = TRUE /\ otherStarts' = otherStarts + 1
  /\ UNCHANGED <<givenVars, startStage, exitCode, wasUp, password, child, startedByServer,
                 peerVars>>
OtherStopped ==
  /\ other
  /\ other' = FALSE
  /\ UNCHANGED <<givenVars, startStage, exitCode, wasUp, password, child, startedByServer,
                 otherStarts,
                 peerVars>>

MainStep ==
  \/ ParseArgs \/ InstallDefaults \/ UnlockSecrets \/ AskPassword \/ AskPort \/ Preview
  \/ ProbeOllama \/ SpawnEvents \/ Poll \/ Container \/ ListModels \/ SyncRoles \/ LoadCertificate \/ Bind

ProcNext ==
  \/ MainStep
  \/ \E c \in Peers :
       \/ Connect(c) \/ StreamOver(c) \/ Close(c)
       \/ \E kind \in {"task", "sync", "pull"} : Work(c, kind)
  \/ \E group \in BOOLEAN : Signal(group)
  \/ ChildComesUp \/ ChildEnds \/ OtherStarted \/ OtherStopped

ProcFairness == WF_procVars(MainStep)

-----------------------------------------------------------------------------
(* Nobody is served by a process without a password or with a certificate  *)
(* that has expired or does not fit its key, whatever was saved and typed. *)
ServesOnlyChecked ==
  startStage = "serving" =>
    launch = "start" /\ password = "set" /\ cert \in {"ok", "warning"}
    /\ saved = {"password", "port"}

(* An orderly end, one by a signal while serving, leaves no Ollama of its  *)
(* own, no resources and no connection (shutdown.ts).                      *)
OrderlyEnd ==
  exitCode = "0" /\ wasUp = "serving" =>
    ~ChildAlive /\ perConnection = {} /\ \A c \in Peers : peers[c] # "live"

(* A start that fails because Ollama does not come up takes the child with *)
(* it (lifecycle.ts, catch).  A child survives its process only after a    *)
(* later step of the start, or a signal before the server listens.         *)
ChildLeftOnlyLate ==
  startStage = "ended" /\ ChildAlive =>
    \/ exitCode = "signal" /\ wasUp # "serving"
    \/ exitCode = "1" /\ wasUp \in {"container", "models", "roles", "certificate", "bind"}

(* A child is only ever spawned for a start that needs a local Ollama.     *)
ChildIsNeeded == child # "none" => usesOllama /\ launch = "start"

(* Resources, and streams in flight, are those of connections that live.   *)
ResourcesOfTheLiving ==
  startStage = "serving" =>
    \A c \in running \cup perConnection : peers[c] = "live"

ProcessInv ==
  /\ ServesOnlyChecked /\ OrderlyEnd /\ ChildLeftOnlyLate /\ ChildIsNeeded
  /\ ResourcesOfTheLiving

(* The start comes to an end: the server listens or its process is gone.   *)
StartOver == startStage \in {"serving", "ended"}
StartEnds == <>[]StartOver
=============================================================================
