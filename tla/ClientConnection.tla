--------------------------- MODULE ClientConnection ---------------------------
(***************************************************************************)
(* The connection of the client (client/src/connection): one RSocket at a  *)
(* time, opened on demand by a command, by the reconnect timer or by       *)
(* reload(), which all share a handshake that is in flight; a health       *)
(* monitor that closes a socket that does not answer; and the abort        *)
(* controller of the session, which lives as long as its socket.           *)
(*                                                                         *)
(* The continuations of a settled connect() run before any other event     *)
(* (they are microtasks), so a handshake and what awaits it are one step.  *)
(* Whether the peer accepts, answers or goes away is nondeterministic.     *)
(***************************************************************************)
EXTENDS Naturals, Sequences, FiniteSets

CONSTANTS
  Servers,      \* connection settings: host, port and password
  Commands,     \* calls of sendCommand, sendTask, respondPlan, ...
  MaxSockets    \* bound: the network drops no socket after this many

ASSUME ConnectionAssumption == MaxSockets \in Nat \ {0}

None == "none"
ASSUME NoneIsNoServer == None \notin Servers

VARIABLES
  config,       \* the configured settings
  opened,       \* ghost: the settings each socket was opened with
  rsocket,      \* the current socket, an index of opened, or 0
  up,           \* sockets whose transport is open
  closeEvents,  \* closed sockets whose onClose was not delivered
  status,       \* ConnectionStatus
  establishing, \* the settings of the handshake in flight, or None
  joined,       \* who awaits it: "timer", "reload"
  timer,        \* a reconnect is scheduled
  suppress,     \* suppressReconnectFlag
  monitor,      \* the health monitor is on
  checking,     \* the socket whose health check is in flight, or 0
  session,      \* the socket whose session signal is live, or 0
  command,      \* [Commands -> CommandState]
  sentOn,       \* [Commands -> the socket it was sent on, or 0]
  wanted        \* ghost: a connection was made or asked for by reload()

connVars == <<config, opened, rsocket, up, closeEvents, status, establishing, joined,
              timer, suppress, monitor, checking, session, command, sentOn, wanted>>

CommandState == {"idle", "waiting", "retry", "sent", "done", "failed"}

ConnInit ==
  /\ config \in Servers
  /\ opened = <<>> /\ rsocket = 0 /\ up = {} /\ closeEvents = {}
  /\ status = "Disconnected"
  /\ establishing = None /\ joined = {}
  /\ timer = FALSE /\ suppress = FALSE
  /\ monitor = FALSE /\ checking = 0 /\ session = 0
  /\ command = [c \in Commands |-> "idle"] /\ sentOn = [c \in Commands |-> 0]
  /\ wanted = FALSE

CommandsAt(state) == {c \in Commands : command[c] = state}

(* Mutant of To: the retry loop of waitUntilConnected is left out.         *)
NoRetry(state, group) ==
  [c \in Commands |-> IF c \in group /\ state # "retry" THEN state ELSE command[c]]

To(state, group) == [c \in Commands |-> IF c \in group THEN state ELSE command[c]]

-----------------------------------------------------------------------------
(* connect() when there is no socket: start a handshake, or share one.     *)
Connect(settings) ==
  IF establishing = None
  THEN establishing' = settings /\ status' = "Connecting"
  ELSE UNCHANGED <<establishing, status>>

(* scheduleReconnect with the flag as it is now; t: the timer before.      *)
ScheduleReconnect(t, s, st) ==
  IF t \/ s THEN timer' = t /\ status' = st
  ELSE timer' = TRUE /\ status' = "Reconnecting"

(* A command: sent at once on a socket there is, otherwise it connects.    *)
CommandCalled(c) ==
  /\ command[c] = "idle"
  /\ IF rsocket # 0
     THEN /\ command' = [command EXCEPT ![c] = "sent"]
          /\ sentOn' = [sentOn EXCEPT ![c] = rsocket]
          /\ UNCHANGED <<establishing, status>>
     ELSE /\ command' = [command EXCEPT ![c] = "waiting"]
          /\ Connect(config) /\ UNCHANGED sentOn
  /\ UNCHANGED <<config, opened, rsocket, up, closeEvents, joined, timer, suppress,
                 monitor, checking, session, wanted>>

(* After CONNECT_RETRY_INTERVAL_MS: again, or the deadline has passed.     *)
CommandRetries(c) ==
  /\ command[c] = "retry"
  /\ \/ /\ rsocket # 0
        /\ command' = [command EXCEPT ![c] = "sent"]
        /\ sentOn' = [sentOn EXCEPT ![c] = rsocket]
        /\ UNCHANGED <<establishing, status>>
     \/ /\ rsocket = 0
        /\ command' = [command EXCEPT ![c] = "waiting"]
        /\ Connect(config) /\ UNCHANGED sentOn
     \/ /\ rsocket = 0
        /\ command' = [command EXCEPT ![c] = "failed"]
        /\ UNCHANGED <<establishing, status, sentOn>>
  /\ UNCHANGED <<config, opened, rsocket, up, closeEvents, joined, timer, suppress,
                 monitor, checking, session, wanted>>

(* The peer answers, or the request ends with the transport of its socket. *)
CommandSettles(c) ==
  /\ command[c] = "sent"
  /\ \/ sentOn[c] \in up /\ command' = [command EXCEPT ![c] = "done"]
     \/ sentOn[c] \notin up /\ command' = [command EXCEPT ![c] = "failed"]
  /\ UNCHANGED <<config, opened, rsocket, up, closeEvents, status, establishing, joined,
                 timer, suppress, monitor, checking, session, sentOn, wanted>>

-----------------------------------------------------------------------------
(* The handshake succeeds: the socket is current, the session and the      *)
(* monitor begin, and everyone who awaited it goes on.                     *)
HandshakeSucceeds ==
  /\ establishing # None
  /\ opened' = Append(opened, establishing)
  /\ rsocket' = Len(opened')
  /\ up' = up \cup {rsocket'}
  /\ status' = "Connected" /\ session' = rsocket' /\ monitor' = TRUE
  /\ command' = To("sent", CommandsAt("waiting"))
  /\ sentOn' = [c \in Commands |-> IF command[c] = "waiting" THEN rsocket' ELSE sentOn[c]]
  /\ suppress' = (suppress /\ "reload" \notin joined)
  /\ establishing' = None /\ joined' = {} /\ wanted' = TRUE
  /\ UNCHANGED <<config, closeEvents, timer, checking>>

(* Mutants of SchedulesReconnect: reload() does not, or nobody does.       *)
OnlyTimer == "timer" \in joined
NoReconnect == FALSE

(* It fails (refused, unreachable, an unpinned certificate): the timer's   *)
(* catch and reload's finally schedule a reconnect, a command tries again. *)
SchedulesReconnect == joined # {}

HandshakeFails ==
  /\ establishing # None
  /\ rsocket' = 0
  /\ suppress' = (suppress /\ "reload" \notin joined)
  /\ IF SchedulesReconnect THEN ScheduleReconnect(timer, suppress', "Disconnected")
                    ELSE timer' = timer /\ status' = "Disconnected"
  /\ command' = To("retry", CommandsAt("waiting"))
  /\ establishing' = None /\ joined' = {}
  /\ UNCHANGED <<config, opened, up, closeEvents, monitor, checking, session, sentOn, wanted>>

TimerFires ==
  /\ timer
  /\ timer' = FALSE
  /\ IF rsocket # 0 THEN UNCHANGED <<establishing, status, joined>>
     ELSE Connect(config) /\ joined' = joined \cup {"timer"}
  /\ UNCHANGED <<config, opened, rsocket, up, closeEvents, suppress, monitor, checking,
                 session, command, sentOn, wanted>>

-----------------------------------------------------------------------------
(* The transport of a socket ends by itself.                               *)
SocketDrops(s) ==
  /\ s \in up /\ Len(opened) < MaxSockets
  /\ up' = up \ {s} /\ closeEvents' = closeEvents \cup {s}
  /\ UNCHANGED <<config, opened, rsocket, status, establishing, joined, timer, suppress,
                 monitor, checking, session, command, sentOn, wanted>>

(* onClose: the event of a socket that is no longer current is ignored.    *)
AnySocket(s) == TRUE   \* mutant of IsCurrent: no comparison

IsCurrent(s) == s = rsocket

CloseDelivered(s) ==
  /\ s \in closeEvents
  /\ closeEvents' = closeEvents \ {s}
  /\ IF IsCurrent(s)
     THEN /\ monitor' = FALSE /\ session' = 0 /\ rsocket' = 0
          /\ ScheduleReconnect(timer, suppress, "Disconnected")
     ELSE UNCHANGED <<monitor, session, rsocket, timer, status>>
  /\ UNCHANGED <<config, opened, up, establishing, joined, suppress, checking, command,
                 sentOn, wanted>>

(* runHealthCheck: a probe, one at a time.                                 *)
HealthCheckBegins ==
  /\ monitor /\ status = "Connected" /\ rsocket # 0 /\ checking = 0
  /\ checking' = rsocket
  /\ UNCHANGED <<config, opened, rsocket, up, closeEvents, status, establishing, joined,
                 timer, suppress, monitor, session, command, sentOn, wanted>>

(* It is answered, or it fails or times out and the socket it probed is    *)
(* closed if that is still the current one.                                *)
HealthCheckEnds ==
  /\ checking # 0
  /\ checking' = 0
  /\ \/ checking \in up /\ UNCHANGED <<up, closeEvents>>
     \/ /\ IsCurrent(checking) /\ checking \in up /\ Len(opened) < MaxSockets
        /\ up' = up \ {rsocket} /\ closeEvents' = closeEvents \cup {rsocket}
     \/ ~(IsCurrent(checking) /\ checking \in up) /\ UNCHANGED <<up, closeEvents>>
  /\ UNCHANGED <<config, opened, rsocket, status, establishing, joined, timer, suppress,
                 monitor, session, command, sentOn, wanted>>

(* reload(settings): the old socket is closed and the new settings are     *)
(* connected to, by the handshake in flight if there is one.               *)
(* Mutants of CloseOld: the socket is forgotten and not closed, or its     *)
(* session is not ended.                                                   *)
Forgotten ==
  /\ rsocket' = 0 /\ session' = 0 /\ monitor' = FALSE
  /\ UNCHANGED <<up, closeEvents>>
SessionLives ==
  /\ rsocket' = 0 /\ monitor' = FALSE /\ UNCHANGED session
  /\ up' = up \ {rsocket} /\ closeEvents' = closeEvents \cup (up \cap {rsocket})

CloseOld ==
  /\ rsocket' = 0 /\ session' = 0 /\ monitor' = FALSE
  /\ up' = up \ {rsocket}
  /\ closeEvents' = closeEvents \cup (up \cap {rsocket})

Reload(settings) ==
  /\ settings # config /\ Len(opened) < MaxSockets
  /\ config' = settings
  /\ suppress' = TRUE /\ timer' = FALSE
  /\ CloseOld
  /\ Connect(settings) /\ joined' = joined \cup {"reload"}
  /\ wanted' = TRUE
  /\ UNCHANGED <<opened, checking, command, sentOn>>

ConnNext ==
  \/ \E c \in Commands : CommandCalled(c) \/ CommandRetries(c) \/ CommandSettles(c)
  \/ HandshakeSucceeds \/ HandshakeFails \/ TimerFires
  \/ \E s \in 1..Len(opened) : SocketDrops(s) \/ CloseDelivered(s)
  \/ HealthCheckBegins \/ HealthCheckEnds
  \/ \E settings \in Servers : Reload(settings)

(* Timers fire, events are delivered, a peer that does not answer makes    *)
(* the health check time out; a handshake tried again and again succeeds.  *)
ConnFairness ==
  /\ WF_connVars(TimerFires) /\ SF_connVars(HandshakeSucceeds)
  /\ WF_connVars(\E s \in 1..Len(opened) : CloseDelivered(s))
  /\ \A c \in Commands : WF_connVars(CommandRetries(c)) /\ WF_connVars(CommandSettles(c))
ConnSpec == ConnInit /\ [][ConnNext]_connVars /\ ConnFairness

-----------------------------------------------------------------------------
Sockets == 0..Len(opened)

(* The types of the variables of the connection.                           *)
ConnTypeOK ==
  /\ config \in Servers /\ opened \in Seq(Servers)
  /\ rsocket \in Sockets /\ checking \in Sockets /\ session \in Sockets
  /\ up \subseteq Sockets \ {0} /\ closeEvents \subseteq Sockets \ {0}
  /\ status \in {"Disconnected", "Connecting", "Connected", "Reconnecting"}
  /\ establishing \in Servers \cup {None} /\ joined \subseteq {"timer", "reload"}
  /\ {timer, suppress, monitor, wanted} \subseteq BOOLEAN
  /\ command \in [Commands -> CommandState] /\ sentOn \in [Commands -> Sockets]

(* No socket but the current one is left open: reload() and the reconnects *)
(* that race with it leak no connection to a server (connection.ts:487).   *)
NoStraySocket == up \subseteq {rsocket}

(* What the user is shown, the signal that ends the work of a session and  *)
(* the health monitor agree with the socket at every moment: no work       *)
(* outlives its socket and none is aborted by the end of another one.      *)
SessionFollowsSocket ==
  /\ session = rsocket /\ monitor = (rsocket # 0)
  /\ (status = "Connected") = (rsocket # 0)
  /\ (status = "Connecting") = (establishing # None)

(* Once there was a connection, or reload() asked for one, there is always *)
(* one, or a handshake, or a timer that will start one: no interleaving of *)
(* closes, failures, commands and reload() forgets to reconnect.           *)
RecoveryUnderway ==
  wanted => rsocket # 0 \/ establishing # None \/ timer

(* What holds of the connection at every moment.                           *)
ConnectionInv ==
  ConnTypeOK /\ NoStraySocket /\ SessionFollowsSocket /\ RecoveryUnderway

(* The socket in use belongs to the settings in use (connection.ts:449:    *)
(* reload connects with the new settings).                                 *)
SocketIsConfigured == rsocket # 0 => opened[rsocket] = config

(* The client gives up its socket only when the transport of that very     *)
(* socket has ended: the late close event of a socket it replaced, or the  *)
(* late result of a health check, does not (lifecycle.ts:212).             *)
GivenUpOnlyClosed ==
  [][rsocket # 0 /\ rsocket' = 0 => rsocket \notin up']_connVars

(* Losing a connection, or failing to make the one reload() asks for, is   *)
(* made good when the server can be reached.                               *)
LinkRestored == wanted => rsocket # 0
Reconnects == <>[]LinkRestored

(* A command does not wait for ever: it is answered or it fails.           *)
CommandsOver == \A c \in Commands : command[c] \in {"idle", "done", "failed"}
CommandsSettle == <>[]CommandsOver
=============================================================================
