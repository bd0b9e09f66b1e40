----------------------------- MODULE McpConnection -----------------------------
(***************************************************************************)
(* The client's connection to one MCP server (mcpRegistry.ts): tool calls  *)
(* go through the server's queue, discovery and /mcp remove do not.  A     *)
(* connection is used again if it answers; else it is closed and another   *)
(* is opened, over streamable HTTP first and over SSE if that fails.       *)
(***************************************************************************)
EXTENDS Naturals, Sequences, FiniteSets

CONSTANTS
  McpCalls,      \* operations under way
  MaxClients     \* bound: connections opened

NotPinned == "notPinned"
Transports == {"streamableHttp", "sse"}
ASSUME McpCallAssumption == MaxClients \in Nat

VARIABLES
  does,          \* [McpCalls -> {"call", "list", "remove"}]
  step,          \* [McpCalls -> Steps]
  uses,          \* [McpCalls -> the client it has in hand, or 0]
  tries,         \* [McpCalls -> the transport of its attempt]
  operationQueue,\* calls that wait or run, first in, first out
  current,       \* connections.get(serverId), or 0
  openClients,   \* clients whose transport is open
  clientsOpened,        \* number of clients opened
  kindOf,        \* httpTransportKindByServer
  speaks,        \* what the remote server speaks
  raced          \* ghost: two operations were in getMcpClient at once

mcpConnVars == <<does, step, uses, tries, operationQueue, current, openClients, clientsOpened, kindOf,
                 speaks, raced>>

Steps == {"start", "queued", "probe", "close", "connect", "use", "drop", "done"}

McpConnInit ==
  /\ does \in [McpCalls -> {"call", "list", "remove"}]
  /\ step = [c \in McpCalls |-> "start"] /\ uses = [c \in McpCalls |-> 0]
  /\ tries = [c \in McpCalls |-> NotPinned]
  /\ operationQueue = <<>> /\ current = 0 /\ openClients = {} /\ clientsOpened = 0
  /\ kindOf \in Transports \cup {NotPinned} /\ speaks \in Transports
  /\ raced = FALSE

-----------------------------------------------------------------------------
ToStep(c, s) == step' = [step EXCEPT ![c] = s]
Preferred == IF kindOf = NotPinned THEN "streamableHttp" ELSE kindOf

(* A finished call lets the next one of the queue begin.                   *)
Leave(c) ==
  /\ ToStep(c, "done")
  /\ operationQueue' = IF does[c] = "call" THEN Tail(operationQueue) ELSE operationQueue

Connects(c) ==
  /\ ToStep(c, "connect")
  /\ tries' = [tries EXCEPT ![c] = Preferred]

EnqueueMcpOperation(c) ==
  /\ step[c] = "start" /\ does[c] = "call"
  /\ operationQueue' = Append(operationQueue, c) /\ ToStep(c, "queued")
  /\ UNCHANGED <<does, uses, tries, current, openClients, clientsOpened, kindOf, speaks,
                 raced>>

(* Mutant: calls do not wait for each other.                               *)
Unqueued(c) == step[c] = "queued"
MayRun(c) == step[c] = "queued" /\ Head(operationQueue) = c

(* getMcpClient: probe the connection there is, or open one.               *)
GetMcpClient(c) ==
  /\ \/ does[c] = "call" /\ MayRun(c)
     \/ does[c] = "list" /\ step[c] = "start"
  /\ uses' = [uses EXCEPT ![c] = current]
  /\ IF current # 0 THEN ToStep(c, "probe") /\ UNCHANGED tries ELSE Connects(c)
  /\ raced' = (raced \/ \E d \in McpCalls : step[d] \in {"probe", "close", "connect"})
  /\ UNCHANGED <<does, operationQueue, current, openClients, clientsOpened, kindOf, speaks>>

Probe(c) ==
  /\ step[c] = "probe"
  /\ \/ uses[c] \in openClients /\ ToStep(c, "use")
     \/ ToStep(c, "close")
  /\ UNCHANGED <<does, uses, tries, operationQueue, current, openClients, clientsOpened,
                 kindOf, speaks, raced>>

(* Mutant of CloseConnectionIfCurrent: forgets whatever is stored.         *)
ForgetsCurrent(c) == openClients' = openClients \ {uses[c]} /\ current' = 0

CloseConnectionIfCurrent(c) ==
  /\ openClients' = openClients \ {uses[c]}
  /\ current' = IF current = uses[c] THEN 0 ELSE current

CloseDead(c) ==
  /\ step[c] = "close"
  /\ CloseConnectionIfCurrent(c) /\ Connects(c)
  /\ UNCHANGED <<does, uses, operationQueue, clientsOpened, kindOf, speaks, raced>>

(* connectAndStore: the newest connection replaces what is stored.         *)
ConnectAndStore(c) ==
  /\ step[c] = "connect" /\ tries[c] = speaks /\ clientsOpened < MaxClients
  /\ clientsOpened' = clientsOpened + 1 /\ current' = clientsOpened + 1
  /\ openClients' = openClients \cup {clientsOpened + 1}
  /\ uses' = [uses EXCEPT ![c] = clientsOpened + 1]
  /\ kindOf' = tries[c]
  /\ ToStep(c, "use")
  /\ UNCHANGED <<does, tries, operationQueue, speaks, raced>>

(* One fall-back, to SSE; then the operation fails.                        *)
ConnectFails(c) ==
  /\ step[c] = "connect"
  /\ \/ /\ tries[c] = "streamableHttp"
        /\ tries' = [tries EXCEPT ![c] = "sse"]
        /\ UNCHANGED <<step, operationQueue, uses>>
     \/ /\ tries[c] = "sse"
        /\ IF does[c] = "call"
           THEN ToStep(c, "drop") /\ uses' = [uses EXCEPT ![c] = current]
                /\ UNCHANGED operationQueue
           ELSE Leave(c) /\ UNCHANGED uses
        /\ UNCHANGED tries
  /\ UNCHANGED <<does, current, openClients, clientsOpened, kindOf, speaks, raced>>

Succeeds(c) ==
  /\ step[c] = "use" /\ uses[c] \in openClients /\ Leave(c)
  /\ UNCHANGED <<does, uses, tries, current, openClients, clientsOpened, kindOf, speaks,
                 raced>>

(* A call that fails disconnects what is stored by then, which need not be *)
(* the client it used; a failed discovery leaves it.                       *)
Fails(c) ==
  /\ step[c] = "use"
  /\ IF does[c] = "call"
     THEN ToStep(c, "drop") /\ uses' = [uses EXCEPT ![c] = current] /\ UNCHANGED operationQueue
     ELSE Leave(c) /\ UNCHANGED uses
  /\ UNCHANGED <<does, tries, current, openClients, clientsOpened, kindOf, speaks, raced>>

Drop(c) ==
  /\ step[c] = "drop"
  /\ IF uses[c] # 0 THEN CloseConnectionIfCurrent(c) ELSE UNCHANGED <<openClients, current>>
  /\ Leave(c)
  /\ UNCHANGED <<does, uses, tries, clientsOpened, kindOf, speaks, raced>>

(* /mcp remove closes the connection and forgets its transport.            *)
DisconnectMcpClient(c) ==
  /\ does[c] = "remove" /\ step[c] = "start"
  /\ uses' = [uses EXCEPT ![c] = current]
  /\ IF current # 0 THEN ToStep(c, "drop") /\ UNCHANGED kindOf
     ELSE ToStep(c, "done") /\ kindOf' = NotPinned
  /\ UNCHANGED <<does, tries, operationQueue, current, openClients, clientsOpened,
                 speaks, raced>>

ForgetTransportKind(c) ==
  /\ does[c] = "remove" /\ step[c] = "drop"
  /\ CloseConnectionIfCurrent(c)
  /\ kindOf' = NotPinned /\ Leave(c)
  /\ UNCHANGED <<does, uses, tries, clientsOpened, speaks, raced>>

ServerDies(i) ==
  /\ i \in openClients /\ openClients' = openClients \ {i}
  /\ UNCHANGED <<does, step, uses, tries, operationQueue, current, clientsOpened, kindOf,
                 speaks, raced>>

Operation(c) ==
  \/ EnqueueMcpOperation(c) \/ GetMcpClient(c) \/ Probe(c) \/ CloseDead(c)
  \/ ConnectAndStore(c) \/ ConnectFails(c) \/ Succeeds(c) \/ Fails(c)
  \/ does[c] # "remove" /\ Drop(c)
  \/ DisconnectMcpClient(c) \/ ForgetTransportKind(c)

McpConnNext == (\E c \in McpCalls : Operation(c)) \/ \E i \in 1..MaxClients : ServerDies(i)
McpConnFairness == \A c \in McpCalls : WF_mcpConnVars(step[c] # "start" /\ Operation(c))

-----------------------------------------------------------------------------
McpConnTypeOK ==
  /\ step \in [McpCalls -> Steps] /\ uses \in [McpCalls -> 0..clientsOpened]
  /\ current \in 0..clientsOpened /\ openClients \subseteq 1..clientsOpened
  /\ kindOf \in Transports \cup {NotPinned}

(* The comment on operationQueues: two calls never use the transport at    *)
(* once, the very first one, before there is a connection, included.       *)
CallsSerialized ==
  Cardinality({c \in McpCalls :
                 does[c] = "call" /\ step[c] \notin {"start", "queued", "done"}}) <= 1

(* closeConnectionIfCurrent: no open connection is forgotten, whoever      *)
(* closes and opens meanwhile.  The exception is a discovery, which does   *)
(* not queue, beside another operation in getMcpClient: both may open one, *)
(* and the first is never closed.                                          *)
NoneForgotten == ~raced => openClients \subseteq {current}

McpConnectionInv == McpConnTypeOK /\ CallsSerialized /\ NoneForgotten

(* No operation that began waits for ever, neither in the queue nor for a  *)
(* connection.                                                             *)
McpCallsOver == \A c \in McpCalls : step[c] \in {"start", "done"}
McpCallsEnd == <>[]McpCallsOver
=============================================================================
