------------------------------ MODULE MCClient ------------------------------
(***************************************************************************)
(* The client's components side by side.  They share no variable, so a     *)
(* behaviour is one of a single component, chosen by the initial state,    *)
(* and the others stay as they are.                                        *)
(***************************************************************************)
EXTENDS ClientConnection, ClientOperations, TerminalSession, ThinkStream, McpSync,
        McpConnection, ClientSettings, ServerIdentity, CommandRun

CONSTANTS opA, opB, theFile
VARIABLE part

Pair(a, b) == (opA :> a) @@ (opB :> b)

MCFile == [r \in Ops |-> theFile]
MCWorkloads ==
  {Pair("edit", "edit"), Pair("edit", "write"), Pair("run", "edit"), Pair("run", "run"),
   Pair("mcp", "read"), Pair("delete", "write")}
MCOpen == <<"<", ">">>
MCClose == <<"<", "/", ">">>
MCTwoBlocks == MCOpen \o <<"a">> \o MCClose \o MCOpen \o <<"a">> \o MCClose
MCTexts ==
  {t \in BoundedSeq({"<", "/", ">", "a"}, 6) : Len(t) <= 4 \/ IsPrefix(MCOpen, t)}
    \cup {MCTwoBlocks}

MCAdvertised == [s \in Settings |-> IF s = "v1" THEN {"t1"} ELSE {"t1", "t2"}]

(* The first calls of the server's queue, and one call or command beside.  *)
MCCalls ==
  /\ does["c1"] = "call" /\ (does["c2"] = "call" \/ does["c3"] # "call")
  /\ (does["c3"] = "remove" => does["c2"] = "call")

(* One server is configured as the cache knows it, or was disabled since;  *)
(* the other is new, or is gone and left its entry.                        *)
MCServers ==
  /\ mcpServers["g"] # Unset /\ mcpServers["g"].with = "v1" /\ mcpServers["h"] = Unset
  /\ entries["g"] # Unset /\ entries["g"].marker = "v1" /\ entries["g"].fresh
  /\ entries["h"] # Unset => entries["h"].marker = "v2" /\ entries["h"].fresh /\ ~entries["h"].inactive
  /\ (part # "mcp" => entries["g"].inactive /\ ~mcpServers["g"].enabled /\ entries["h"] = Unset)

(* The file as this host's process left it; another host's pin is no use.   *)
MCFirstFile ==
  stored.form # "missing" => stored.content.secret = "s" /\ "h" \in stored.content.pins

(* One request of any kind beside one for a command that asks.             *)
Command(class, dollar) == [class |-> class, dollar |-> dollar]
MCCommands ==
  {Command("safe", FALSE), Command("safe", TRUE), Command("cautious", FALSE),
   Command("background", FALSE)}
MCJobs ==
  /\ machine = {"native"} /\ workspaceRoot = 1
  /\ job["j2"].what.class = "cautious"
  /\ part # "commands" => job["j1"].what.class = "cautious"

(* One server is made anew and started again; the other, which has its     *)
(* files, starts once.                                                     *)
MCOneRotates == rotated' \subseteq {1} /\ (serving[2] # 0 => serving'[2] # 0)

-----------------------------------------------------------------------------
Parts ==
  {"connection", "operations", "session", "reasoning", "mcp", "mcpcalls", "settings", "identity",
   "commands"}

(* The component that acts; the others keep one initial state.             *)
MCInit ==
  /\ part \in Parts
  /\ ConnInit /\ (part # "connection" => config = CHOOSE s \in Servers : TRUE)
  /\ OpInit /\ (part # "operations" => kind[opB] = "read" /\ mode = "auto" /\ uiActive)
  /\ UiInit
  /\ IF part = "reasoning" THEN ThinkInit ELSE agent = TRUE /\ text = <<>> /\ ThinkInit
  /\ McpInit /\ MCServers
  /\ McpConnInit /\ MCCalls
  /\ (part # "mcpcalls" =>
        does["c2"] = "call" /\ does["c3"] = "list" /\ kindOf = NotPinned /\ speaks = "sse")
  /\ SettingsInit /\ MCFirstFile /\ (part # "settings" => stored = NoFile)
  /\ IdentityInit /\ configured = 1 /\ certFile[2] = 2 /\ (part # "identity" => certFile[1] = 1)
  /\ CommandInit /\ MCJobs

(* All but the component that acts stay as they are.                      *)
OthersKeep ==
  /\ UNCHANGED part
  /\ part # "connection" => UNCHANGED connVars
  /\ part # "operations" => UNCHANGED opVars
  /\ part # "session" => UNCHANGED uiVars
  /\ part # "reasoning" => UNCHANGED thinkVars
  /\ part # "mcp" => UNCHANGED mcpVars
  /\ part # "mcpcalls" => UNCHANGED mcpConnVars
  /\ part # "settings" => UNCHANGED settingsVars
  /\ part # "identity" => UNCHANGED identityVars
  /\ part # "commands" => UNCHANGED commandVars

(* The settings and the servers' files are followed until a process is in  *)
(* another one's way.                                                      *)
MCNext ==
  \/ part = "connection" /\ ConnNext /\ OthersKeep
  \/ part = "operations" /\ OpNext /\ OthersKeep
  \/ part = "session" /\ UiNext /\ OthersKeep
  \/ part = "reasoning" /\ ThinkNext /\ OthersKeep
  \/ part = "mcp" /\ McpNext /\ OthersKeep
  \/ part = "mcpcalls" /\ McpConnNext /\ OthersKeep
  \/ part = "settings" /\ undisturbed /\ SettingsNext /\ OthersKeep
  \/ part = "identity" /\ broken = {} /\ IdentityNext /\ MCOneRotates /\ OthersKeep
  \/ part = "commands" /\ CommandNext /\ OthersKeep

MCSpec ==
  /\ MCInit
  /\ [][MCNext]_<<part, connVars, opVars, uiVars, thinkVars, mcpVars, mcpConnVars, settingsVars,
                 identityVars, commandVars>>
  /\ ConnFairness /\ OpFairness /\ UiFairness /\ McpFairness /\ McpConnFairness

(* The connections of the client.  To the server: at most one socket is    *)
(* the client's, under the settings it has, which are kept, with the       *)
(* certificate it trusts.  To MCP servers: the tools in the cache, at the  *)
(* approval gate and at the server agree, and no call uses a transport     *)
(* that another uses, or leaves one open and forgotten.                    *)
ConnectionsInv ==
  /\ part = "connection" => ConnectionInv
  /\ part = "mcp" => McpInv
  /\ part = "mcpcalls" => McpConnectionInv
  /\ part = "settings" => SettingsInv
  /\ part = "identity" => IdentityInv

(* What tasks do on the user's machine.                                    *)
MachineInv == OperationsInv /\ CommandInv

(* What the connection and its loss may never do in a step.                *)
ClientSteps == GivenUpOnlyClosed /\ DismissedWithSession /\ PinsAreKept

(* What must happen in the end, in each component: the connection is made  *)
(* again, commands and operations end, queued lines get their turn, every  *)
(* sync of MCP tools and every call to an MCP server ends.                 *)
ClientProgress ==
  <>[](/\ LinkRestored /\ CommandsOver /\ OperationsOver /\ QueueEmpty
       /\ SyncsOver /\ McpCallsOver)
=============================================================================
