-------------------------------- MODULE McpSync --------------------------------
(***************************************************************************)
(* The tools of the user's MCP servers: which are configured (/mcp add,    *)
(* remove, enable, disable), what each advertised when it was last asked   *)
(* (one cache file per server), which of them the approval gate lets       *)
(* through (toolRegistry), and which the server offers to the model        *)
(* (mcpTools of the connection, and its own cache).  Every command and     *)
(* every reconnect runs syncAllMcpTools, from a snapshot of the            *)
(* configuration and of the cache, through awaits during which another     *)
(* sync may run.                                                           *)
(***************************************************************************)
EXTENDS Naturals, FiniteSets

CONSTANTS
  McpServers,        \* ids under mcpServers
  Settings,          \* configurations (transport, credentials, readOnly) of a server
  Advertised,        \* [Settings -> the tools a server so configured lists]
  Pinned,            \* settings that name a version: isVersionPinned
  Syncs,             \* runs of syncAllMcpTools that may be in flight together
  MaxMcpCommands,    \* bound: /mcp commands
  MaxReconnects,     \* bound: connections made, the first included
  Unset              \* undefined

(* What the cache has of a server: the settings it was listed under, its   *)
(* tools, whether the time to live has passed, whether it is disabled.     *)
CachedEntry ==
  [marker : Settings, tools : SUBSET UNION {Advertised[c] : c \in Settings},
   fresh : BOOLEAN, inactive : BOOLEAN]

ASSUME McpAssumption ==
  /\ Pinned \subseteq Settings /\ Unset \notin Settings /\ Unset \notin CachedEntry
  /\ MaxMcpCommands \in Nat /\ MaxReconnects \in Nat

VARIABLES
  mcpServers,     \* [McpServers -> Unset or [with, enabled]]: config.json
  entries,        \* [McpServers -> Unset or CachedEntry]: the cache on disk
  connections,    \* [McpServers -> Unset or the settings the client was opened with]
  toolRegistry,   \* tools the approval gate knows, as <<server, tool>>
  mcpTools,       \* tools the server offers to the model on this connection
  store,          \* the server's McpToolsCacheStore: [marker, tools], or Unset
  run,            \* [Syncs -> the sync]
  mcpCommands, reconnects,
  overlapped,     \* ghost: two syncs were in flight together
  lastSync         \* ghost: how the last sync ended

mcpVars == <<mcpServers, entries, connections, toolRegistry, mcpTools, store, run,
             mcpCommands, reconnects, overlapped, lastSync>>

Plan == [reuse : SUBSET McpServers, discover : SUBSET McpServers,
         deactivate : SUBSET McpServers, drop : SUBSET McpServers]
NoPlan == [reuse |-> {}, discover |-> {}, deactivate |-> {}, drop |-> {}]
NoServers == [s \in McpServers |-> Unset]
Done == [at |-> "idle", op |-> "none", of |-> Unset, config |-> NoServers,
         cached |-> NoServers, plan |-> NoPlan]

(* The client starts with the configuration and the cache that an earlier  *)
(* session left on disk.                                                   *)
Left == [marker : Settings, fresh : BOOLEAN, inactive : BOOLEAN]
CachedThen(e) ==
  [marker |-> e.marker, tools |-> Advertised[e.marker], fresh |-> e.fresh,
   inactive |-> e.inactive]

McpInit ==
  /\ mcpServers \in [McpServers -> {Unset} \cup [with : Settings, enabled : BOOLEAN]]
  /\ entries \in [McpServers -> {Unset} \cup {CachedThen(e) : e \in Left}]
  /\ connections = NoServers
  /\ toolRegistry = {} /\ mcpTools = {} /\ store = Unset
  /\ run = [k \in Syncs |-> Done]
  /\ mcpCommands = 0 /\ reconnects = 0 /\ overlapped = FALSE /\ lastSync = "none"

-----------------------------------------------------------------------------
(* What a snapshot of the configuration desires; computeServerMarker       *)
(* depends on the settings alone, so they stand for the marker.            *)
DesiredInactive(config) == {s \in McpServers : config[s] # Unset /\ ~config[s].enabled}
DesiredActive(config) == {s \in McpServers : config[s] # Unset /\ config[s].enabled}
RootMarker(config) ==
  [s \in McpServers |-> IF s \in DesiredActive(config) THEN config[s].with ELSE Unset]

Known(cached) == {s \in McpServers : cached[s] # Unset}
IsEntryFresh(entry) == entry.marker \in Pinned \/ entry.fresh
Reusable(s, config, cached) ==
  s \in Known(cached) /\ cached[s].marker = config[s].with /\ IsEntryFresh(cached[s])

Stale(config, cached) ==
  [deactivate |-> {s \in DesiredInactive(config) \cap Known(cached) : ~cached[s].inactive},
   drop |-> Known(cached) \ (DesiredActive(config) \cup DesiredInactive(config))]

PlanSync(config, cached) ==
  LET again == {s \in DesiredActive(config) : Reusable(s, config, cached)}
  IN  [NoPlan EXCEPT !.reuse = again, !.discover = DesiredActive(config) \ again,
                     !.deactivate = Stale(config, cached).deactivate,
                     !.drop = Stale(config, cached).drop]

PlanMutation(op, s, config, cached) ==
  LET now == {r \in DesiredActive(config) : r = s /\ op # "remove"}
      again == {r \in now : Reusable(r, config, cached)}
  IN  [reuse |-> again, discover |-> now \ again,
       deactivate |-> {r \in DesiredInactive(config) : r = s /\ op = "toggle"},
       drop |-> {r \in McpServers : r = s /\ op = "remove"}]

PlanRefresh(config, cached) ==
  [NoPlan EXCEPT !.discover = DesiredActive(config),
                 !.deactivate = Stale(config, cached).deactivate,
                 !.drop = Stale(config, cached).drop]

PlanFor(op, s, config, cached) ==
  CASE op = "none" -> PlanSync(config, cached)
    [] op = "refresh" -> PlanRefresh(config, cached)
    [] OTHER -> PlanMutation(op, s, config, cached)

PlanIsNoop(p) == p.discover = {} /\ p.deactivate = {} /\ p.drop = {}

-----------------------------------------------------------------------------
InFlight == {k \in Syncs : run[k].at # "idle"}

Launch(op, s) ==
  LET k == CHOOSE j \in Syncs : j \notin InFlight
  IN  /\ InFlight # Syncs
      /\ run' = [run EXCEPT ![k] = [Done EXCEPT !.at = "begin", !.op = op, !.of = s]]
      /\ overlapped' = (overlapped \/ InFlight # {})

(* The prompt opens after the first sync.  One /mcp command runs at a      *)
(* time, and waits for its sync.                                           *)
Prompt == lastSync # "none" /\ mcpCommands < MaxMcpCommands /\ \A k \in Syncs : run[k].op = "none"
CommandSync(op, s) == Prompt /\ mcpCommands' = mcpCommands + 1 /\ Launch(op, s)

Add(s) ==
  \E settings \in Settings :
    /\ CommandSync("add", s)
    /\ mcpServers' = [mcpServers EXCEPT ![s] = [with |-> settings, enabled |-> TRUE]]
    /\ UNCHANGED <<entries, connections, toolRegistry, mcpTools, store, reconnects,
                   lastSync>>

RemoveServer(s) ==
  /\ mcpServers[s] # Unset
  /\ CommandSync("remove", s)
  /\ mcpServers' = [mcpServers EXCEPT ![s] = Unset]
  /\ connections' = [connections EXCEPT ![s] = Unset]
  /\ UNCHANGED <<entries, toolRegistry, mcpTools, store, reconnects, lastSync>>

Toggle(s) ==
  /\ mcpServers[s] # Unset
  /\ CommandSync("toggle", s)
  /\ mcpServers' = [mcpServers EXCEPT ![s].enabled = ~@]
  /\ UNCHANGED <<entries, connections, toolRegistry, mcpTools, store, reconnects, lastSync>>

Refresh ==
  /\ CommandSync("refresh", Unset)
  /\ UNCHANGED <<mcpServers, entries, connections, toolRegistry, mcpTools, store,
                 reconnects, lastSync>>

(* The connection is made or comes back: the server has a new, empty one,  *)
(* and the client syncs without a command.                                 *)
Reconnect ==
  /\ reconnects = 0 \/ lastSync # "none"
  /\ reconnects < MaxReconnects /\ reconnects' = reconnects + 1
  /\ mcpTools' = {}
  /\ Launch("none", Unset)
  /\ UNCHANGED <<mcpServers, entries, connections, toolRegistry, store, mcpCommands,
                 lastSync>>

(* The snapshot and the plan, in one turn of the event loop.               *)
Begin(k) ==
  /\ run[k].at = "begin"
  /\ LET plan == PlanFor(run[k].op, run[k].of, mcpServers, entries)
         asks == run[k].op = "none" /\ ~PlanIsNoop(plan)
     IN  run' = [run EXCEPT ![k] = [@ EXCEPT !.at = IF asks THEN "check" ELSE "drop",
                                             !.config = mcpServers, !.cached = entries,
                                             !.plan = plan]]
  /\ UNCHANGED <<mcpServers, entries, connections, toolRegistry, mcpTools, store,
                 mcpCommands, reconnects, overlapped, lastSync>>

-----------------------------------------------------------------------------
Goto(k, next) == run' = [run EXCEPT ![k].at = next]

(* Mutant of ToolsOf: what is disabled stays callable.                                *)
KeepsInactive(cached) == UNION {{s} \X cached[s].tools : s \in Known(cached)}

ToolsOf(cached) ==
  UNION {{s} \X cached[s].tools : s \in {r \in Known(cached) : ~cached[r].inactive}}

RebuildToolRegistry(cached) == toolRegistry' = ToolsOf(cached)

Entry(settings, tools) ==
  [marker |-> settings, tools |-> tools, fresh |-> TRUE, inactive |-> FALSE]

(* Entries for the servers with tools in a flat list, as of now.           *)
SeedCacheFromFlatTools(config, tools) ==
  [s \in McpServers |->
     LET own == {t \in UNION {Advertised[c] : c \in Settings} : <<s, t>> \in tools}
     IN  IF own # {} /\ s \in DesiredActive(config) THEN Entry(config[s].with, own)
         ELSE entries[s]]

EndsAs(k, how) == run' = [run EXCEPT ![k] = Done] /\ lastSync' = how

(* The server's handler of sync.check: its own cache answers for a marker  *)
(* it knows.                                                               *)
SyncCheck(marker) ==
  /\ store # Unset /\ store.marker = marker
  /\ mcpTools' = store.tools

(* And of mcp.tools.sync, which replaces the whole list.                   *)
ToolsSync(tools, marker) ==
  /\ mcpTools' = tools
  /\ store' = [marker |-> marker, tools |-> tools]

(* After a hit nothing of the plan is carried out.                         *)
CheckHits(k) ==
  /\ run[k].at = "check"
  /\ SyncCheck(RootMarker(run[k].config))
  /\ LET seeded == SeedCacheFromFlatTools(run[k].config, store.tools)
     IN  entries' = seeded /\ RebuildToolRegistry(seeded)
  /\ EndsAs(k, "hit")
  /\ UNCHANGED <<mcpServers, connections, store, mcpCommands, reconnects, overlapped>>

(* Another marker, or a call that fails.                                   *)
CheckMisses(k) ==
  /\ run[k].at = "check"
  /\ Goto(k, "drop")
  /\ UNCHANGED <<mcpServers, entries, connections, toolRegistry, mcpTools, store,
                 mcpCommands, reconnects, overlapped, lastSync>>

(* The server is done with.                                                *)
Without(plan, s) ==
  [reuse |-> plan.reuse \ {s}, discover |-> plan.discover \ {s},
   deactivate |-> plan.deactivate \ {s}, drop |-> plan.drop \ {s}]

Save(k, s, entry) ==
  /\ entries' = [entries EXCEPT ![s] = entry]
  /\ run' = [run EXCEPT ![k].cached[s] = entry, ![k].plan = Without(run[k].plan, s)]

(* The servers that are gone, then the disabled ones: each is disconnected *)
(* and then leaves the cache, or is marked in it.                          *)
DropServer(k, s) ==
  /\ run[k].at = "drop" /\ s \in run[k].plan.drop
  /\ connections' = [connections EXCEPT ![s] = Unset]
  /\ Save(k, s, Unset)
  /\ UNCHANGED <<mcpServers, toolRegistry, mcpTools, store, mcpCommands, reconnects,
                 overlapped, lastSync>>

DeactivateServer(k, s) ==
  /\ run[k].at = "drop" /\ run[k].plan.drop = {} /\ s \in run[k].plan.deactivate
  /\ connections' = [connections EXCEPT ![s] = Unset]
  /\ LET entry == run[k].cached[s]
     IN  IF entry = Unset
         THEN run' = [run EXCEPT ![k].plan.deactivate = @ \ {s}] /\ entries' = entries
         ELSE Save(k, s, [entry EXCEPT !.inactive = TRUE])
  /\ UNCHANGED <<mcpServers, toolRegistry, mcpTools, store, mcpCommands, reconnects,
                 overlapped, lastSync>>

(* Several at once, in any order.  A connection that answers is used again *)
(* whatever settings it was opened with; a server that fails keeps its     *)
(* entry.                                                                  *)
DiscoverServer(k, s) ==
  /\ run[k].at = "drop" /\ run[k].plan.drop = {} /\ run[k].plan.deactivate = {}
  /\ s \in run[k].plan.discover
  /\ \/ LET with == run[k].config[s].with
            opened == IF connections[s] = Unset THEN with ELSE connections[s]
            tools == Advertised[opened]
        IN  /\ connections' = [connections EXCEPT ![s] = opened]
            /\ toolRegistry' = toolRegistry \cup ({s} \X tools)
            /\ Save(k, s, Entry(with, tools))
     \/ /\ run' = [run EXCEPT ![k].plan.discover = @ \ {s}]
        /\ UNCHANGED <<entries, connections, toolRegistry>>
  /\ UNCHANGED <<mcpServers, mcpTools, store, mcpCommands, reconnects, overlapped,
                 lastSync>>

(* The rest without an await: reused entries are active again, the gate's  *)
(* registry is rebuilt and the whole list is on its way to the server.     *)
Reactivated(k) ==
  LET again == {s \in run[k].plan.reuse : run[k].cached[s] # Unset /\ run[k].cached[s].inactive}
  IN  [s \in McpServers |-> IF s \in again THEN [run[k].cached[s] EXCEPT !.inactive = FALSE]
                            ELSE run[k].cached[s]]

Payload(k) == {p \in ToolsOf(Reactivated(k)) : run[k].config[p[1]] # Unset}

Publish(k) ==
  /\ run[k].at = "drop"
  /\ run[k].plan.drop \cup run[k].plan.deactivate \cup run[k].plan.discover = {}
  /\ entries' = [s \in McpServers |-> IF Reactivated(k)[s] # run[k].cached[s]
                                      THEN Reactivated(k)[s] ELSE entries[s]]
  /\ RebuildToolRegistry(Reactivated(k))
  /\ \/ Payload(k) = {} /\ EndsAs(k, "empty") /\ UNCHANGED <<mcpTools, store>>
     \/ /\ Payload(k) # {} /\ ToolsSync(Payload(k), RootMarker(run[k].config))
        /\ EndsAs(k, "published")
     \/ Payload(k) # {} /\ EndsAs(k, "failed") /\ UNCHANGED <<mcpTools, store>>
  /\ UNCHANGED <<mcpServers, connections, mcpCommands, reconnects, overlapped>>

(* An entry outlives its time to live.                                     *)
Expire(s) ==
  /\ entries[s] # Unset /\ entries[s].fresh /\ entries[s].marker \notin Pinned
  /\ entries' = [entries EXCEPT ![s].fresh = FALSE]
  /\ UNCHANGED <<mcpServers, connections, toolRegistry, mcpTools, store, run, mcpCommands,
                 reconnects, overlapped, lastSync>>

(* /mcp tools and /mcp check ask a server without the cache and add what   *)
(* it lists to the gate's registry.                                        *)
ListTools(s) ==
  /\ Prompt /\ mcpServers[s] # Unset /\ mcpCommands' = mcpCommands + 1
  /\ LET opened == IF connections[s] = Unset THEN mcpServers[s].with ELSE connections[s]
     IN  /\ connections' = [connections EXCEPT ![s] = opened]
         /\ toolRegistry' = toolRegistry \cup ({s} \X Advertised[opened])
  /\ UNCHANGED <<mcpServers, entries, mcpTools, store, run, reconnects, overlapped,
                 lastSync>>

SyncStep(k) ==
  \/ Begin(k) \/ CheckHits(k) \/ CheckMisses(k) \/ Publish(k)
  \/ \E s \in McpServers : DropServer(k, s) \/ DeactivateServer(k, s) \/ DiscoverServer(k, s)

McpNext ==
  \/ \E s \in McpServers : Add(s) \/ RemoveServer(s) \/ Toggle(s) \/ ListTools(s) \/ Expire(s)
  \/ Refresh \/ Reconnect
  \/ \E k \in Syncs : SyncStep(k)

McpFairness == \A k \in Syncs : WF_mcpVars(SyncStep(k))

-----------------------------------------------------------------------------
Quiet == InFlight = {}

McpTypeOK ==
  /\ \A s \in McpServers : mcpServers[s] # Unset => mcpServers[s].with \in Settings
  /\ \A s \in Known(entries) : entries[s].marker \in Settings
  /\ \A k \in Syncs : run[k].plan \in Plan

(* The comment on rebuildToolRegistry: after a sync the gate knows what    *)
(* the model is offered, also if the server answered from its own cache.   *)
(* There are two exceptions.  A sync with nothing to offer tells the       *)
(* server nothing, so the server goes on to offer what the gate now        *)
(* refuses.  And where two syncs overlapped the server's cache may hold    *)
(* tools of a server its marker does not name: the next hit offers them    *)
(* and leaves them out of the gate's registry.                             *)
OfferedIsCallable ==
  Quiet /\ (lastSync = "published" \/ (lastSync = "hit" /\ ~overlapped))
    => mcpTools \subseteq toolRegistry

(* A server that was removed or disabled is not offered to the model, as   *)
(* long as no other sync wrote its own snapshot back meanwhile.            *)
OfferedIsConfigured ==
  Quiet /\ ~overlapped /\ lastSync \in {"published", "hit"}
    => \A p \in mcpTools : mcpServers[p[1]] # Unset /\ mcpServers[p[1]].enabled

(* The server's cache may be used in place of a discovery: it holds only   *)
(* tools of servers its marker names, again unless syncs overlapped.       *)
StoreIsOfItsMarker ==
  store # Unset /\ ~overlapped => \A p \in store.tools : store.marker[p[1]] # Unset

McpInv == McpTypeOK /\ OfferedIsCallable /\ OfferedIsConfigured /\ StoreIsOfItsMarker

(* The comments on planMcpSync and CachedEntry.marker: tools in the cache  *)
(* under a marker are those of a server with these settings.  The code     *)
(* breaks it: a live connection is used again after /mcp add changed the   *)
(* settings of its server.  No run checks this formula.                    *)
CacheIsOfItsMarker == \A s \in Known(entries) : entries[s].tools \subseteq Advertised[entries[s].marker]

(* Every sync comes to its end.                                            *)
SyncsOver == InFlight = {}
SyncsEnd == <>[]SyncsOver
=============================================================================
