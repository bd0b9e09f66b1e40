SPECIFICATION MCSpec
CONSTANTS
  Servers = {a, b}
  Commands = {c1}
  MaxSockets = 3
  opA = opA
  opB = opB
  theFile = theFile
  Ops = {opA, opB}
  Files = {theFile}
  Workloads <- MCWorkloads
  File <- MCFile
  MaxSessions = 2
  MaxTimeouts = 1
  Lines = {l1, l2, l3, l4}
  Tasks = {l1, l3, l4}
  QueueCap = 2
  Texts <- MCTexts
  OpenTag <- MCOpen
  CloseTag <- MCClose
  MaxChunk = 2
  Coalesce = 2
  MaxCommits = 1
  McpServers = {"g", "h"}
  Settings = {"v1", "v2"}
  Advertised <- MCAdvertised
  Pinned = {"v2"}
  Syncs = {"c", "r"}
  MaxMcpCommands = 1
  MaxReconnects = 2
  Unset = Unset
  McpCalls = {"c1", "c2", "c3"}
  MaxClients = 3
  Procs = {p1, p2}
  Hosts = {"h"}
  Secrets = {"s"}
  MaxSalts = 3
  MaxOps = 2
  Addresses = {1, 2}
  MaxPairs = 3
  MaxDials = 2
  Jobs = {"j1", "j2"}
  CommandKinds <- MCCommands
  Workspaces = {1, 2}
  MaxUserSteps = 2
INVARIANTS ConnectionsInv MachineInv SessionInv ReasoningInv
PROPERTIES ClientSteps ClientProgress
CHECK_DEADLOCK FALSE
