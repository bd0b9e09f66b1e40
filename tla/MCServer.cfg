SPECIFICATION MCSpec
CONSTANTS
  Callers = {"c1", "c2", "c3"}
  Requests <- MCRequests
  Models = {"m", "n"}
  ToolModels = {"n"}
  ThinkModels = {"n"}
  Providers = {"p"}
  MaxClock = 1
  Clients = {"c1", "c2", "c3"}
  PrefRequests <- MCPrefRequests
  RuleIds = {"i1", "i2", "i3"}
  Tokens = {"a", "b"}
  Topics = {"x", "y"}
  FirstRules <- MCFirstRules
  Answers <- MCAnswers
  ConsolidateMin = 1
  SimNum = 1
  SimDen = 2
  Users = {"c1", "c2", "c3"}
  SkillNames = {"m", "n"}
  SkillCalls <- MCSkillCalls
  MaxAttempts = 2
  Fields = {"password", "port"}
  Repairs <- MCRepairs
  MaxKeys = 2
  Bodies <- MCBodies
  MaxRead = 7
  Replies <- MCReplies
  MaxTurns = 5
  MaxIdleTurns = 3
  MaxEscalations = 1
  NeedsSetup = TRUE
  MemTasks = {"t1", "t2"}
  MaxResets = 1
  MayLog <- MCMayLog
  HeaderLike <- MCHeaderLike
  MaxStreams = 2
  MaxFrames = 1
  MaxLosses = 1
  MaxTrouble = 2
  Builds = {"b1", "b2"}
  TrainedLengths = {30, 100}
  MinNumCtx = 40
  DefaultWindow = 120
  NumCtxs = {0, 80}
  BudgetShare = 5
  Materials <- MCMaterials
  MaxChanges = 2
  Peers = {"n1", "n2"}
  MaxStarts = 1
  Typings <- MCTypings
  MaxPrompts = 5
  NamedProviders = {"p"}
  AgentModels = {"m", "n"}
  WindowOf <- MCWindowOf
  UnknownBudget = 12
  Seed = 2
  KeepRecent = 2
  Efforts <- MCEfforts
  Overrides <- MCOverrides
  MaxBatch = 2
  MaxIterations = 3
  MaxSwitches = 2
  Tags = {"a", "b"}
  BlobsOf <- MCBlobsOf
  BlobSize <- MCBlobSize
  Layouts <- MCLayouts
  MaxPulls = 1
  MaxUnread = 1
  TextCalls <- MCTextCalls
  LastCall <- MCLastCall
  Words = {"f1", "f2", "dir/x", "/abs.ts", "word"}
  NamesFile = {"f1", "f2", "/abs.ts"}
  HasSlash = {"dir/x", "/abs.ts"}
  OutsideOrTool = {"/abs.ts"}
  MaxWords = 3
  Reporters = {"t1", "t2"}
  Owners = {"o1", "o2"}
  LocalModels = {"m"}
  MaxMoves = 2
INVARIANTS StoresInv WorkInv 
PROPERTIES ServerProgress
CHECK_DEADLOCK FALSE
