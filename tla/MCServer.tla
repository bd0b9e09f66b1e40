------------------------------ MODULE MCServer ------------------------------
(***************************************************************************)
(* The server's process, its stores, its secrets, the answers of its       *)
(* models and its subagents side by side.  They share no variable, so a    *)
(* behaviour is one of a single component, chosen by the initial state,    *)
(* and the others stay as they are.                                        *)
(***************************************************************************)
EXTENDS ConfigStore, ModelStream, PreferenceStore, SkillStore, StartupSecrets, SubagentRun,
        TaskMemory, TaskStream, ContextBuilder, ServerProcess, PromptInput,
        ModelCalls, ModelLibrary, ToolBlocks, PlacementReport, Functions

VARIABLE part

-----------------------------------------------------------------------------
Change(k, p, m, t) ==
  [kind |-> k, role |-> "agent", provider |-> p, model |-> m, temp |-> t, at |-> 1]
MCRequestList ==
  <<Change("get", Ollama, "m", 1), Change("temp", Ollama, "m", 1),
   Change("setModel", Ollama, "n", 0), Change("setProvider", "p", "m", 0),
   Change("setRoleModel", "p", "n", 0), Change("add", "p", "m", 0),
   Change("remove", "p", "m", 0), Change("sync", "p", "m", 0), Change("rotate", Ollama, "m", 0)>>
MCRequests == Range(MCRequestList)

Ask(k, i, w, t) == [kind |-> k, id |-> i, text |-> w, topics |-> t]
MCPrefList ==
  <<Ask("read", "i1", {}, {}), Ask("add", "i1", {"a"}, {"x"}),
   Ask("add", "i1", {"a", "b"}, {"y"}), Ask("add", "i1", {}, {}),
   Ask("update", "i1", {"b"}, {"y"}), Ask("deleteByTopic", "i1", {}, {"x"}),
   Ask("remove", "i1", {}, {}), Ask("clear", "i1", {}, {}), Ask("mark", "i1", {}, {}),
   Ask("consolidate", "i1", {}, {})>>
MCPrefRequests == Range(MCPrefList)
MCFirstRules ==
  {NoRules, [i \in {"i1"} |-> [text |-> {"a"}, topics |-> {"x"}, applied |-> 0]]}
MCAnswers ==
  {{}, {[id |-> NoId, text |-> {"a"}, topics |-> {}]},
   {[id |-> "i1", text |-> {"b"}, topics |-> {"y"}]}}

Call(k, names) == [kind |-> k, names |-> names]
MCSkillList ==
  <<Call("save", {"m"}), Call("save", {"m", "n"}), Call("save", {}), Call("delete", {"m"}),
    Call("select", {})>>
MCSkillCalls == Range(MCSkillList)

MCRepairs ==
  {[reset |-> TRUE, fields |-> {"password", "port"}], [reset |-> FALSE, fields |-> {"port"}],
   [reset |-> FALSE, fields |-> {"password"}]}

Piece(t, i, n, a) == [token |-> t, index |-> i, name |-> n, args |-> a]
MCBodies ==
  [openai |->
     {<<Piece("t1", 0, "", ""), Piece("", 1, "read", "a1"), Piece("", 2, "write", "b1"),
        Piece("", 1, "", "a2"), Piece("t2", 2, "", "b2")>>,
      <<Piece("", 2, "read", "a1"), Piece("t1", 2, "", "a2"), Piece("", 0, "", ""),
        Piece("t2", 1, "write", ""), Piece("", 2, "", "a3")>>},
   ollama |->
     {<<Piece("t1", 0, "", ""), Piece("t2", 1, "read", "a1"), Piece("", 1, "", "b1"),
        Piece("", 1, "write", "b2")>>}]

MCReplies ==
  [think : Thoughts, tools : {{}}, malformed : BOOLEAN,
   recovered : {"none", "finish", "write"}] \cup
  [think : Thoughts, tools : {{t} : t \in Tools} \cup {{"write", "finish"}},
   malformed : {FALSE}, recovered : {"none"}]

(* The tools of one task log, those of the other do not.                   *)
MCMayLog == [t \in MemTasks |-> IF t = "t1" THEN Logs ELSE {}]

(* The prompt of one task and the listing of the workspace each hold a     *)
(* line that looks like a header, the prompt of the other does not.        *)
MCHeaderLike == [x \in Texts |-> IF x = "t2" THEN 0 ELSE 1]

(* What a header is made of: rules of every kind, patterns that fit whole, *)
(* cut or not at all.  A second task beside the first with one of them.    *)
MCRule(i, n, points, sc, topics) ==
  [id |-> i, chars |-> n, score |-> points, scope |-> sc, topics |-> topics]
MCMaterial(r, v1, v2, p, s) ==
  [rules |-> r, bodies |-> [v \in 1..(MaxChanges + 1) |-> IF v % 2 = 1 THEN v1 ELSE v2],
   patterns |-> p, session |-> s]
MCPlain == MCMaterial({MCRule(1, 9, 3, "all", {"word"})}, <<9, 9>>, <<20, 5, 5>>, <<>>, 10)
MCMaterials ==
  {MCPlain} \cup
  {MCMaterial(r, <<9, 9>>, <<20, 5, 5>>, f[1], f[2]) :
     r \in {{}, {MCRule(1, 9, 3, "all", {"word", "type"}), MCRule(2, 21, 9, "all", {"type"}),
                 MCRule(3, 5, 1, "hint", {"word"})},
            {MCRule(1, 13, 1, "all", {}), MCRule(2, 5, 1, "word", {}),
             MCRule(3, 5, 1, "all", {"hint"})}},
     f \in {<<<<>>, 10>>} \cup ({<<<<0, 40>>, <<4, 8>>, <<0>>, <<2>>>>} \X {0, 10})}

(* Beside a second task one change of a file or of a window is enough.     *)
MCBuilderBound == material = MCPlain => changes' < MaxChanges

(* What is piped to several prompts, cut everywhere, or typed.             *)
Cut(typed, ends) ==
  LET Mark(n) == CHOOSE e \in ends : Cardinality({d \in ends : d < e}) = n
  IN  [i \in 1..(Cardinality(ends) - 1) |-> SubSeq(typed, Mark(i - 1) + 1, Mark(i))]
Cuts(typed) ==
  {Cut(typed, {0, Len(typed)} \cup ends) : ends \in SUBSET (1..(Len(typed) - 1))}
MCIdle == [tty |-> TRUE, chunks |-> <<>>]
MCTypings ==
  {MCIdle} \cup
  [tty : {FALSE},
   chunks : Cuts(<<"a", "nl", "a", "sp", "nl", "nl", "a">>) \cup
            Cuts(<<"sp", "nl", "h1", "h2", "nl">>)] \cup
  [tty : {TRUE}, chunks : Cuts(<<"a", "del", "del", "a", "nl", "del", "a", "sp", "nl">>)]

(* What a task sets for itself and how long it reasons; once somebody has  *)
(* changed the configuration, one iteration shows what that does.          *)
Own(p, m) == [provider |-> p, model |-> m]
MCOverrides == {Own("none", "none"), Own("p", "none"), Own("p", "n")}
MCEfforts ==
  {[on |-> FALSE, rounds |-> 0, passes |-> 0], [on |-> TRUE, rounds |-> 1, passes |-> 1]}
MCWindowOf == [m \in AgentModels |-> IF m = "m" THEN 10 ELSE 14]
MCCallsBound == (switched => iteration' = 0) /\ (over.provider = "p" => ~effort.on)

(* Two models that share a blob.  Two of a report, a deletion and a pull   *)
(* meet; the client of a pull goes where no directory is read.             *)
MCBlobsOf == [t \in Tags |-> IF t = "a" THEN {"s"} ELSE {"s", "y"}]
MCBlobSize == [b \in {"s", "y"} |-> IF b = "s" THEN 4 ELSE 2]
MCLayouts == {<<"missing", "directory">>, <<"denied", "directory">>}
MCLibBound ==
  /\ Cardinality({i \in 1..3 : <<pulls' > 0, deletion'.step # "idle",
                                 scan'["storage"].step # "none">>[i]}) <= 2
  /\ ~(Scanning("storage")' /\ Scanning("delete")')
  /\ scan'["storage"].step = "manifests" => scan["storage"].step \in {"none", "manifests"}
  /\ DirectoryFound => pull'.connected

(* Values with a quote, with another field's end, with what a brace ends.  *)
MCMeant(p, c, first) == [path |-> p, content |-> c, pathFirst |-> first]
MCTokens == {"c", "q", "comma", "brace", "path:", "content:", "open", "close"}
MCLastCall == MCMeant(<<"c">>, <<"c", "c">>, TRUE)
MCTextCalls ==
  {MCLastCall} \cup
  {MCMeant(p, c, first) :
     p \in {<<>>, <<"c">>, <<"q">>, <<"c", "comma">>},
     c \in UNION {[1..n -> MCTokens] : n \in 0..2}, first \in BOOLEAN}

(* A task that is disturbed twice has one that shows nothing beside it.    *)
MCTaskBound == Trouble' > 1 => sentTokens'[2] = 0

-----------------------------------------------------------------------------
(* Two callers are interchangeable: of a pair of requests one order is     *)
(* enough.                                                                 *)
InOrder(a, b, list) ==
  \E i \in 1..Len(list) : a = list[i] /\ \E j \in i..Len(list) : b = list[j]

Parts ==
  {"config", "preferences", "skills", "secrets", "stream", "subagent", "memory", "task",
   "context", "process", "prompt", "calls", "library", "text", "placement"}

(* What three callers ask for: of the pairs of two, and one beside them.   *)
(* A handler that probes a model is long: beside one the third only reads. *)
OneProbes(asked3) ==
  \E c \in {"c1", "c2"} : asked3[c].kind \in {"setModel", "setRoleModel", "sync"}
MCRequestsOf3 ==
  {a \in [Callers -> MCRequests] :
     /\ a["c3"] = Change(IF OneProbes(a) THEN "get" ELSE "temp", Ollama, "m", 1)
     /\ InOrder(a["c1"], a["c2"], MCRequestList)}
MCAsksOf3 ==
  {a \in [Clients -> MCPrefRequests] :
     a["c3"] = Ask("add", "i1", {"a", "b"}, {"y"}) /\ InOrder(a["c1"], a["c2"], MCPrefList)}
MCCallsOf3 ==
  {a \in [Users -> MCSkillCalls] :
     a["c3"].kind = "select" /\ InOrder(a["c1"], a["c2"], MCSkillList)}

(* The component that acts; the others keep one initial state.             *)
MCInit ==
  /\ part \in Parts
  /\ PromptInit /\ (part # "prompt" => typing = MCIdle)
  /\ TextInit /\ (part # "text" => meant[1] = LastCall)
  /\ material \in IF part = "context" THEN Materials ELSE {MCPlain}
  /\ buildStage = [b \in Builds |-> IF part = "context" /\ (b = "b1" \/ material = MCPlain)
                                   THEN "idle" ELSE "failed"]
  /\ trained = 100 /\ BuilderInit
  /\ launch \in IF part = "process" THEN Launches ELSE {"help"}
  /\ saved \in IF part = "process" THEN SUBSET {"password", "port"} ELSE {{}}
  /\ request \in IF part = "config" THEN MCRequestsOf3 ELSE {[c \in Callers |-> MCRequestList[2]]}
  /\ ConfigInit /\ file.model = [agent |-> "m", subagent |-> "n"]
  /\ part # "config" => file.providers = {}
  /\ asks \in IF part = "preferences" THEN MCAsksOf3 ELSE {[c \in Clients |-> MCPrefList[3]]}
  /\ PrefInit /\ (part # "preferences" => stored = NoRules)
  /\ calls \in IF part = "skills" THEN MCCallsOf3 ELSE {[u \in Users |-> MCSkillList[5]]}
  /\ SkillInit /\ (part # "skills" => files = [n \in SkillNames |-> Absent])
  /\ SecretInit /\ (part # "secrets" => repair.reset)
  /\ StreamInit /\ (part # "stream" => provider = "ollama" /\ terminated)
  /\ SubInit /\ MemInit /\ TaskInit
  /\ ProcInit
  /\ part # "process" => usesOllama /\ cert = "ok" /\ other
  /\ CallsInit /\ assigned = Own("p", "m")
  /\ LibInit /\ unreadable \in {{}, {"b"}}
  /\ part # "library" => unreadable = {} /\ installed = {} /\ ~DirectoryFound
  /\ PlaceInit /\ owner["t1"] = [of |-> "o1", model |-> "m"]
  /\ part # "placement" => owner["t2"] = owner["t1"]
  /\ part # "calls" => over = Own("none", "none") /\ ~effort.on

(* All but the component that acts stay as they are.                      *)
OthersKeep ==
  /\ UNCHANGED part
  /\ part # "config" => UNCHANGED configVars
  /\ part # "preferences" => UNCHANGED prefVars
  /\ part # "skills" => UNCHANGED skillVars
  /\ part # "secrets" => UNCHANGED secretVars
  /\ part # "stream" => UNCHANGED streamVars
  /\ part # "subagent" => UNCHANGED subVars
  /\ part # "memory" => UNCHANGED memVars
  /\ part # "task" => UNCHANGED taskVars
  /\ part # "context" => UNCHANGED builderVars
  /\ part # "process" => UNCHANGED procVars
  /\ part # "prompt" => UNCHANGED promptVars
  /\ part # "calls" => UNCHANGED callVars
  /\ part # "library" => UNCHANGED libVars
  /\ part # "text" => UNCHANGED textVars
  /\ part # "placement" => UNCHANGED placeVars

MCNext ==
  \/ part = "config" /\ ConfigNext /\ OthersKeep
  \/ part = "preferences" /\ PrefNext /\ OthersKeep
  \/ part = "skills" /\ SkillNext /\ OthersKeep
  \/ part = "secrets" /\ SecretNext /\ OthersKeep
  \/ part = "stream" /\ StreamNext /\ OthersKeep
  \/ part = "subagent" /\ SubNext /\ OthersKeep
  \/ part = "memory" /\ MemNext /\ OthersKeep
  \/ part = "task" /\ TaskNext /\ MCTaskBound /\ OthersKeep
  \/ part = "context" /\ BuilderNext /\ MCBuilderBound /\ OthersKeep
  \/ part = "process" /\ ProcNext /\ OthersKeep
  \/ part = "prompt" /\ PromptNext /\ OthersKeep
  \/ part = "calls" /\ CallsNext /\ MCCallsBound /\ OthersKeep
  \/ part = "library" /\ LibNext /\ MCLibBound /\ OthersKeep
  \/ part = "text" /\ TextNext /\ OthersKeep
  \/ part = "placement" /\ PlaceNext /\ OthersKeep

MCSpec ==
  /\ MCInit
  /\ [][MCNext]_<<part, configVars, prefVars, skillVars, secretVars, streamVars, subVars, memVars,
                 taskVars, builderVars, procVars, promptVars, callVars,
                 libVars, textVars, placeVars>>
  /\ ConfigFairness /\ PrefFairness /\ SkillFairness /\ MemFairness /\ TaskFairness
  /\ WF_procVars(part = "process" /\ MainStep)
  /\ WF_subVars(part = "subagent" /\ RunStep)
  /\ WF_callVars(part = "calls" /\ CallStep)
  /\ LibFairness

-----------------------------------------------------------------------------
(* What the server keeps for its user: the configuration, the stores on    *)
(* disk, and the index and the key it keeps in memory for them.            *)
StoresInv ==
  /\ part = "config" => ConfigInv
  /\ part = "preferences" => PreferenceInv
  /\ part = "skills" => SkillInv
  /\ part = "secrets" => SecretInv
  /\ part = "memory" => MemoryInv

(* What the server does with a task and around it: a subagent's run, the   *)
(* files and windows of a header, the calls to models and the reports of   *)
(* them, the models installed, whom the process serves, and what the user  *)
(* gets to see of a task.                                                  *)
WorkInv ==
  /\ part = "subagent" => SubagentInv
  /\ part = "context" => BuilderInv
  /\ part = "process" => ProcessInv
  /\ part = "calls" => CallsInv
  /\ part = "library" => LibraryInv
  /\ part = "placement" => PlacementInv
  /\ part = "task" => ScreenInv

(* What becomes of a model's answer, of what the user types and of what a  *)
(* header is filled with: whole texts and sums.                            *)
AnswersInv ==
  /\ part = "stream" => StreamInv
  /\ part = "prompt" => PromptInv
  /\ part = "text" => TextInv
  /\ part = "context" => HeaderFits
  /\ part = "library" => FreedIsReal

(* What must happen in the end: every request and call is answered, and    *)
(* every run of a subagent ends.                                           *)
ServerProgress ==
  <>[](/\ RequestsOver /\ PreferencesOver /\ SkillCallsOver /\ MemoryOver /\ TasksOver
       /\ LibraryOver
       /\ part = "subagent" => RunOver
       /\ part = "process" => StartOver
       /\ part = "calls" => CallsOver)
=============================================================================
