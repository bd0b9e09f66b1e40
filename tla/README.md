# AtlasAgents, verified

TLA+ models of AtlasAgents: a coding agent whose *server* runs language models,
plans and tool calls, and whose *client*, a terminal program, owns the files,
runs the commands and asks the user. They are kept next to the source. Each
module translates code under `src/packages`; paths below are relative to that
directory. TLC checks the modules on small instances, TLAPS proves the theorems
of the `*Proofs` modules for every instance.

1. [The system](#1-the-system)
2. [What is hard about it](#2-what-is-hard-about-it)
3. [Modules](#3-modules)
4. [Runs, bounds and fairness](#4-runs-bounds-and-fairness)
5. [Proofs](#5-proofs)
6. [Where code and documentation disagree](#6-where-code-and-documentation-disagree)
7. [Mutants](#7-mutants)
8. [What is not modelled](#8-what-is-not-modelled)
9. [Plan](#9-plan)

## 1. The system

A task travels like this: the client opens an RSocket stream `task`
(`client/src/connection/streaming.ts`); the server's handler
(`server/src/server/rsocket/handlers/requestStream.ts`) makes an abort
controller for it and routes it to the orchestrator's pipeline
(`server/src/orchestration/orchestrator/orchestratorPipeline.ts`), which builds a
header from memory (`memory/context`) and runs *one agent turn*
(`agent/agentTurn.ts`). The turn is a loop of model calls and tool calls. Tools
that touch files or run commands go back to the client over the same connection
(`transport/clientBridge.ts`), where the user may have to approve them. Two
tools act on the turn itself: `update_plan` declares a checklist, which in plan
mode the user has to approve first (`workspace/review/planReviewBroker.ts`), and
`run_steps_parallel` runs several of its steps at once, each with a tool-call
loop of its own, scheduled by a ready queue and a pool of workers
(`orchestration/readyQueue.ts`, `orchestratorPipelineHelpers.ts`). When the task
ends the server records it, and learns from it in the background.

| Component | State | Operations | Talks to | What makes it correct |
|---|---|---|---|---|
| batch scheduler: `readyQueue.ts`, `runAgentPool` | pending, ready, running, completed, dependents, results; a shared wake-up signal | `take`, `complete`, wait, notify, fail, abort | the worker steps, the abort signal | dependencies are respected, no step is lost or runs twice, nobody sleeps for ever |
| plan review: `planReviewBroker.ts` | `pending`, `queue`, `active`, one timer per plan | `request`, `flush`, `settle`, `onTimeout`, `dispose` | the client's screen by frames, `plan.respond` | an answer decides its own plan, every request settles |
| tasks of a connection: `runAgentTurn`, `PerConnection` | `activePlan`, `conversation`; per turn `planApproved`, `planThisTurn` | submit, cancel, `/new`, `update_plan`, `run_steps_parallel`, finish | batch scheduler, plan review | a task works on its own checklist, `/new` forgets |
| tool-call loop: `runToolCallLoop`, the tools, `toolProtocol.ts` | messages, trackers, iteration counters | model call, tool call, compaction, REASON phase, finish | providers, the client's files | nothing is changed before approval or finished unverified, the history fits, the turn ends |
| client connection: `connection.ts`, `lifecycle.ts`, `streaming.ts` | socket, handshake in flight, reconnect timer, health timer, session abort controller | `connect`, `reload`, close, probe, `streamRequest` | server, UI | one live socket, to the configured server; a lost one is replaced; frames in order |
| prompts and approvals: `messageQueue.ts`, `useSubmitLine.ts`, `approval.ts` | queue of prompts, submit lock, active approval and queue | submit, dequeue, request, resolve, cancel | task stream, file proxy | one task at a time; no approval is left unanswered |
| client bridge: `clientBridge.ts` | one promise and timer per request | request, answer, time-out | file proxy | settles once; a late execution is not reported as done |
| server sessions: `rsocketServer.ts`, `shutdown.ts`, `server/index.ts` | sessions, abort controllers, `PerConnection` by requester, the child Ollama | start, accept, close, abort all, shut down | all of the server | what belongs to a connection ends with it; nobody unchecked is served |
| server configuration: `configManager.ts`, `mutex.ts` | JSON file, lock, queue of waiters | `get*`, `set`, rotate | caches | no lost update, no half-written file |
| caches: `lazyValue.ts` | value, load in flight, generation | `get`, `invalidate` | their loaders | no value from before an invalidation |
| memory: `memory/*` | session, experience, preference and pattern files | record, consolidate, clear, build | pipeline | records survive concurrent sessions; a header fits its share of the window |
| skills: `skillManager.ts` | directory, index | save, delete, select | prompts | the index is that of the files |
| MCP: `client/src/mcp`, `orchestration/mcp` | tool lists on both sides, one connection per server | sync, call | tool registries | the server offers what the client has |
| client configuration: `client/src/config` | `config.json`, pins, sealed secrets | load, save, repair, reset | cipher, server configuration | nothing is lost but what was given up |
| providers: `ollama`, `providers` | HTTP clients, models on disk | chat, list, pull, delete, storage | models | wire formats, windows, what is safe to delete |
| file proxy and sandbox: `client/src/fileProxy` | working directory, resolved sandbox | read, write, run | file system | paths stay in the workspace, what runs was agreed to |
| identity: `server/src/server/tls`, `client/src/connection/tls`, `shared/src/crypto` | certificate and key, pins, keys and envelopes | start, rotate, pin, reset | both configurations | a pinned server stays the same one |
| user interface, CLI | views, tables | | | the transcript is what happened |

## 2. What is hard about it

Everything is single-threaded JavaScript, so the hazards sit at the `await`s:
between them any other callback may run. Files are shared by tasks, by
connections and by processes, most of them written in place. The hazards are
listed one by one, at their lines, in `PROJECT.json`; in short:

* several workers take steps from one queue, sleep and wake each other up; a
  batch settles with its first failure while its other workers go on;
* a cancelled task is still winding down when the next one starts, and both
  write to the connection's checklist and conversation, one of them from a copy;
* plans wait for the user in a queue while every plan's own timer runs;
* an approval arrives in the middle of a response that already holds further
  tool calls; reads run concurrently and settle in any order;
* the client reconnects, reloads and closes while a handshake is in flight; a
  line is typed while a task ends; frames wait behind a plan being decided;
* a request times out at the server and goes on at the client; a question is
  open while the mode, the sandbox or the workspace it is about changes;
* caches are invalidated while they load, indexes changed before their file is
  written, files read before and replaced after an await, syncs overlap;
* the model, its window and its provider are read at different moments, and the
  configuration changes in between;
* a process dies between the two writes that belong together;
* text is cut anywhere: reasoning tags, streamed tool calls, piped answers,
  calls a model did not escape.

## 3. Modules

| Module | Models | Built on |
|---|---|---|
| `SubtaskSchedule` | what `run_steps_parallel` promises: a step is started after its dependencies, once, and finishes or fails | - |
| `ReadyQueue` | `readyQueue.ts`: the queue as a record, its operations as operators, `workerCountFor` | - |
| `AgentPool` | `runAgentPool`: workers, `WorkSignal`, failure, abort, the deadlock check | `ReadyQueue`; implements `SubtaskSchedule` |
| `PlanReviewBroker` | the broker with its timers, its transport, the client's screen | - |
| `TaskTurns` | the tasks of one connection and what they share | - (a batch is `AgentPool` without dependencies) |
| `ToolLoop` | `runToolCallLoop` of a turn or a worker with the tools that matter to its gates | - |
| `ModelCalls` | the calls of a task to its model: which provider and model, the window, compaction, the REASON phase | - |
| `ToolBlocks` | calls written as text, and how malformed ones are read (`toolProtocol.ts`) | - |
| `SubagentRun` | `Subagent.run`: nudges, advice, breaker | - |
| `ModelStream` | a streamed answer of both wire formats, cut anywhere | - |
| `ModelLibrary` | pulling, deleting and measuring Ollama's models | - |
| `PlacementReport` | the warning that a model runs on the CPU | - |
| `ContextBuilder` | the memory header and the windows it is budgeted against | - |
| `TaskMemory` | record, experience, session file, extraction | - |
| `PreferenceStore` | the rules, their indexes, `LazyValue`, consolidation | `Mutex` |
| `SkillStore` | the skill files and their index (`LazyValue` with generations) | - |
| `Mutex`, `ConfigStore` | `mutex.ts`; `configManager.ts` and the handlers that change several things | `ConfigStore` on `Mutex` |
| `StartupSecrets` | the server's passphrase, envelope, reset and repair, with crashes | - |
| `ServerProcess` | the server from `main` to its end, and its Ollama | - |
| `PromptInput` | the prompts before the interface, typed or piped (both sides) | - |
| `TaskStream` | a task's stream from the server's handler to the screen | - |
| `ClientConnection` | connect, reload, reconnect, health check | - |
| `ClientOperations` | client bridge, file proxy, approvals | - |
| `CommandRun` | a command from the request to its end: question, sandbox, directory | - |
| `TerminalSession` | the typed line, the lock, the queue, Escape | - |
| `ThinkStream` | reasoning from the model's text to the scrollback | - |
| `McpSync`, `McpConnection` | syncs of MCP tools; the connection to one MCP server | - |
| `ClientSettings` | `config.json`, its cipher, repair and reset, several processes | - |
| `ServerIdentity` | certificate, rotation, pins | - |
| `AgentPoolProofs`, `PlanReviewBrokerProofs`, `TaskTurnsProofs`, `ToolLoopProofs` | theorems about one component each | their components |
| `ClientProofs` | theorems about the client's components and about all of them together | `MCClient` |
| `ServerPartsProofs` | theorems about the configuration, subagents, calls, headers, placements, the library, the process and the streams of tasks | their components |
| `AnswerProofs` | theorems about streamed answers, calls written as text, prompts, freed bytes and filled headers | `ServerPartsProofs`, `ModelStream`, `PromptInput`, `ToolBlocks` |
| `ServerProofs` | theorems about the server's stores, and about all of these side by side | `MCServer`, `AnswerProofs` |
| `MC*` | instances for TLC; `MCServer` and `MCClient` put the components of a side next to each other | |

### ReadyQueue and AgentPool

The queue of the code is a mutable object; here it is a record `q` with the
fields the code has: `pending`, `ready`, `running`, `completed`, and the
dependents index. `take` and `complete` become operators that map a queue to a
queue. `complete` unlocks *incrementally*, looking only at the direct dependents
of the completed step, and `ReadyIsExact` compares that with the definition.
Critical paths order the ready steps; they are a recursive function, not a
RECURSIVE operator, so that the modules can be proved about.

A worker of `AgentPool` is `starting`, `waiting` (its promise is among
`WorkSignal`'s waiters), `awake` (resolved, not yet resumed), `running` (awaiting
`runSubtask`), or it has `returned` or `rejected`. One action is what the code does
between two awaits: `Turn` is the head of the loop up to `take` or the wait,
`SubtaskSucceeds` the continuation of `runSubtask` including `complete`, recording
the result, the broadcast and the *next* turn of the loop, since there is no await
in between. `Settle` is the continuation of `Promise.all` with the check for a
deadlock. After a failure the batch is rejected, but the workers remain and act: the
model keeps them.

`SubtaskSchedule` does not know of workers, waking or a ready map.
`ImplementsSchedule` says every step of the pool is a step of the schedule or
none.

### PlanReviewBroker

A review is a model value. `pending`, `queue`, `active` are the broker's own fields;
`age` counts the ticks since a plan's timer was started, `shown` those since the
plan was sent, and `arrival` is the order of the timers. A frame that is sent
reaches the client's prompt, or is lost with its stream (`Send`). `Show`, `Answer`
and `OnResponse` are the client's prompt, the user and the handler of
`plan.respond`: between any two of them the plan may expire and another one become
active. `Dispose` is the end of the connection. Node fires timers of equal duration
in the order in which they were started; `IsOldestTimer` is that assumption, and
`PendingIsActiveThenQueued` shows what depends on it.

### TaskTurns

`activePlan` and `conversation` are the two fields of `PerConnection` the turns
share. A checklist is a function from step ids to a status; `in_progress` is
counted as pending. The turn of a task is in one of the phases `starting`,
`deciding` (between two tool calls), `review` (awaiting a decision on its
plan), `batch` (awaiting `runAgentPool`), `ended`. The client submits a task
when it is not busy, and is free again at once when the user cancels. The
batches of a turn are records with the copy of the checklist the code took,
the steps to do and running, the results, and how the pool's promise settled. A
batch that has failed stays in the list: its workers go on.

### ToolLoop, ModelCalls, ToolBlocks

`ToolLoop` is one turn, or one worker step, from its first model call to its
end. A model's response is a sequence of calls, any one the constant `Responses`
offers; at most `MaxCalls` of them are run. `BeginRun` begins the maximal run of
read-only calls or one other call, `CallSettles` applies its effect and, when
the last of a run settles, records all results in order. `unlocked` is the value
of `planApproved` when the registry was last computed: the tools of a response
are those of the model call that asked for them. `confirmed` is a history
variable, it is not in the code: the files that were verified after a write.

`ModelCalls` is the same loop seen from the model: where `ToolLoop` has
responses, it has what precedes them. `ReadModel`, `ReadProvider` and
`StartTurn` read the configuration one piece at a time, `NameProvider` and
`FindProvider` are the two reads of one lookup in the registry, repeated for
every call, and `Switch` and `RemoveUnused` are what other clients of the server
do meanwhile. A message of the history is its kind; its size is a function of
the kind. `Compacted` is `applyCompaction`, `Fallback` what happens when the
summary cannot be had, `RoundsOver`, `Verify` and `Reasoned` the phase that
reasons.

`ToolBlocks` translates the three parsers of `toolProtocol.ts` for texts of
tokens: JSON, the recovery by the positions of the fields, and the guess of a
file from a thought. `Block` writes the call a model meant the way a model
writes that escapes nothing, and the properties compare what is read with it.

### SubagentRun, ModelStream

`SubagentRun` keeps the counters `Subagent.run` keeps and takes any reply;
`sinceTool` and `advised` are history. `ModelStream` sends the bytes of an
answer, three symbols to a line, and cuts them where it likes; `Fed` is the loop over
the lines of a read (`TakeSymbol` is what one symbol does to the parser), `WithCall`
the assembly by index.

### ModelLibrary, PlacementReport

A model is a manifest and blobs, which models may share. Ollama's own steps
(`PullLine`, `FetchBlob`, `Install`, `DeleteModel`) change the directory while a
scan reads it: manifests one by one, then the list of blobs, then their sizes.
`stayed` and `quiet` remember what the directory was while a scan read it.
`PlacementReport` is what follows a turn: `AskPlacement`, Ollama's list,
`Report` with the warnings a connection already had, and `CloseOwner`.

### ContextBuilder, TaskMemory, PreferenceStore, SkillStore

The numbers of `ContextBuilder` are the code's, scaled: characters, tokens of
four characters, a fifth of the window. The reading of the files is interleaved
with edits; the selection itself (`Header`) is a pure function of what was read:
rules by density, patterns whole or cut at a line, the prior session.

`TaskMemory` follows a record from `start` through the tools that log to
`finish`, whose five writes can each fail, and the session file that every
writer reads, changes and replaces. Of this file the model has the lines that
`TASK_HEADER_RE` matches, which are what `countTasks` counts: the headers that
`formatBlock` wrote, and whatever a prompt, a file name, a command or the listing
of the workspace holds of lines that begin with "Task" and a number
(`HeaderLike`), since `formatBlock` writes the texts as they are. `mixed` becomes
true when two writers overlapped.

`PreferenceStore` has the rules in memory with both indexes, the file, the
mutex, and the shared load. `SkillStore` has the directory, the index with its
generation, loads in flight, and `saveAll`, which takes no lock.

### ConfigStore and Mutex

`Mutex` is four lines of state: `locked` and a queue; `AfterRelease` hands the
lock over without opening it. A request of `ConfigStore` is one handler: it
acquires, reads the file (`snapshot`), writes what it makes of it or fails, and
releases; `get` reads without the lock. `todo` is the list of what a handler has
still to do (`StepsAfter`). A new model for the agent is probed for tools and for
thinking, one for the subagent for tools; what a probe finds is recorded in a
locked change of its own. `config.setModel` probes with Ollama, `setRoleModel` and
`sync.check` look for the provider first (`GetAdmin`), which may be gone by then;
`sync.check` does all this for each role whose model differs from the one it read
before it took the lock, up to three further changes. A probe that fails, or
whose record fails, keeps the flag of the model before (`KeepFlag`). `serial` is
what the saved changes make when they are applied one after another.

### StartupSecrets, ClientSettings, ServerIdentity

A key is a number; what is sealed with it opens with it only. `StartupSecrets`
has two files and two kinds of process, the server and the repair, that may die
between any two steps. `ClientSettings` has one file that is emptied before it
is written, and the processes of one user; `undisturbed` is true until one of
them reads a torn file or writes over what another one wrote. `ServerIdentity`
has the two files of a certificate, the server's start, the rotation, and a
client with pins and sockets, among them sockets nobody waits for any more.

### ServerProcess and PromptInput

`ServerProcess` is `main`, one action per step, with every way it fails: `GoesTo`,
`EndsWith` and `Exit` are the only places that change `startStage`. The child is
`none`, `starting`, `up`, `dead` or `told` to stop, and the one port of Ollama is
the child's or another one's. Serving, `Connect`, `Work` and `Close` are the
connections. `PromptInput` has one text and its chunks; `pendingInput` is the buffer
of the module, `FirstLine` and `AfterLine` what `takeBufferedLine` returns and
keeps.

### TaskStream

Two streams of two connections, the frames on their way, the client's chain of
handlers, the screen. The client's steps that wait for nothing come before any
other callback (`frameChain` is drained by microtasks); only a plan waits for
the user. `late` holds the streams whose frames are handled after their task
ended on the screen.

### ClientConnection, ClientOperations, CommandRun

A socket is a number, the index of the settings it was opened with. The
continuations of a settled `connect()` run before any other event, so a
handshake and what awaits it are one step.

In `ClientOperations` the content of a file is the set of the operations whose
change it contains; `base` is what the server computed an edit from. `active`,
`queue` and `prompted` are the approval bridge. `era` counts sessions.

`CommandRun` takes one kind of request, the command, further: `Handle` is
`handleCommandRun` up to its first question, `Resolved` what
`resolveConfiguredSandbox` answers from its two caches, `EndsIn` the directory
the shell ended in and what becomes of it, `SandboxDenies` and `UserRetries` the
second run. Meanwhile the user changes the mode, the sandbox, the workspace, or
installs a backend.

### TerminalSession, ThinkStream, McpSync, McpConnection

`TerminalSession` keeps for every job the closure it runs in, which is where the
typed history goes wrong. `ThinkStream` takes every text of `<`, `/`, `>` and a
letter, with tags of two and three characters, in every chunking: the emitter on
the server, the frames, the live entry and its early commits on the client. A
turn of the agent ends its stream without a text. A subagent's ends it with the
first block that `extractThinking` found, and the client shows that in place of
what was streamed unless a part of it is in the scrollback already: of a response
with two blocks the second one is then not kept. `ReasoningShownOnce` says so.
`McpSync` follows a sync from the snapshot it took through every await to what
it published; `McpConnection` the operations on one server's connection.

## 4. Runs, bounds and fairness

| Run | Instance | What it shows |
|---|---|---|
| `pool_all3` | 3 steps, *every* dependency relation including cycles, one to three workers (limits 0 and 2, with and without a local provider's ceiling) | all safety properties, settling and refinement |
| `review_all3` | 3 reviews, time-out 2 ticks, lost frames, disposal | the broker's structures, the answers, and that every request settles |
| `turns_safety` | 2 tasks, 2 steps, one batch and one `update_plan` each, one `/new` | who owns the checklist and the conversation |
| `turns_orphans` | 1 task, 3 steps, 2 workers, 2 batches, cancelled at any moment | steps left behind by failed batches; a cancelled task starts no step and ends |
| `loop_turn` | 3 iterations, every response of up to 3 calls over all ten tools, 2 of them run | plan mode, completion gate, order of the history, no overlap with changes, the turn ends |
| `server` | the server's components, see below | `StoresInv`, `WorkInv`, `AnswersInv`, `ServerProgress` |
| `client` | the client's components, see below | `ConnectionsInv`, `MachineInv`, `SessionInv`, `ReasoningInv`, `ClientSteps`, `ClientProgress` |
| `pool_blocks`, `review_fulltime`, `turns_own`, `turns_convclear`, `loop_confirmed` | as small as the counterexample allows | section 6 |

**The runs `server` and `client`.** The components of a side share no variable,
so their product would show nothing the components do not: every behaviour of
these runs is one of a single component, which the initial state names (`part`).
The variables of the others stay as they are. An invariant of a run is the
conjunction of the components' own, each named and commented in its module; the
liveness property is one formula `<>[](... over)`, which says of every component
that in the end all its requests, calls, syncs and tasks are over.

| Part of `server` | Instance |
|---|---|
| config | 3 callers, any two of the nine kinds of request and a third that changes the temperature (beside a handler that probes: that reads), one provider, two models, one of which has tools and thinks, failed saves, probes and records |
| preferences | 3 clients, any two of ten requests beside an addition, similarity by tokens, loads and saves that fail, two answers of the consolidating model |
| skills | 3 callers, any two of five calls beside a selection, every write may fail |
| secrets | server and repair, wrong passphrases, a reset, crashes between any two steps |
| stream | both adapters, three calls' fragments, cut at any place, aborted at any place |
| subagent | every reply, 5 turns, breaker after 3 |
| memory | 2 tasks, the prompt of one and the listing of the workspace with a line "Task ...", every write of `finish` may fail, one reset of the session file |
| task | 2 tasks, one token, one plan, one lost connection, cancellation, at most two disturbances, and with two of them one task that sends tokens |
| context | one build with rules, patterns and a session that fit, are cut or do not fit, and two changes; two builds and one change |
| process | every launch, every failure of every step, Ollama found, started, dying, 2 peers, signals |
| prompt | every way to cut two piped inputs and a typed one, 5 prompts |
| calls | 3 iterations, both efforts, three kinds of a task's own choice, two changes of the configuration by others |
| library | 2 models that share a blob, one pull, a deletion, a report; two of the three at a time |
| text | every value of up to two tokens beside another call; every line of up to three words |
| placement | 2 tasks of one or two connections, two moves of a model, cancellation, closing |

| Part of `client` | Instance |
|---|---|
| connection | 2 servers, 3 sockets, one command |
| operations | 2 operations on one file in six combinations, one time-out, two sessions |
| session | 4 lines, three of them tasks, queue of 2 |
| reasoning | every text of four characters, every one of six that begins with a tag, and one with two blocks; the agent's and a subagent's; chunks of two, one early commit |
| mcp | 2 servers, one disabled or gone since, 2 syncs, one command, two reconnects |
| mcpcalls | 3 operations on one server: calls, lists, a removal |
| settings | 2 processes, one secret, one pin, 3 salts, 2 operations; followed until two processes meet |
| identity | 2 servers, one of which is made anew and started again, 3 pairs, 2 dials; followed until a write is cut off |
| commands | 2 requests, every kind beside one that asks, 2 workspaces, 2 changes by the user |

**Why the bounds are enough.** Three steps are enough for a join (two steps
that unlock one), a fork, a chain and a cycle behind a step that is not in it,
and the worker that completes the last dependency of a join may differ from the
one that completed the first; for more steps and workers the safety properties
are proved. Three
reviews give one active and two queued plans, so that expiry can hit the first,
the last or the middle one. Two tasks are enough since the client submits one
at a time: an interference needs one that winds down and one that runs; a third
adds only another of the first kind. Two batches let a step of the first still
run in the second. In the loop, two calls per response and three responses
cover write, unrelated response, end; the two constants 200 and 100 of the code
are `MaxIterations` and `MaxUnproductive`, which the code compares in one place
each. Where callers share a store, three are one that holds the lock, one that
it is handed to and one that waits behind, and two that differ show every race
of two kinds of request; of a pair one order is enough, since callers are
interchangeable. For the configuration the number of callers is arbitrary in the
proof. Two operations, syncs or commands show every overlap of two; the third
member of a queue is there where a queue is (`mcpcalls`). Two sockets beside the
one in use are an old one that still closes and a new one. Texts are long enough
for a tag to be opened, cut twice and closed. Bounds that the code does not have
(`MaxTasks`, `MaxUpdates`, `MaxBatches`, `MaxClears`, `MaxSockets`,
`MaxTimeouts`, `MaxUserSteps` and the like) are guards of the actions they
limit, and named in the modules.

**Fairness.** Weak fairness, of the continuations of settled promises (the
event loop runs them), of timers (`Tick` and expiry), of the end of a running
step, request or write (model calls and requests have time-outs of their own,
the file system answers), and, in `ToolLoop`, of the loop's step as a whole.
Strong fairness in one place, of the handshake that succeeds: the client tries
again for ever, and the claim is about a server that can be reached. No fairness
for the model's choices, for crashes, failures or other processes, and for the
user in one place only: in `ClientOperations` who is asked answers, since what
is claimed there is that no handler is left behind another's question. Nobody
has to cancel, submit or break anything, and the plan a user never decides on
counts as over in `TasksOver`.

**Deadlock.** `CHECK_DEADLOCK FALSE` is set where the system stops: a batch is
settled, all tasks have ended, a turn is over, every request of a part is
answered. That nothing stops too early is the business of `BatchSettles`,
`EveryReviewSettles`, `CancelledTaskEnds`, `TurnEnds`, `ServerProgress` and
`ClientProgress`.

## 5. Proofs

The modules named `*Proofs` prove the theorems `PROJECT.json` lists, for every value
of the constants that the named assumptions of the modules allow (`PoolAssumption`,
`BrokerAssumption`, `LoopAssumption`, ...): every finite set of steps and every
plan, every set of callers and requests, every limit. TLC evaluates the assumptions
in every run. They ask for what the code has: limits are natural numbers, sentinel
values are not members of the sets they are added to. Some say a little more:
`CallsAssumption` has the rounds and passes of an effort be numbers;
`LibraryAssumption` that the blobs are finitely many and their sizes numbers;
`BuilderAssumption` that rules, patterns and sessions have the lengths and lines
that texts have; `PromptAssumption`, `TextAssumption` and `ThinkAssumption` that
texts are finite sequences of symbols, that no tag is empty, and that the last call
of a text is an ordinary one, with a path and without marks in its values;
`IdentityAssumption` gives addresses and certificates numbers below the one that
stands for a torn file, `McpAssumption` keeps `Unset` out of the entries a cache may
have, and `PreferenceAssumption` gives requests, files and answers of the model the
shape that the code validates, over finitely many tokens.

Every proof has the same form. A property of a run is seldom inductive, so an
invariant that implies it is defined at the head of its part of the module; one
lemma shows it at the start, one lemma for each action or group of actions shows
it kept, and the theorem joins them. TLC was used to find the invariants, on the
small instances of the runs.

*Pool* (`AgentPoolProofs`). None of the properties is inductive by itself.
`ReadyIsExact` needs that the five parts of the queue are a partition of the
steps and that a completed step's dependents were looked at, which is where the
dependents index comes in: it is the inverse of `dependsOn`. `NoLostWakeup` needs
to know which workers are alive: as long as the batch has not failed, a worker is
waiting only if some other one runs a step, and that one will notify. The
invariant `IInv` is the conjunction of these; the step from a state to the next
is proved one action at a time with the lemmas on `Take` and `Complete`, which
are stated for queues and not for states so that the provers meet no primed
variables in them. `DeadlockOnlyIfCyclic` follows from exactness: when nothing
runs and nothing is ready, every pending step waits for a pending step.
`TasksOwned` says that a step runs at one worker, and at the one that took it.

*Refinement* (`PoolImplementsSchedule`). The pool implements `SubtaskSchedule`:
the initial states map to initial states, and each step of a worker maps to a
step of the schedule or a stutter. What the schedule allows and the pool must
show is that no more steps run than the limit: `Room` says that a step the queue
calls running has a worker, or has cost one, so that their number is at most
that of the occupied workers. It is the only part that counts, with the facts
on finite sets of the library.

*Broker* (`PlanReviewBrokerProofs`). The invariant relates `pending`, `queue` and
`active`: `pending` is `active` followed by `queue`, without repetition. From it
follows that the oldest timer is the active plan's, hence an expiry of a queued
plan cannot happen before the active one's, and that what is on the screen, or
on its way, is the active plan. `AnswerSettlesItsPlan` and `SettledOnce` are
action properties that follow from it.

*Configuration* (`ServerPartsProofs`). `ConfigInv` becomes inductive with what is
true of a caller that is about to save: its snapshot is the file that is there
now (`SnapshotIsFresh`, which needs mutual exclusion), and its request was not
refused for that file (`SaverIsAllowed`), which keeps a used provider configured.
That `release()` does not open the lock is why mutual exclusion needs the queue:
whoever is handed the lock was in it, once, and is nobody else; two lemmas say so
of entering and of leaving, and the actions cite them. `ConfigMutualExclusion`
and `ConfigNoUpdateLost` are its consequences for a reader.

*Tasks* (`TaskTurnsProofs`). `BatchesInv` says where the steps of each batch
stand, that every batch but the last has settled, and how many steps the failed
ones have left behind, counted as pairs of a batch and a step. From it come
`OrphanBound` and `RunsTwiceOnlyAfterFailure`. `OwnInv` says that while nothing
was cancelled only the current task has a turn, and that it was submitted after
the session was last cleared; that is what makes the checklist and the
conversation its own. `ResolvedBatchIsShown` and `NoStepStartsOnceCancelled` are
action properties.

*Loop* (`ToolLoopProofs`). `CallsInv` says which calls of a response are answered,
which run, and that several run only if all of them read: the order of the
history and `MutationsWait` follow. `PlanInv` says that a change, or a command
that passed, needs `unlocked`, and `unlocked` the user's approval. `EvidenceInv`
says that a loop which has not executed a call has neither read nor written, so
that an empty response cannot pass the gate by accident.

*Operations and commands* (`ClientProofs`). `NoApprovalLost` is kept by every
step of the approval bridge; it is restated as sets (`ApprovalParts`), so that
the lemmas on moving one request from one set to another do the work.
`StageInv` says what a worker can have been told by the time its request is
where it is; `WorkersAreTold` follows. `EditsSurvive` needs `BasesInv`: what an
edit has read contains every edit applied before, unless another change went
over it. For the commands, `JobsInv` keeps with each request the runs it has had
and what they record, `SandboxInv` says of both caches that what they hold was
found on the machine since `/sandbox`, `PlaceInv` that the directory is of the
workspace.

*Session* (`ClientProofs`). `LinesInv` orders the lines: what was run or dropped
was typed before what waits, and the lines that wait are in order. Taking the
head of the queue then keeps `RunInOrder`, which is stated by positions.

*Connection* (`ClientProofs`). `LinkInv` adds to `ConnectionInv` what was
closed is closed, and that a lost connection comes back by a timer or by whoever
awaits the handshake: `RecoveryUnderway` alone does not say who acts when the
handshake fails.

*Calls to MCP servers* (`ClientProofs`). `QueueInv` says that the queue holds
the calls that have not ended, each once, and that only its head is under way.
`UnracedInv` says of an operation between two awaits in `getMcpClient` what it
knows of the stored client: what it probes is what is stored, if anything still
is.

*Syncs* (`ClientProofs`). `AloneSync` is what a sync can rely on while no other
runs: its snapshot is what is configured, and neither the cache nor its own copy
has a server enabled that is not, apart from those it still plans to mark.
`OfferedIsConfigured` and `StoreIsOfItsMarker` follow from it; `OfferedIsCallable`
needs it only after a hit. The proof of that showed that it was too strong before:
after overlapping syncs the server's cache can hold tools of a server that its
marker does not name, and a hit then offers what the gate does not know.

*Settings and identities* (`ClientProofs`). `SavingInv` says that a process
saves what it has read with its change made to it, under the key the file has;
`AloneInv` that, undisturbed, the one that writes is alone and has emptied the
file. `FilesInv` and `FirstPairInv` follow a server's start through its reads and
writes: the two files fit unless somebody writes them, and the pair it serves is
the first one it was seen with. `PinsInv` relates a socket that was verified to
the pin of the address that is configured now.

*Secrets* (`ServerProofs`). `KeysAgree` says that the key a process goes by opens
both files as they are, and that a repair and a server beside it go by one key;
that nobody is locked out follows, since a key is only ever replaced in both.
`ResetCopies` says which copies a reset has made by the time it removes what it
copied: nothing is discarded.

*Skills* (`ServerProofs`). A build of the index is of the generation in which it
began. The invariant says of the build of the present generation what it has read
and has still to read, and that every file it has read is unchanged; builds of
earlier generations may hold anything, and cannot fill the cache. `SaveIsExact`
needs what a save that met no other change has written so far.

*Memory of tasks* (`ServerProofs`). `WellNumbered` says of the session file, and of
what every `append()` has read of it, that the number of a block is its place among
the lines that look like a header, and `OnlyOfRecorded` that no block is of a task
that has not appended: so a block that is added is a new one, whatever copy it is
added to. `ToldIn`, unless two writers overlapped, relates the blocks to the tasks
that were told so, in their order. The theorem is for any number of such lines in
any text, and says what is left of "sequential" numbers: they rise, none is given
twice, and they skip exactly what the texts above hold of such lines.

*Preferences* (`ServerProofs`). `IndexesMatch` is inductive by itself: one lemma for
each kind of change says what it does to both indexes. That `findSimilarLocked`
misses no similar rule (`IndexFindsSimilar`) is a fact about the index and about
arithmetic, for every threshold and every set of tokens: a text whose Jaccard
similarity reaches the threshold shares a token, and its size lies between the
quotient rounded up and the one rounded down (`SimilarPasses`). `MemoryIsStored`
and `FailedStaysOut` need the mutex, stated once for a lock and the sets of those
inside and waiting (`Exclusive`), that there is one load at most, of what the file
holds and before the rules are known (`LoadsAreCurrent`), and that the snapshot of
whoever persists is what the file holds (`SnapshotIsStored`).

*The client as a whole.* `MachineIsSafe`, `ConnectionsAreSafe`, `ReasoningIsSafe`
and `StepsAreAllowed` are about `MCSpec`, the specification the run `client` checks.
Since a step of one component leaves the variables of the others alone
(`OneComponentSteps`), the invariants hold side by side.

*Subagents* (`ServerPartsProofs`). `SubIInv` adds to `SubagentInv` that advice is
counted by the escalations and that the counter the breaker looks at is the
number of turns without a tool. Both are what the code does in two places, and
what could come apart.

*Placements* (`ServerPartsProofs`). What a connection was told stands among its
warnings until it closes (`ToldIsWarned`), and every warning was spent by a
report that was told or muted (`WarnedIsSpent`); a task of a closed connection is
quiet. `SpillIsTold` rests on the second, `ToldOnce` on the first.

*Process* (`ServerPartsProofs`). `StageFacts` says of each place of `main` what it
has checked to get there, `ChildFacts` which child there may be, `PeerFacts` that
nothing is served before the server listens. `OrderlyEnd` is kept because the
step that ends the process runs the whole of `shutdown.ts`.

*Library* (`ServerPartsProofs`). `BeingRead` holds of every scan, whatever pulls
and deletions do between its steps: a model that stayed is still to be read or
was read. `ReadInPeace` holds of a scan nothing disturbed. For the pull, `PullIInv`
says that a body which ended without its manifest still has an error line to be
read. What a deletion frees is proved in `AnswerProofs`.

*Calls* (`ServerPartsProofs`). `LookupFacts` says what a task has read so far of a
configuration that may change between any two reads. `ReasonFacts` bounds the
calls made in each round of each pass; that the bounds of the passes add up to
`ReasonBounded` is a lemma of arithmetic (`MostCallsGrow`). `HistoryFacts` rests on
two lemmas on sequences: a compaction leaves `KeepRecent + 1` messages, and what a
turn adds has no summary.

*Header* (`ServerPartsProofs`). `WindowFacts` says that an undisturbed task sees one
world at its two lookups of the window: only the first of them can ask the model.
The proof failed at first, for a good reason: `WindowsAgree` was false with three
tasks. Two of them ask the model, it is pulled again between their answers, and
the later answer replaces a length that the third task has already used for its
first lookup (`contextWindow.ts` caches whatever comes last). With two tasks TLC
could not see it; with three it finds it. `LookupReturns` now says whom such an
answer disturbs, and the theorem holds for any number of tasks. `FileFacts` says
that an entry of a cache under the present time of a file has its present text,
which is where it matters that a file never gets an old time back.

*Streams of tasks* (`ServerPartsProofs`). What the server sent of a task is on the
screen, in the buffer, in the chain of frames to be handled, or on the wire, in
this order, and each of its tokens once: `OrderInv` says so by the numbers of the
tokens (`Counts`), and the lemmas on it say what happens when a text is cut,
appended to or put behind another. `ErrorsInv` says the same of the one error.
Both hold of a task until its handlers outlive it (`late`). `StagesInv` relates
what the server, the wire and the screen know of a stream, `WireInv` says which
frames may be on it and that the last one is last, `ReviewsInv` that a broker has
the reviews of the tasks of its own connection, each once; this is what
`PlanOfItsTask` and `ClosedIsReleased` need. That the parts of a text are counted
without a gap needs a least number of a set (`LeastNumber`), which comes from
the library's theorem on minimal elements, since that one has no operator as a
parameter.

*Answers of models* (`AnswerProofs`). `StreamIInv` says that the line that is
carried is what the reads so far had of the next line, so that a newline always
completes the line whose turn it is. A read is a recursive function over its
symbols (`Fed`); that there is one, and what holds after each symbol of it, are
inductions over sets of natural numbers (`NatInd`, from `LeastNumber`: the library's
theorem takes an operator, which the provers cannot be given). `Lists` then says
that one more line adds what it should. The proof found that `Length` was -1 for an
empty body without a newline.

*Deletion* (`AnswerProofs`). `FreedIsReal` needs that sums of sizes over sets of
blobs can be split. A sum is stated as the number of its units, pairs of a blob and
a number up to its size (`WeightOf`), so that what a set weighs is a fact about the
cardinality of a union (`WeightSplits`). `FreeIInv` then says at each step of a
deletion what the disk holds, what the two scans have measured of it, and what has
gone, as long as no pull was at work.

*Prompts* (`AnswerProofs`). `PromptIInv` says that what is buffered is the input from
the end of the last line that was answered to the end of what has arrived (`Held`),
and that as many lines lie before it as answers were given (`Counted`). Rubouts are
a recursive function over the keys; that rubbing out in two parts is the same as in
one (`RubbedTwice`) is an induction over their number.

*Calls as text* (`AnswerProofs`). `JsonReads` follows the fields of a body from left
to right and shows that a call whose values hold no mark of a field is read with the
values it was given, however many quotes and commas are in them; `BlockIsRead` that
this is what a block gives. `TextIInv` says that the place that is read next is the
beginning of the first block, or in it, and that from there the second block is
always found. The proof found that the case distinction of `JsonStep` had overlapping
cases for a value that ends with a quote.

*Filling a header* (`AnswerProofs`). After each rule of a round, `IsAfter` says that
every rule looked at is taken or has no room, and that what was taken is covered by
the tokens it was reckoned for (`TokensCover`); a second round over rules without
room changes nothing (`RoundIsIdle`), which is why fixes add none. After each pattern,
`IsSpent` says that the budget is kept but for one marker. The proof found that a
pattern of blank lines was counted as one that has lines.

*Reasoning* (`ClientProofs`). Three facts about the scanner make the property
inductive. The scan of a longer text goes on from where the scan of the shorter one
stopped (`ScanGoesOn`). What is held back is all that a tag could begin with, so
nothing is given out that would turn out to be a part of one, and the scan of the
rest finds what the scan of the whole would (`HoldingBackIsEnough`, `PushGoesOn`).
And the frames on their way carry exactly what the client has not got of what was
given out: `OnItsWay` has for every frame the text that is left before it, which is
its piece followed by what is left behind it. A subagent's stream that ends with a
first block leaves that state for good (`BlockShown`), and the block is a beginning
of the text between the tags (`FirstBlockIs`). The rounds of a scan are a recursive
function; what holds of every text follows by the length of what is left to scan
(`ByRounds`), with the library's theorem on minimal elements.

*The server as a whole.* `StoresAreSafe`, `WorkIsSafe` and `AnswersAreSafe` are
about the `MCSpec` of the run `server`: a step of the server is one of a component
or leaves its variables as they are (`ServerStep`, `WorkStep`), so the invariants
hold together, and `StoresInv`, `WorkInv` and `AnswersInv` with them. The theorems
about one component (`SecretsAreSafe`, `CallsAreBounded`, ...) say the same from any
of its initial states and not only from those the run begins with.

Only model-checked: the liveness properties `BatchSettles`, `ReadyIsEventuallyTaken`,
`EveryReviewSettles`,
`CancelledTaskEnds`, `TurnEnds`, `ServerProgress` and `ClientProgress`, which rest
on fairness, and what the critical paths of a plan compute for all inputs, which is
an induction over a recursive definition on graphs. Every invariant and every action
property of the passing runs is proved.
`SessionInv` is proved of `UiSpec`: the run follows the same actions.

## 6. Where code and documentation disagree

Each of these has a run that finds it:

| Run | The text | What happens |
|---|---|---|
| `pool_blocks` | "Blocks until all finish" (`runStepsParallelHandler.ts:55`) | the call returns with the first failure; the other steps go on, and take further steps |
| `review_fulltime` | "plan2 is sent, user has 5 minutes for plan2" (`planReviewBroker.ts:198`) | its timer has been running since it was queued |
| `turns_own` | "live checklist ... as last reported via `update_plan`" (`container/types.ts:160`) | a cancelled task's batch writes its copy over the next task's checklist |
| `turns_convclear` | "should not resume a checklist, or refer back to prior turns" (`routerBuilder.ts:498`) | a cancelled task records its exchange after `/new` (and by the writes of `turns_own` can bring its checklist back) |
| `loop_confirmed` | "at least one of them must be verified" (`finishHandler.ts:10`) | a verify command that passed before the write counts |

The passing runs next to them say how far the code keeps the promise:
`OwnUnlessCancelled` holds on connections where nothing is cancelled,
`OrphanBound` says how many steps batches that fail leave running, and
`CompletionIsGated` what the end of a turn does rest on.

Six formulas in the modules are false of the code. No run checks them; TLC
shows a counterexample when one is added to the run of its module:

* `ClientConnection.SocketIsConfigured` (`connection.ts:449-451`): a `reload()`
  during a handshake gets the handshake's socket, which was opened with the
  settings before (`connection.ts:324`).
* `TerminalSession.HistoryKeepsLines` (`useSubmitLine.ts:21`, `README.md:290`):
  lines are saved from the closure a line was submitted in, so that of two
  submitted before React renders again one is not recalled later
  (`useSubmitLine.ts:112`, `195`).
* `TerminalSession.DisconnectClearsQueue` (`messageQueue.ts:8`: "cancel /
  disconnect must call clearSessionQueue"; `messageQueue.ts:81`: "Drops every
  pending line (Esc-cancel / disconnect)"): only Escape calls it
  (`App.tsx:315`). The cleanup of a lost connection
  (`useConnectionDisconnectCleanup.ts`) does not, so that the lines typed for
  the interrupted task wait on, and are run when its stream ends.
  `NoLineVanishes` says what the code does.
* `ConfigStore.NewestWins` (`routerBuilder.ts:623`): `sync.check` compares with
  values read outside the lock.
* `ConfigStore.FlagsOfModel` (`config/types.ts:269`): the flag of a role is that of
  its model. Of two handlers that set the model of a role, the first may probe its
  model before and record the answer after the second has set another one.
* `McpSync.CacheIsOfItsMarker` (comments on `planMcpSync`): after `/mcp add` of a
  name that is connected, the connection with the old settings is used again,
  and its tools are cached under the new marker.

What else was met while modelling. The models follow the code, and the
properties say what is left of the promise:

*Tasks and streams.* The comment on `commitLiveThinks` does not hold when the
connection is lost: what was buffered is dropped. An error frame behind which
frames are unhandled is shown twice (`taskStream.ts:470`). Frames behind a plan
are handled after their task was cancelled (`late`). A review ignores the abort
signal (`planBroker.request`), so a cancelled task keeps its slot for up to five
minutes, and its plan can appear on the next task's stream. Escape while the
client connects does nothing (`taskStream.ts:453`; `shortcutCatalog.ts:39`).

*Models.* A task reads its model twice and its window once, but the provider at
every call, although "the model tag is fixed for this task's lifetime": after a
switch the calls that remain combine the old model with the new provider, and
`num_ctx` is wrong or missing, which is what `agentTurn.ts:390-395` warns of.
The two reads of one lookup can name a provider and then not find it although
the configuration was consistent all the time. A compaction may cut between a
call and its result, and one that fails replaces the only summary by the text
for dropped messages. `reasoner.ts:91-98` promises multi-line fields; `$` with
the `m` flag ends them at the first line. Text calls: values that contain
another field's name or `<<END>>` give a wrong or cut call, and if one block of
two is malformed the model is not told (`agentTurn.ts:840-853`).

*Library.* A storage report made while a pull works lists the pull's blobs as
orphans, with an `rm -rf` line to copy; a manifest that cannot be read makes the
blobs of its model orphans. Tags are the last three parts of a path, so equal
tags of two registries collide. An aborted pull notices at the next line of
progress, and ends with `done` if there is none. A task cancelled while it waits
for Ollama's list spends the connection's only placement warning unheard
(`muted`), and a report that waits when its connection closes leaves an entry
nobody removes.

*Header.* The section of known fixes never has an entry of its own
(`FixRoundIsIdle`; `contextBuilder.ts:12`, `285`): every rule it could show was
tried before. Titles, separators and the marker of a cut are not counted. A
pattern deleted between the list and its `stat` makes `build()` throw.

*Memory.* `append()` reads and replaces the session file without a lock: a block
is lost, or one that `/new` cleared comes back (`mixed`). `countTasks` returns the
"number of task blocks found" (`sessionManager.ts:77`), and `formatBlock` takes the
"sequential task number (1-indexed)" (`91`); both hold only as long as no prompt,
file name, command or listing has a line that begins with "Task" and a number: the
text is written as it is, such a line counts as a block, and the next number skips
(`BlocksNumbered` says by how much). Consolidation drops
rules without an id although it "assigns new UUIDs/timestamps"
(`preferenceManager.ts:377`, `446-448`). `saveAll` that fails drops the index
while its writes go on (`skillManager.ts:204-208`; `148-155`); `delete()` whose
sidecar cannot be removed does not drop it (`342`).

*Secrets and identity.* `loadConfig` takes a torn file for none, and the next
save drops pins and secrets, although pins are "never silently re-pinned"; two
processes overwrite each other's settings; the reset of a passphrase drops MCP
credentials its text does not name. `rotateConfigPassphrase` and
`rotateProvidersPassphrase` have no caller but tests; the latter would break
`OneKey`. A crash between the two writes of a certificate leaves a pair that does
not fit until `--regen-cert`; any failed read silently makes a new one
(`certRegen.ts:8-11`). A `reload()` during a handshake compares the certificate
of the old server with the pin of the new address (`misled`).

*Process.* A start that fails after Ollama was spawned, in any later step, and a
signal before the server listens leave the child running
(`ChildLeftOnlyLate`); `performShutdown` exits in the step that begins it, so
its watchdog never runs; `startedByServer` can be true of somebody else's
Ollama. Piped answers lose the spaces at their end, typed ones do not; a chunk
that cuts a character garbles it.

*Commands.* In auto mode the retry after a denial is taken without a question,
outside the sandbox and with a network (`commandHandlers.ts:329-331`: "the user
is offered one retry"). The policy's writable directory is the request's, the
command runs in the current one; a command that overlaps another loses its `cd`
back (`295`). A backend installed later is noticed only after `/sandbox`. An edit
whose text contains `$` patterns is written with them replaced
(`workspaceManager.ts:509`).

*MCP.* A sync with nothing to offer tells the server nothing, so the server goes
on to offer the tools of the server that was removed last
(`tokenSaveHandlers.ts:529-531`). A `sync.check` answered from the server's
cache skips the removal of what was disabled, so the gate lets its tools
through. Overlapping syncs write stale snapshots back, and leave tools on the
server under a marker that does not name their server. Listing tools is not
queued (`mcpRegistry.ts:6-9`): two connects at once leave one client open
(`raced`). A queued call reconnects after `/mcp remove`.

*Adapters.* The OpenAI adapter drops a last line without a newline; a body that
ends early counts as done and its cut arguments become `{}` (`849-859`);
fragments without an index collapse into one call (`488`).

## 7. Mutants

A property that no bug can break says nothing. For every property of a passing
run, a module has an operator marked `Mutant of ...` or `Mutant: ...` that
changes a definition the way a plausible bug would: a dropped guard, a missing
reset, an eager wake-up. No action uses it. `PROJECT.json` names, for each
property, the mutant that TLC finds it violated by when it replaces the
definition.

The properties of `server` and `client` join those of several components. Each
component has mutants of its own, all of which TLC finds:

| Property | Mutants (definition → mutated form) |
|---|---|
| `ConnectionsInv` | `ClientConnection`: `CloseOld` → `Forgotten`; `McpSync`: `ToolsOf` → `KeepsInactive`; `McpConnection`: `MayRun` → `Unqueued`, `CloseConnectionIfCurrent` → `ForgetsCurrent`; `ClientSettings`: `AfterReset` → `FromDefaults`, `CanLoad` → `AnyKey`; `ServerIdentity`: `Existing` → `Never` |
| `ClientSteps` | `ClientOperations`: `Dismissed` → `OnlyActive`; `ServerIdentity`: `PinAfter` → `Repinned` |
| `MachineInv` | `ClientOperations`: `BaseOf` → `StaleBase`; `CommandRun`: `ForgetResolved` → `ForgetsOne`, `Inside` → `OfRequest` |
| `SessionInv`, `ReasoningInv` | `TerminalSession`: `MaySubmit` → `NoLock`; `ThinkStream`: `Held` → `HoldNothing` |
| `ClientProgress` | `ClientConnection`: `To` → `NoRetry` |
| `StoresInv` | `PreferenceStore`: `Undo` → `NotUndone` and three more; `SkillStore`: `Invalidate` → `ForgetsGeneration`, `Outdated` → `OnlyWritten`, `AfterFailure` → `StaysInFlight`; `StartupSecrets`: `Stripped` → `KeepsEnvelope`, `FieldsToSave` → `OnlyReplaced`; `TaskMemory`: `PersistRecordFails` → `GoesOn`, `CountTasks` → `CountsBlocks`; `ConfigStore`: `RestoredKey` → `KeptKey`, `RequestRefused` → `Unguarded`; `Mutex`: `AfterRelease` → `UnlockedAnyway` |
| `WorkInv` | `SubagentRun`: `Finishes` → `OnlySetUp`, `Exhausted` → `OneMore`; `ContextBuilder`: `IsFresh` → `AnyEntry`, `KnownLength` → `AskAgain`; `ServerProcess`: `KillChild` → `LeaveIt`, `Disposed` → `OnlyDisposed`; `ModelCalls`: `Compacted` → `InsertAfter`, `RoundsOver` → `RoundsPassed`, `SentWindow` → `WindowOfModel`; `ModelLibrary`: `Printed` → `AnyLine`, `AfterManifest` → `StopAtFailure`; `PlacementReport`: `IsWarned` → `WarnedAnybody`; `TaskStream`: `AbortedAtClose` → `AbortsNothing`, `Completed` → `AtOnce` |
| `AnswersInv` | `ModelStream`: `Fragment` → `LastArgs`, `Feed` → `FeedWithoutCarry`; `ContextBuilder`: `Skip` → `EndsRound`; `PromptInput`: `AfterLine` → `DropsRest`; `ToolBlocks`: `WithoutComma` → `WithComma`, `OnlyNamed` → `AnyNamed` |
| `ServerProgress` | `ConfigStore`: `Settled` → `NotReleased` |

## 8. What is not modelled

*Texts*: prompts, observations, nudges, status lines, themes, the layout of the
screen, the parsing of what the user types. *Ciphers and certificates* are
numbers that fit or do not. *The wire*: RSocket delivers what it delivers in
order, or the connection is lost; frames are not lost singly, but for the plan
frame of a stream that ended. In `TaskTurns` a step of a batch is one action,
not a loop of its own, and the steps have no dependencies. The abort of a
connection that closes is the same signal as the user's. The failed-command
counter (it only changes a text) and setup commands (the command plan of this
loop is empty) are left out of `ToolLoop`.

By component: the field-by-field validation and translation of configurations
(`config/parsing.ts`, `serverConfigTranslation.ts`) is one step that accepts or
refuses; the lists and retries of the Ollama client; the policy files of the
sandboxes and the path arithmetic below them; the pages of commands that only
show something; snapshot cleanup and the consolidation's timer, which start
other operations and keep nothing; the diff and the frame types of `shared`, which
have no state; fences and escapes in `toolProtocol.ts`. A config that another
process edits while a command runs is not modelled, nor is a container image
other than the default. `SubagentRun` models a class that only tests construct at
this commit, so that what it shows is of no task yet.

Smaller things, at definitions of the modules. No property depends on what is
left out:

* `ToolLoop.Throw`: a tool throws only when the task was aborted. A time-out or a
  lost connection under a token-saving tool (`tokenSaveToolHandler.ts:79`,
  `clientBridge.ts:125`) throws as well, without an abort.
* `ToolLoop.IsToolReadOnly`: a worker's `mcp_read` counts as read-only; the code
  lets it run alone (`agentTurn.ts:376`, `1202-1222`).
* `ClientOperations.CycleApprovalMode`: `default` and `accept_edits` of the four
  modes of `allowlist.ts:177-190`.
* `McpSync.PlanRefresh`: every server; the refresh of a single one
  (`mcpSyncPlan.ts:155-165`) is left out. `McpSync.McpInit`: the server's cache of
  tools is empty at the start, although it is kept on disk
  (`routerBuilder.ts:566-577`).
* `ClientSettings.Patched`: a reset clears the one secret there is; `--reset` keeps
  the secrets of MCP servers (`configRepair.ts:64-75`).
* `ThinkStream.ChunkArrives`: the emitter also gives out at a newline
  (`thinkStream.ts:271`).
* `SkillStore.Unlink`: one that fails leaves the file; the code may have removed the
  `.md` and fail at the sidecar (`skillManager.ts:199-201`).
* `PreferenceStore.Consolidated`: a rule starts with no uses, where the code keeps a
  number the answer has; of two rules with one id any is taken, where the code takes
  the last (`preferenceParsers.ts:147-151`).
* `StartupSecrets.Start`: one server on a directory at a time.
* `TaskStream.TurnEnds`: an error called "Aborted" without an abort, or one that is
  not an object (`orchestratorPipeline.ts:221`, `taskErrors.ts:26-32`).
* `ModelLibrary.Orphans`: partial files, which are orphans always
  (`modelStorage.ts:308-309`).
* `TaskMemory.Extracted`: style rules learned from the user's edits
  (`patternExtractor.ts:405-441`), which nothing logs: `logUserEdit` has no caller.

`ClientSettings` and `ServerIdentity` are followed until two processes meet or a
write is cut off: from then on the code promises nothing, as section 6 says.

## 9. Plan

Done: the agent's turn from the task to the batch; the client's connection,
operations, commands, prompt and reasoning; MCP; both configurations, stores,
secrets and identity; memory and its header; the stream of a task; the process;
the calls to models and the library of models; the proofs of section 5. Next, in
this order:

1. Compositions: `TaskStream` with `PlanReviewBroker` in place of its own
   reviews, and `ClientOperations` with `CommandRun`, so that a lost session
   dismisses the question of a command.
2. The client's side of the synchronisation of configurations.
