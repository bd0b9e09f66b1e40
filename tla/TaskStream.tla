------------------------------ MODULE TaskStream ------------------------------
(***************************************************************************)
(* A task's stream from the server's handler to the user's screen          *)
(* (server/rsocket, routing/routerBuilder.ts, client connection/           *)
(* streaming.ts, ui/taskStream.ts).  The server emits frames, at last one  *)
(* that ends the stream; the client handles them one after the other, a    *)
(* plan only when the user decided, and meanwhile the user may cancel or   *)
(* the socket may go.  JavaScript runs what a callback queued before the   *)
(* next callback: the client's steps that wait for nothing come first.     *)
(***************************************************************************)
EXTENDS Naturals, Sequences, FiniteSets

CONSTANTS
  MaxStreams, \* bound: tasks of the session
  MaxFrames,  \* bound: tokens of a task
  MaxLosses,  \* bound: lost connections
  MaxTrouble  \* bound: losses, cancels and reviews together

ASSUME StreamsAssumption == MaxStreams \in Nat /\ MaxFrames \in Nat /\ MaxLosses \in Nat
                            /\ MaxTrouble \in Nat

Streams == 1..MaxStreams
Conns == 1..(MaxLosses + 1)     \* requesterIds
NoConn == [exists |-> FALSE, emit |-> 0, active |-> 0, waiting |-> <<>>]
Fresh(t) == [exists |-> TRUE, emit |-> t, active |-> 0, waiting |-> <<>>]

Token(t, n) == [kind |-> "token", of |-> t, n |-> n]
Frame(kind, t) == [kind |-> kind, of |-> t, n |-> 0]

VARIABLES
                     \* the server
  activeSessions,    \* connections it holds open
  brokerByRequester, \* [Conns -> the PerConnection, or NoConn]
  controllers,       \* streams whose AbortController is registered
  abortedTasks,      \* streams whose signal is aborted
  serving,           \* [Streams -> Serving]
  sentTokens,        \* [Streams -> tokens emitted]
  asked,             \* bound: streams that asked for a review
                     \* between them
  link,              \* "up" or "down", as the client sees it
  conn,              \* the connection the client is on, or was last
  connOf,            \* [Streams -> connection, 0 before it is sent]
  upstream,          \* [Streams -> messages on their way to the server]
  wire,              \* [Streams -> frames on their way to the client]
  responses,         \* plan.respond on their way: [plan, on, by]
                     \* the client
  frameChain,        \* [Streams -> frames received, not yet handled]
  handler,           \* [Streams -> what the head of the chain waits for]
  done,              \* [Streams -> the state of the promise `done']
  screen,            \* [Streams -> "idle", "streaming", "ended"]
  buffer,            \* [Streams -> streamingBuffer]
  errorShown,        \* streams with errorFrameShown
  cancelledByUser,   \* streams the user cancelled
  transcript,        \* the history on the screen
  streamingText,     \* the live text below it
  spinner,           \* whether it turns
  late               \* ghost: streams that ended before their chain did

serverVars == <<activeSessions, brokerByRequester, controllers, abortedTasks,
                serving,
                sentTokens, asked>>
linkVars == <<link, conn, connOf>>
shownVars == <<transcript, streamingText, spinner>>
clientVars == <<frameChain, handler, done, screen, buffer, errorShown, cancelledByUser,
                shownVars, late>>
netVars == <<upstream, wire, responses>>
taskVars == <<serverVars, linkVars, netVars, clientVars>>

(* Bound on the runs: how much may happen in one of them.                  *)
Trouble == (conn - 1) + (IF link = "down" THEN 1 ELSE 0) + Cardinality(cancelledByUser)
             + Cardinality(asked)
MoreTrouble == Trouble < MaxTrouble

Serving == {"none", "turn", "review", "failed", "succeeded", "over"}
Working == Serving \ {"none", "over"}

TaskInit ==
  /\ activeSessions = {1} /\ brokerByRequester = [c \in Conns |-> NoConn]
  /\ controllers = {} /\ abortedTasks = {}
  /\ serving = [t \in Streams |-> "none"] /\ sentTokens = [t \in Streams |-> 0] /\ asked = {}
  /\ link = "up" /\ conn = 1 /\ connOf = [t \in Streams |-> 0]
  /\ upstream = [t \in Streams |-> <<>>] /\ wire = [t \in Streams |-> <<>>]
  /\ responses = {}
  /\ frameChain = [t \in Streams |-> <<>>] /\ handler = [t \in Streams |-> "free"]
  /\ done = [t \in Streams |-> "open"] /\ screen = [t \in Streams |-> "idle"]
  /\ buffer = [t \in Streams |-> <<>>] /\ errorShown = {} /\ cancelledByUser = {}
  /\ transcript = <<>> /\ streamingText = <<>> /\ spinner = FALSE /\ late = {}

-----------------------------------------------------------------------------
(* RSocket drops what is sent on a stream that has ended or was cancelled, *)
(* or whose connection is gone.                                            *)
Delivers(t) == serving[t] # "over" /\ t \notin abortedTasks /\ connOf[t] = conn /\ link = "up"
Emit(t, frames) ==
  wire' = [wire EXCEPT ![t] = IF Delivers(t) THEN @ \o frames ELSE @]

Serve(t, stage) == serving' = [serving EXCEPT ![t] = stage]

(* createRequestStreamHandler and the task handler: a PerConnection that   *)
(* exists sends its plans to the new stream from now on.                   *)
RebindEmit(b, t) == IF b.exists THEN [b EXCEPT !.emit = t] ELSE Fresh(t)

Accept(t) ==
  /\ Head(upstream[t]) = "request"
  /\ controllers' = controllers \cup {t} /\ Serve(t, "turn")
  /\ brokerByRequester' = [brokerByRequester EXCEPT ![connOf[t]] = RebindEmit(@, t)]
  /\ UNCHANGED abortedTasks

CancelArrives(t) ==
  /\ Head(upstream[t]) = "cancel"
  /\ abortedTasks' = abortedTasks \cup ({t} \cap controllers)
  /\ UNCHANGED <<controllers, serving, brokerByRequester>>

ServerReceives(t) ==
  /\ upstream[t] # <<>> /\ (Accept(t) \/ CancelArrives(t))
  /\ upstream' = [upstream EXCEPT ![t] = Tail(@)]
  /\ UNCHANGED <<activeSessions, sentTokens, asked, wire, responses, linkVars,
                 clientVars>>

(* sync.check and mcp.tools.sync may come first: no stream to emit to.     *)
SyncTools ==
  /\ link = "up" /\ ~brokerByRequester[conn].exists /\ \A t \in Streams : connOf[t] # conn
  /\ brokerByRequester' = [brokerByRequester EXCEPT ![conn] = Fresh(0)]
  /\ UNCHANGED <<activeSessions, controllers, abortedTasks, serving, sentTokens,
                 asked,
                 netVars, linkVars, clientVars>>

SessionKept == UNCHANGED <<activeSessions, controllers, abortedTasks>>

EmitToken(t) ==
  /\ serving[t] = "turn" /\ t \notin abortedTasks /\ sentTokens[t] < MaxFrames
  /\ sentTokens' = [sentTokens EXCEPT ![t] = @ + 1]
  /\ Emit(t, <<Token(t, sentTokens[t] + 1)>>) /\ SessionKept
  /\ UNCHANGED <<serving, asked, brokerByRequester, upstream, responses, linkVars,
                 clientVars>>

(* PlanReviewBroker.flush, to the stream the PerConnection is bound to.    *)
Flush(c, b) ==
  IF b.active = 0 /\ b.waiting # <<>>
  THEN /\ brokerByRequester' =
            [brokerByRequester EXCEPT ![c] = [b EXCEPT !.active = Head(b.waiting),
                                                       !.waiting = Tail(b.waiting)]]
       /\ Emit(b.emit, <<Frame("plan", Head(b.waiting))>>)
  ELSE brokerByRequester' = [brokerByRequester EXCEPT ![c] = b] /\ UNCHANGED wire

AskPlan(t) ==
  LET b == brokerByRequester[connOf[t]]
  IN  /\ serving[t] = "turn" /\ t \notin asked /\ MoreTrouble
      /\ asked' = asked \cup {t} /\ Serve(t, "review")
      /\ Flush(connOf[t], [b EXCEPT !.waiting = Append(@, t)]) /\ SessionKept
      /\ UNCHANGED <<sentTokens, upstream, responses, linkVars, clientVars>>

(* PlanReviewBroker.settle of the plan on the screen, or a no-op.          *)
Settle(c, p) ==
  LET b == brokerByRequester[c]
  IN  IF b.active = p
      THEN Serve(p, "turn") /\ Flush(c, [b EXCEPT !.active = 0])
      ELSE UNCHANGED <<serving, brokerByRequester, wire>>

ReviewExpires(c) ==
  /\ brokerByRequester[c].active # 0 /\ Settle(c, brokerByRequester[c].active)
  /\ SessionKept
  /\ UNCHANGED <<sentTokens, asked, upstream, responses, linkVars, clientVars>>

-----------------------------------------------------------------------------
(* runOrchestratorPipeline: how the turn ends.  An error is reported to    *)
(* the client unless the task is aborted.                                  *)
TurnEnds(t) ==
  /\ serving[t] = "turn"
  /\ \/ Serve(t, "succeeded") /\ UNCHANGED wire
     \/ t \notin abortedTasks /\ Serve(t, "failed") /\ Emit(t, <<Frame("error", t)>>)
  /\ SessionKept
  /\ UNCHANGED <<brokerByRequester, sentTokens, asked, upstream, responses, linkVars,
                 clientVars>>

(* The task handler completes a stream that was cancelled quietly.         *)
LastFrame(t) ==
  Frame(IF serving[t] = "failed" /\ t \notin abortedTasks THEN "fail" ELSE "complete", t)

StreamEnds(t) ==
  /\ serving[t] \in {"failed", "succeeded"} /\ Serve(t, "over")
  /\ Emit(t, <<LastFrame(t)>>)
  /\ controllers' = controllers \ {t}
  /\ UNCHANGED <<activeSessions, abortedTasks, brokerByRequester, sentTokens, asked,
                 upstream, responses, linkVars, clientVars>>

(* Mutant of AbortedAtClose: only what the client had cancelled.           *)
AbortsNothing(c) == {}

AbortedAtClose(c) == {t \in controllers : connOf[t] = c}

(* onClose and disposeConnection: plans under review are skipped.          *)
ServerCloses(c) ==
  LET b == brokerByRequester[c]
  IN  /\ c \in activeSessions /\ (c # conn \/ link = "down")
      /\ activeSessions' = activeSessions \ {c}
      /\ abortedTasks' = abortedTasks \cup AbortedAtClose(c)
      /\ brokerByRequester' = [brokerByRequester EXCEPT ![c] = [NoConn EXCEPT !.emit = b.emit]]
      /\ serving' = [t \in Streams |-> IF serving[t] = "review" /\ connOf[t] = c THEN "turn"
                                       ELSE serving[t]]
      /\ UNCHANGED <<controllers, sentTokens, asked, netVars, linkVars, clientVars>>

-----------------------------------------------------------------------------
(* streamRequest.                                                          *)
Conclusion(t, how) == IF done[t] \in {"open", "draining"} THEN [done EXCEPT ![t] = how] ELSE done

(* Mutant of Completed: `done' does not wait for the chain.                *)
AtOnce == "resolved"

Completed == "draining"

(* What the client still has to do before it looks at the next event.      *)
MayHandle(t) == frameChain[t] # <<>> /\ handler[t] = "free"
MayDrain(t) == done[t] = "draining" /\ frameChain[t] = <<>> /\ handler[t] = "free"
MayConclude(t) == done[t] \in {"resolved", "rejected"} /\ screen[t] = "streaming"
NothingPending == \A t \in Streams : ~MayHandle(t) /\ ~MayDrain(t) /\ ~MayConclude(t)

(* A chunk of the socket: any number of frames at once, of which the last  *)
(* may be the one that ends the stream; that one is not a frame to handle. *)
Receive(t) ==
  /\ NothingPending /\ wire[t] # <<>> /\ done[t] = "open"
  /\ \E k \in 1..Len(wire[t]) :
       LET last == wire[t][k].kind
           frames == IF last \in {"complete", "fail"} THEN k - 1 ELSE k
       IN  /\ wire' = [wire EXCEPT ![t] = SubSeq(@, k + 1, Len(@))]
           /\ frameChain' = [frameChain EXCEPT ![t] = @ \o SubSeq(wire[t], 1, frames)]
           /\ done' = CASE last = "complete" -> Conclusion(t, Completed)
                        [] last = "fail" -> Conclusion(t, "rejected")
                        [] OTHER -> done
  /\ UNCHANGED <<serverVars, linkVars, upstream, responses, handler, screen, buffer, errorShown,
                 cancelledByUser, shownVars, late>>

ChainDrained(t) ==
  /\ MayDrain(t) /\ done' = Conclusion(t, "resolved")
  /\ UNCHANGED <<serverVars, linkVars, netVars, frameChain, handler, screen, buffer, errorShown,
                 cancelledByUser, shownVars, late>>

(* The frames of runTaskStream.                                            *)
HandleToken(t, f) ==
  /\ f.kind = "token"
  /\ buffer' = [buffer EXCEPT ![t] = Append(@, f)]
  /\ streamingText' = Append(buffer[t], f) /\ spinner' = FALSE
  /\ UNCHANGED <<transcript, errorShown, handler>>

HandleErrorFrame(t, f) ==
  /\ f.kind = "error"
  /\ errorShown' = errorShown \cup {t} /\ transcript' = Append(transcript, f)
  /\ UNCHANGED <<buffer, streamingText, spinner, handler>>

HandleConfirmPlan(t, f) ==
  /\ f.kind = "plan"
  /\ transcript' = transcript \o Append(buffer[t], [f EXCEPT !.n = t])
  /\ buffer' = [buffer EXCEPT ![t] = <<>>] /\ streamingText' = <<>> /\ spinner' = FALSE
  /\ handler' = [handler EXCEPT ![t] = "asking"]
  /\ UNCHANGED errorShown

OnFrame(t) ==
  /\ MayHandle(t)
  /\ LET f == Head(frameChain[t])
     IN  HandleToken(t, f) \/ HandleErrorFrame(t, f) \/ HandleConfirmPlan(t, f)
  /\ frameChain' = [frameChain EXCEPT ![t] = Tail(@)]
  /\ UNCHANGED <<serverVars, linkVars, netVars, done, screen, cancelledByUser, late>>

(* After `await done': the tail of the answer, or the error that           *)
(* useSubmitLine shows if no frame has shown it; finally the screen is     *)
(* reset.                                                                  *)
LastEntries(t) ==
  IF done[t] = "resolved" \/ t \in errorShown THEN buffer[t] ELSE <<Frame("error", t)>>

Conclude(t) ==
  /\ MayConclude(t)
  /\ screen' = [screen EXCEPT ![t] = "ended"]
  /\ transcript' = transcript \o LastEntries(t)
  /\ streamingText' = <<>> /\ spinner' = FALSE
  /\ late' = IF frameChain[t] = <<>> /\ handler[t] = "free" THEN late ELSE late \cup {t}
  /\ UNCHANGED <<serverVars, linkVars, netVars, frameChain, handler, done, buffer, errorShown,
                 cancelledByUser>>

-----------------------------------------------------------------------------
(* The user: one task at a time, Escape unless an overlay has the keys.    *)
SendTask(t) ==
  /\ connOf' = [connOf EXCEPT ![t] = conn]
  /\ upstream' = [upstream EXCEPT ![t] = <<"request">>]

RunTaskStream(t) ==
  /\ NothingPending /\ link = "up" /\ screen[t] = "idle"
  /\ \A u \in Streams : u < t => screen[u] = "ended"
  /\ screen' = [screen EXCEPT ![t] = "streaming"] /\ spinner' = TRUE
  /\ SendTask(t)
  /\ UNCHANGED <<serverVars, link, conn, wire, responses, frameChain, handler, done, buffer,
                 errorShown, cancelledByUser, transcript, streamingText, late>>

NoOverlay == \A t \in Streams : handler[t] # "asking"

Escape(t) ==
  /\ NothingPending /\ NoOverlay /\ screen[t] = "streaming" /\ MoreTrouble
  /\ cancelledByUser' = cancelledByUser \cup {t} /\ done' = Conclusion(t, "resolved")
  /\ upstream' = [upstream EXCEPT ![t] = Append(@, "cancel")]
  /\ wire' = [wire EXCEPT ![t] = <<>>]
  /\ UNCHANGED <<serverVars, linkVars, responses, frameChain, handler, screen, buffer, errorShown,
                 shownVars, late>>

(* The plan on the screen of stream t is that of the last plan entry of t. *)
PlanOn(t) ==
  LET plans == SelectSeq(transcript, LAMBDA f : f.kind = "plan" /\ f.n = t)
  IN  plans[Len(plans)].of

RespondPlan(t) ==
  /\ handler' = [handler EXCEPT ![t] = "answering"]
  /\ responses' = responses \cup {[plan |-> PlanOn(t), by |-> t,
                                   on |-> IF link = "up" THEN conn ELSE 0]}

UserDecides(t) ==
  /\ NothingPending /\ handler[t] = "asking" /\ RespondPlan(t)
  /\ UNCHANGED <<serverVars, linkVars, upstream, wire, frameChain, done, screen, buffer,
                 errorShown, cancelledByUser, shownVars, late>>

(* plan.respond on the connection of now; it waits for one, and fails with *)
(* the one it was sent on or if that has no PerConnection.                 *)
PlanResponds(r) ==
  /\ r \in responses /\ NothingPending /\ responses' = responses \ {r}
  /\ handler' = [handler EXCEPT ![r.by] = "free"]
  /\ \/ /\ link = "up" /\ r.on \in {0, conn} /\ brokerByRequester[conn].exists
        /\ Settle(conn, r.plan) /\ spinner' = TRUE /\ UNCHANGED done
     \/ /\ \/ link = "up" /\ r.on \in {0, conn} /\ ~brokerByRequester[conn].exists
           \/ r.on # 0 /\ (r.on # conn \/ link = "down")
        /\ done' = Conclusion(r.by, "rejected") /\ UNCHANGED <<spinner, serving,
                                                               brokerByRequester, wire>>
  /\ UNCHANGED <<activeSessions, controllers, abortedTasks, sentTokens, asked,
                 linkVars,
                 upstream, frameChain, screen, buffer, errorShown, cancelledByUser, transcript,
                 streamingText, late>>

(* The socket is gone: open streams fail, an overlay is dismissed, and     *)
(* useConnectionDisconnectCleanup resets the screen.                       *)
LoseSocket ==
  /\ NothingPending /\ link = "up" /\ conn <= MaxLosses /\ MoreTrouble /\ link' = "down"
  /\ upstream' = [t \in Streams |-> <<>>] /\ wire' = [t \in Streams |-> <<>>]
  /\ done' = [t \in Streams |-> IF screen[t] = "streaming" /\ done[t] = "open" THEN "rejected"
                                ELSE done[t]]
  /\ handler' = [t \in Streams |-> IF handler[t] = "asking" THEN "answering" ELSE handler[t]]
  /\ responses' = responses \cup {[plan |-> PlanOn(t), by |-> t, on |-> 0] :
                                    t \in {u \in Streams : handler[u] = "asking"}}
  /\ streamingText' = <<>> /\ spinner' = FALSE
  /\ UNCHANGED <<serverVars, conn, connOf, frameChain, screen, buffer, errorShown, cancelledByUser,
                 transcript, late>>

ConnectAgain ==
  /\ NothingPending /\ link = "down" /\ link' = "up" /\ conn' = conn + 1
  /\ activeSessions' = activeSessions \cup {conn + 1}
  /\ UNCHANGED <<brokerByRequester, controllers, abortedTasks, serving,
                 sentTokens, asked,
                 connOf, netVars, clientVars>>

-----------------------------------------------------------------------------
ServerTaskStep(t) ==
  ServerReceives(t) \/ TurnEnds(t) \/ StreamEnds(t)
ClientTaskStep(t) == OnFrame(t) \/ ChainDrained(t) \/ Conclude(t) \/ Receive(t)

TaskNext ==
  \/ \E t \in Streams :
       \/ ServerTaskStep(t) \/ ClientTaskStep(t) \/ EmitToken(t) \/ AskPlan(t)
       \/ RunTaskStream(t) \/ Escape(t) \/ UserDecides(t)
  \/ \E c \in Conns : ServerCloses(c) \/ ReviewExpires(c)
  \/ \E r \in responses : PlanResponds(r)
  \/ SyncTools \/ LoseSocket \/ ConnectAgain

TaskFairness ==
  /\ \A t \in Streams : WF_taskVars(ServerTaskStep(t)) /\ WF_taskVars(ClientTaskStep(t))
  /\ \A c \in Conns : WF_taskVars(ServerCloses(c)) /\ WF_taskVars(ReviewExpires(c))

-----------------------------------------------------------------------------
TaskTypeOK ==
  /\ activeSessions \subseteq Conns
  /\ controllers \subseteq Streams /\ abortedTasks \subseteq Streams
  /\ serving \in [Streams -> Serving]
  /\ done \in [Streams -> {"open", "draining", "resolved", "rejected"}]
  /\ handler \in [Streams -> {"free", "asking", "answering"}]

PlacesOf(entries, kind, t) == {i \in 1..Len(entries) : entries[i].kind = kind /\ entries[i].of = t}
Shown(t) == PlacesOf(transcript, "token", t)
OneError(entries, t) == \A i, j \in PlacesOf(entries, "error", t) : i = j
NoNews(t) == frameChain[t] = <<>> /\ handler[t] = "free"

(* A task that completed and was not cancelled is on the screen as a       *)
(* whole: every token once, in order.                                      *)
AnswerIsWhole ==
  \A t \in Streams :
    screen[t] = "ended" /\ done[t] = "resolved" /\ t \notin cancelledByUser =>
      /\ {transcript[i].n : i \in Shown(t)} = 1..sentTokens[t]
      /\ \A i, j \in Shown(t) : i < j => transcript[i].n < transcript[j].n
      /\ OneError(transcript, t)

(* However it ends, no token is shown twice, and no error either; but a    *)
(* chain that outlives its task commits what was committed again.          *)
NothingRepeated ==
  \A t \in Streams \ late :
    /\ \A i, j \in Shown(t) : i < j => transcript[i].n < transcript[j].n
    /\ OneError(transcript, t)

(* Between tasks nothing turns and no text stands below the transcript.    *)
QuietPrompt ==
  (\A t \in Streams : screen[t] # "streaming" /\ t \notin late) =>
    ~spinner /\ streamingText = <<>>

(* Frames outlive their task only if it was cancelled, or failed.          *)
LateOnlyIfCut ==
  \A t \in late : t \in cancelledByUser \/ done[t] = "rejected"

(* A plan is shown by the stream of its task, unless that was cancelled    *)
(* and a later task of the connection has taken over the review.           *)
PlanOfItsTask ==
  \A i \in 1..Len(transcript) :
    transcript[i].kind = "plan" =>
      transcript[i].n = transcript[i].of \/ transcript[i].of \in cancelledByUser

(* What a connection held is released with it: its plans are dropped, and  *)
(* its tasks aborted.                                                      *)
ClosedIsReleased ==
  \A c \in Conns \ activeSessions :
    /\ ~brokerByRequester[c].exists
    /\ \A t \in Streams : connOf[t] = c /\ serving[t] \in Working => t \in abortedTasks

ScreenInv ==
  /\ TaskTypeOK /\ AnswerIsWhole /\ NothingRepeated /\ QuietPrompt /\ LateOnlyIfCut
  /\ PlanOfItsTask /\ ClosedIsReleased

(* Every task ends, on the server, and on the screen unless the user has a *)
(* plan to decide on.                                                      *)
TasksOver ==
  \A t \in Streams :
    /\ serving[t] \in {"none", "over"}
    /\ screen[t] # "streaming" \/ handler[t] # "free"
TasksEnd == <>[]TasksOver
=============================================================================
