-------------------------- MODULE PlanReviewBroker --------------------------
(***************************************************************************)
(* The broker that shows plans to the user one at a time                   *)
(* (workspace/review/planReviewBroker.ts), the stream that carries them    *)
(* (transport/rsocketPlanReviewTransport.ts), and the client that shows a  *)
(* plan and answers it (client ui/taskStream.ts).                          *)
(*                                                                         *)
(* Several reviews can be open on one connection: a cancelled task still   *)
(* awaits the review of its plan, because request() does not observe the   *)
(* abort signal, while the next task asks for its own.                     *)
(***************************************************************************)
EXTENDS Integers, Sequences, FiniteSets

CONSTANTS
  Requests,    \* the ids of the reviews that are ever requested
  Timeout,     \* timeoutMs, in ticks of the model's clock
  None         \* no plan

ASSUME BrokerAssumption ==
  /\ IsFiniteSet(Requests)
  /\ Timeout \in Nat \ {0}
  /\ None \notin Requests

Decision == {"implement", "skip", "edit"}

VARIABLES
  pending,     \* the ids in the broker's pending map
  queue,       \* the envelopes waiting to be sent
  active,      \* the envelope sent and not yet settled
  live,        \* FALSE once the broker was disposed
  arrival,     \* order in which the timers were started; 0 before that
  age,         \* ticks since the timer was started
  shown,       \* ticks since the plan was sent
  decision,    \* what the promise of request() resolved to
  by,          \* who settled it
  inbox,       \* confirm-plan frames the client has yet to handle
  dialog,      \* the plan on the client's screen
  chosen,      \* what the user chose for each plan
  reply        \* the plan.respond request in flight

broker == <<pending, queue, active, decision, by>>
client == <<dialog, chosen, reply>>
vars == <<broker, live, arrival, age, shown, inbox, client>>

Elements(s) == {s[i] : i \in 1..Len(s)}

Init ==
  /\ pending = {} /\ queue = <<>> /\ active = None /\ live = TRUE
  /\ arrival = [p \in Requests |-> 0]
  /\ age = [p \in Requests |-> 0]
  /\ shown = [p \in Requests |-> 0]
  /\ decision = [p \in Requests |-> "none"]
  /\ by = [p \in Requests |-> "nobody"]
  /\ inbox = <<>> /\ dialog = None /\ reply = None
  /\ chosen = [p \in Requests |-> "none"]

(* Mutants: a flush that does not look at `active', a settle that does not *)
(* clear it or does not look at `pending', a timer that may overtake, one  *)
(* that is cancelled when the plan is sent, one that rejects the promise,  *)
(* and an answer taken for whichever plan is active.                       *)
FlushEagerly(q, a) ==
  IF q = <<>>
  THEN queue' = q /\ active' = a /\ UNCHANGED inbox
  ELSE /\ queue' = Tail(q) /\ active' = Head(q)
       /\ inbox' = IF live THEN Append(inbox, Head(q)) ELSE inbox

SettleKeepsActive(p, d, who) ==
  IF p \in pending
  THEN /\ pending' = pending \ {p}
       /\ decision' = [decision EXCEPT ![p] = d]
       /\ by' = [by EXCEPT ![p] = who]
       /\ UNCHANGED <<queue, active, inbox>>
  ELSE UNCHANGED <<broker, inbox>>

SettleAgain(p, d, who) ==
  /\ pending' = pending \ {p}
  /\ decision' = [decision EXCEPT ![p] = d]
  /\ by' = [by EXCEPT ![p] = who]
  /\ active' = IF active = p THEN None ELSE active
  /\ UNCHANGED <<queue, inbox>>

IsAnyTimer(p) == p \in pending

IsQueuedTimer(p) ==
  /\ p \in pending /\ p # active
  /\ \A r \in pending : r = active \/ arrival[p] <= arrival[r]

TimeoutRejects(p) ==
  /\ p \in pending /\ p = active /\ age[p] = Timeout
  /\ pending' = pending \ {p}
  /\ decision' = [decision EXCEPT ![p] = "timeout"]
  /\ by' = [by EXCEPT ![p] = "timer"]
  /\ active' = None
  /\ UNCHANGED <<queue, inbox, live, arrival, age, shown, client>>

AnswerToActive ==
  /\ reply # None
  /\ IF active \in pending
     THEN /\ pending' = pending \ {active}
          /\ decision' = [decision EXCEPT ![active] = chosen[reply]]
          /\ by' = [by EXCEPT ![active] = "user"]
          /\ active' = None
          /\ UNCHANGED <<queue, inbox>>
     ELSE UNCHANGED <<broker, inbox>>
  /\ reply' = None /\ dialog' = None
  /\ UNCHANGED <<live, arrival, age, shown, chosen>>

(* The frame with plan p never reaches the screen if the stream it goes    *)
(* out on was cancelled by the user or closed with the connection.         *)
Send(p) == inbox' \in {inbox} \cup (IF live THEN {Append(inbox, p)} ELSE {})

(* flush(), on the queue q and the active plan a that its caller left: the *)
(* next plan goes out if none is active.                                   *)
Flush(q, a) ==
  IF a # None \/ q = <<>>
  THEN /\ queue' = q /\ active' = a
       /\ UNCHANGED inbox
  ELSE /\ queue' = Tail(q) /\ active' = Head(q)
       /\ Send(Head(q))

(* request() and enqueue(): the timer starts here, whether or not the plan *)
(* is sent at once.  A task that outlives its connection may still call.   *)
Request(p) ==
  /\ arrival[p] = 0
  /\ arrival' = [arrival EXCEPT ![p] = 1 + Cardinality({r \in Requests : arrival[r] # 0})]
  /\ pending' = pending \cup {p}
  /\ Flush(Append(queue, p), active)
  /\ UNCHANGED <<live, age, shown, decision, by, client>>

(* settle(): an id that is not pending is ignored.                         *)
Settle(p, d, who) ==
  IF p \in pending
  THEN /\ pending' = pending \ {p}
       /\ decision' = [decision EXCEPT ![p] = d]
       /\ by' = [by EXCEPT ![p] = who]
       /\ Flush(queue, IF active = p THEN None ELSE active)
  ELSE UNCHANGED <<broker, inbox>>

(* Timers of one duration fire in the order in which they were started.    *)
IsOldestTimer(p) ==
  /\ p \in pending
  /\ \A r \in pending : arrival[p] <= arrival[r]

OnTimeout(p) ==
  /\ IsOldestTimer(p)
  /\ age[p] = Timeout
  /\ Settle(p, "skip", "timer")
  /\ UNCHANGED <<live, arrival, age, shown, client>>

(* Time passes; a timer may fire late.  Ages stop at Timeout.              *)
Older(ticks) == IF ticks < Timeout THEN ticks + 1 ELSE ticks

Tick ==
  /\ \E p \in pending : age[p] < Timeout
  /\ age' = [p \in Requests |-> IF p \in pending THEN Older(age[p]) ELSE age[p]]
  /\ shown' = [p \in Requests |-> IF p = active THEN Older(shown[p]) ELSE shown[p]]
  /\ UNCHANGED <<broker, live, arrival, inbox, client>>

(* dispose(), when the connection closes: everything pending is skipped,   *)
(* and the client drops its dialog and whatever was on the wire.           *)
Dispose ==
  /\ live
  /\ live' = FALSE
  /\ decision' = [p \in Requests |-> IF p \in pending THEN "skip" ELSE decision[p]]
  /\ by' = [p \in Requests |-> IF p \in pending THEN "dispose" ELSE by[p]]
  /\ pending' = {} /\ queue' = <<>> /\ active' = None
  /\ inbox' = <<>> /\ dialog' = None /\ reply' = None
  /\ UNCHANGED <<arrival, age, shown, chosen>>

(* The client handles the next frame: the plan goes on the screen, and no  *)
(* later frame is handled until its answer was acknowledged.               *)
Show ==
  /\ dialog = None /\ inbox # <<>>
  /\ dialog' = Head(inbox) /\ inbox' = Tail(inbox)
  /\ UNCHANGED <<broker, live, arrival, age, shown, chosen, reply>>

(* The user answers, perhaps after the server gave up on the plan.         *)
Answer(d) ==
  /\ dialog # None /\ reply = None
  /\ chosen' = [chosen EXCEPT ![dialog] = d]
  /\ reply' = dialog
  /\ UNCHANGED <<broker, live, arrival, age, shown, inbox, dialog>>

(* plan.respond reaches the broker, and the client goes on to its next     *)
(* frame.                                                                  *)
OnResponse ==
  /\ reply # None
  /\ Settle(reply, chosen[reply], "user")
  /\ reply' = None /\ dialog' = None
  /\ UNCHANGED <<live, arrival, age, shown, chosen>>

Next ==
  \/ \E p \in Requests : Request(p) \/ OnTimeout(p)
  \/ Tick
  \/ Dispose
  \/ Show
  \/ \E d \in Decision : Answer(d)
  \/ OnResponse

(* Time passes and an expired timer fires; nobody need request or answer.  *)
Fairness ==
  /\ WF_vars(Tick)
  /\ \A p \in Requests : WF_vars(OnTimeout(p))

Spec == Init /\ [][Next]_vars
FairSpec == Spec /\ Fairness

-----------------------------------------------------------------------------
(* Values of the variables.                                                *)
TypeOK ==
  /\ pending \subseteq Requests
  /\ queue \in Seq(Requests)
  /\ active \in Requests \cup {None}
  /\ live \in BOOLEAN
  /\ arrival \in [Requests -> Nat]
  /\ age \in [Requests -> 0..Timeout] /\ shown \in [Requests -> 0..Timeout]
  /\ decision \in [Requests -> Decision \cup {"none"}]
  /\ by \in [Requests -> {"nobody", "user", "timer", "dispose"}]
  /\ inbox \in Seq(Requests)
  /\ dialog \in Requests \cup {None} /\ reply \in Requests \cup {None}
  /\ chosen \in [Requests -> Decision \cup {"none"}]

(* The three structures agree: what is pending is the active plan and the  *)
(* queued ones, each once, in the order in which they were requested.  In  *)
(* particular the active plan still has a timer and a promise: otherwise   *)
(* settle() would ignore every answer to it, nothing would clear `active', *)
(* and no later plan would be sent.                                        *)
PendingIsActiveThenQueued ==
  /\ pending = Elements(queue) \cup ({active} \ {None})
  /\ \A i \in 1..Len(queue) : active # None /\ arrival[active] < arrival[queue[i]]
  /\ \A i, j \in 1..Len(queue) : i < j => arrival[queue[i]] < arrival[queue[j]]

(* The user is asked about one undecided plan at a time: any other plan on *)
(* the way to the screen, or on it, has already been settled.              *)
OneUndecidedOnScreen ==
  \A p \in pending :
    p \in Elements(inbox) \cup {dialog, reply} => p = active

(* An answer settles the plan it was given for, with the decision taken:   *)
(* approving a plan that timed out never approves the one shown after it.  *)
AnswerSettlesItsPlan ==
  \A p \in Requests : by[p] = "user" => decision[p] = chosen[p]

(* request() resolves once.                                                *)
SettledOnce ==
  [][\A p \in Requests :
       by[p] # "nobody" => by'[p] = by[p] /\ decision'[p] = decision[p]]_vars

(* Every review is settled, however the user behaves.                      *)
EveryReviewSettles ==
  \A p \in Requests : p \in pending ~> by[p] # "nobody"

(* The class comment's example: a plan queued behind another one is sent   *)
(* after the first answer and the "user has 5 minutes" for it.             *)
FullReviewTime ==
  \A p \in Requests : by[p] = "timer" => shown[p] = Timeout
=============================================================================
