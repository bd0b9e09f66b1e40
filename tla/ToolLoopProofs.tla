----------------------------- MODULE ToolLoopProofs -----------------------------
(***************************************************************************)
(* Safety of the tool-call loop for every set of files, every set of       *)
(* responses a model may give and every limit.                             *)
(*                                                                         *)
(* LoopInv strengthens the properties of ToolLoop by what relates them:    *)
(* the calls of a response are in three parts, those whose results are in  *)
(* the history, a run of calls of which some have settled, and those that  *)
(* were not begun (CallsInv); the registry the calls were looked up in     *)
(* only ever grows (PlanInv); and a loop that has touched a file knows     *)
(* that it executed a tool (EvidenceInv).                                  *)
(***************************************************************************)
EXTENDS ToolLoop, SequenceTheorems, TLAPS

(* There is always room for the iteration and the streak under way.        *)
CountersInv ==
  outcome = "running" =>
    /\ unproductiveStreak < MaxUnproductive
    /\ awaiting # "head" => iteration < MaxIterations

(* The calls of a response, in order: answered, of the run that is being   *)
(* executed, not begun.  Several calls are in a run only if all are reads. *)
CallsInv ==
  /\ \A k \in 1..Len(answered) : answered[k] = k
  /\ outcome = "running" /\ running = {} => Len(answered) = next - 1
  /\ outcome = "running" /\ running # {} => awaiting = "tools"
  /\ running # {} => Len(answered) < next - 1
  /\ \A i \in running : Len(answered) < i
  /\ \A i \in running : IsKnown(i)
  /\ running # {} => \/ Len(answered) + 1 = next - 1
                     \/ \A i \in (Len(answered) + 1)..(next - 1) : IsRead(i)

(* The tools a model is offered never become fewer, and nothing is changed *)
(* in plan mode.                                                           *)
PlanInv ==
  /\ unlocked => planApproved
  /\ role = "worker" => unlocked
  /\ written # {} \/ verifyCommandPassed => unlocked

(* A loop that has not executed a call has neither read nor written.       *)
EvidenceInv ==
  /\ outcome = "running" /\ ~toolsExecuted /\ (awaiting = "tools" => ~executed)
       => read = {} /\ written = {}
  /\ CompletionIsGated

LoopInv == TypeOK /\ CountersInv /\ CallsInv /\ PlanInv /\ EvidenceInv


-----------------------------------------------------------------------------
(* A call of one of the file tools names a file.                           *)
LEMMA CallNamesFile ==
  ASSUME NEW call \in Call, call.tool \in FileTools
  PROVE  call.file \in Files
BY DEF Call, FileTools, OtherTools

(* Record completes the history: with the results of the calls before n    *)
(* appended to those it has, the history has the calls up to n in order.   *)
LEMMA RecordedInOrder ==
  ASSUME NEW n \in Nat, NEW L \in Nat, n - 1 <= L, NEW s \in Seq(1..L), Len(s) <= n - 1,
         \A k \in 1..Len(s) : s[k] = k
  PROVE  LET t == s \o [k \in 1..(n - 1 - Len(s)) |-> Len(s) + k]
         IN  t \in Seq(1..L) /\ Len(t) = n - 1 /\ \A k \in 1..(n - 1) : t[k] = k
<1> DEFINE m == n - 1 - Len(s)
           r == [k \in 1..m |-> Len(s) + k]
           t == s \o r
<1>1. Len(s) \in Nat /\ m \in Nat
  OBVIOUS
<1>2. r \in Seq(1..L) /\ Len(r) = m
  <2>1. \A k \in 1..m : Len(s) + k \in 1..L
    BY <1>1
  <2>2. r \in [1..m -> 1..L]
    BY <2>1
  <2>. QED
    BY <1>1, <2>2, LenProperties
<1>3. t \in Seq(1..L) /\ Len(t) = n - 1
  BY <1>1, <1>2, ConcatProperties
<1>4. ASSUME NEW k \in 1..(n - 1)
      PROVE  t[k] = k
  <2>1. CASE k <= Len(s)
    BY <2>1, <1>1, <1>2, ConcatProperties
  <2>2. CASE k > Len(s)
    <3>1. k - Len(s) \in 1..m
      BY <2>2, <1>1
    <3>2. t[k] = r[k - Len(s)]
      BY <2>2, <1>1, <1>2, ConcatProperties
    <3>. QED
      BY <3>1, <3>2, <1>1
  <2>. QED
    BY <2>1, <2>2, <1>1
<1>. QED
  BY <1>3, <1>4

-----------------------------------------------------------------------------
(* The invariant holds in every state of the loop, whatever the model asks *)
(* for, however the calls of a response interleave and whenever the user   *)
(* cancels.                                                                *)
THEOREM LoopInvariant == Spec => []LoopInv
<1>1. Init => LoopInv
  <2>. SUFFICES ASSUME Init
                PROVE  LoopInv
    OBVIOUS
  <2>1. TypeOK
    <3>1. response \in Seq(Call) /\ answered \in Seq(1..Len(response)) /\ Len(response) = 0
      BY EmptySeq DEF Init
    <3>2. planApproved \in BOOLEAN /\ unlocked \in BOOLEAN /\ checklist \in {"none", "open", "closed"}
      BY DEF Init
    <3>3. /\ Len(response) <= MaxCalls
          /\ next \in 1..(Len(response) + 1) /\ running \subseteq 1..(next - 1)
      BY <3>1, LoopAssumption DEF Init
    <3>4. iteration \in 0..MaxIterations /\ unproductiveStreak \in 0..MaxUnproductive
      BY LoopAssumption DEF Init
    <3>. QED
      BY <3>1, <3>2, <3>3, <3>4 DEF Init, TypeOK, Outcome
  <2>2. CountersInv /\ CallsInv
    BY LoopAssumption DEF Init, CountersInv, CallsInv
  <2>3. PlanInv /\ EvidenceInv
    BY DEF Init, PlanInv, EvidenceInv, CompletionIsGated
  <2>. QED
    BY <2>1, <2>2, <2>3 DEF LoopInv
<1>2. LoopInv /\ [Next]_vars => LoopInv'
  <2>. SUFFICES ASSUME LoopInv, [Next]_vars
               PROVE  LoopInv'
    OBVIOUS
  <2>. USE LoopAssumption DEF LoopInv
  <2>1. CASE Abort
    <3>1. TypeOK'
      BY <2>1
         DEF Abort, TypeOK, CountersInv, Outcome, vars, plan, trackers, counters, batch
    <3>2. CountersInv'
      BY <2>1 DEF Abort, TypeOK, CountersInv, vars, plan, trackers, counters, batch
    <3>3. CallsInv'
      BY <2>1
         DEF Abort, TypeOK, CallsInv, IsKnown, IsRead, ActiveRegistry, vars, plan,
             trackers, counters, batch
    <3>4. PlanInv'
      BY <2>1
         DEF Abort, TypeOK, CallsInv, PlanInv, vars, plan, trackers, counters, batch
    <3>5. EvidenceInv'
      BY <2>1
         DEF Abort, TypeOK, CallsInv, PlanInv, EvidenceInv, CompletionIsGated, vars,
             plan, trackers, counters, batch
    <3>. QED
      BY <3>1, <3>2, <3>3, <3>4, <3>5
  <2>2. CASE CallModel
    <3>1. TypeOK'
      BY <2>2
         DEF CallModel, TypeOK, CountersInv, Outcome, vars, plan, trackers, counters,
             batch
    <3>2. CountersInv'
      BY <2>2 DEF CallModel, TypeOK, CountersInv, vars, plan, trackers, counters, batch
    <3>3. CallsInv'
      BY <2>2
         DEF CallModel, TypeOK, CallsInv, IsKnown, IsRead, ActiveRegistry, vars, plan,
             trackers, counters, batch
    <3>4. PlanInv'
      BY <2>2
         DEF CallModel, TypeOK, CallsInv, PlanInv, vars, plan, trackers, counters, batch
    <3>5. EvidenceInv'
      BY <2>2
         DEF CallModel, TypeOK, CallsInv, PlanInv, EvidenceInv, CompletionIsGated, vars,
             plan, trackers, counters, batch
    <3>. QED
      BY <3>1, <3>2, <3>3, <3>4, <3>5
  <2>3. CASE Ceiling
    <3>1. TypeOK'
      BY <2>3
         DEF Ceiling, End, TypeOK, CountersInv, Outcome, vars, plan, trackers, counters,
             batch
    <3>2. CountersInv'
      BY <2>3
         DEF Ceiling, End, TypeOK, CountersInv, vars, plan, trackers, counters, batch
    <3>3. CallsInv'
      BY <2>3
         DEF Ceiling, End, TypeOK, CallsInv, IsKnown, IsRead, ActiveRegistry, vars,
             plan, trackers, counters, batch
    <3>4. PlanInv'
      BY <2>3
         DEF Ceiling, End, TypeOK, CallsInv, PlanInv, vars, plan, trackers, counters,
             batch
    <3>5. EvidenceInv'
      BY <2>3
         DEF Ceiling, End, TypeOK, CallsInv, PlanInv, EvidenceInv, CompletionIsGated,
             vars, plan, trackers, counters, batch
    <3>. QED
      BY <3>1, <3>2, <3>3, <3>4, <3>5
  <2>4. CASE Throw
    <3>1. TypeOK'
      BY <2>4
         DEF Throw, End, TypeOK, CountersInv, Outcome, vars, plan, trackers, counters,
             batch
    <3>2. CountersInv'
      BY <2>4 DEF Throw, End, TypeOK, CountersInv, vars, plan, trackers, counters, batch
    <3>3. CallsInv'
      BY <2>4
         DEF Throw, End, TypeOK, CallsInv, IsKnown, IsRead, ActiveRegistry, vars, plan,
             trackers, counters, batch
    <3>4. PlanInv'
      BY <2>4
         DEF Throw, End, TypeOK, CallsInv, PlanInv, vars, plan, trackers, counters,
             batch
    <3>5. EvidenceInv'
      BY <2>4
         DEF Throw, End, TypeOK, CallsInv, PlanInv, EvidenceInv, CompletionIsGated,
             vars, plan, trackers, counters, batch
    <3>. QED
      BY <3>1, <3>2, <3>3, <3>4, <3>5
  <2>5. CASE ModelReplies
    <3>1. TypeOK'
      BY <2>5
         DEF ModelReplies, ReplyIsFinal, CompletionGap, UnverifiedWriteGap, Continue,
             End, TypeOK, CountersInv, Outcome, vars, plan, trackers, counters, batch
    <3>2. CountersInv'
      BY <2>5
         DEF ModelReplies, ReplyIsFinal, CompletionGap, UnverifiedWriteGap, Continue,
             End, TypeOK, CountersInv, vars, plan, trackers, counters, batch
    <3>3. CallsInv'
      BY <2>5
         DEF ModelReplies, ReplyIsFinal, CompletionGap, UnverifiedWriteGap, Continue,
             End, TypeOK, CallsInv, IsKnown, IsRead, ActiveRegistry, vars, plan,
             trackers, counters, batch
    <3>4. PlanInv'
      BY <2>5
         DEF ModelReplies, ReplyIsFinal, CompletionGap, UnverifiedWriteGap, Continue,
             End, TypeOK, CallsInv, PlanInv, vars, plan, trackers, counters, batch
    <3>5. EvidenceInv'
      BY <2>5
         DEF ModelReplies, ReplyIsFinal, CompletionGap, UnverifiedWriteGap, Continue,
             End, TypeOK, CallsInv, PlanInv, EvidenceInv, CompletionIsGated, vars, plan,
             trackers, counters, batch
    <3>. QED
      BY <3>1, <3>2, <3>3, <3>4, <3>5
  <2>6. CASE ModelIsMalformed
    <3>1. TypeOK'
      BY <2>6
         DEF ModelIsMalformed, Continue, End, TypeOK, CountersInv, Outcome, vars, plan,
             trackers, counters, batch
    <3>2. CountersInv'
      BY <2>6
         DEF ModelIsMalformed, Continue, End, TypeOK, CountersInv, vars, plan, trackers,
             counters, batch
    <3>3. CallsInv'
      BY <2>6
         DEF ModelIsMalformed, Continue, End, TypeOK, CallsInv, IsKnown, IsRead,
             ActiveRegistry, vars, plan, trackers, counters, batch
    <3>4. PlanInv'
      BY <2>6
         DEF ModelIsMalformed, Continue, End, TypeOK, CallsInv, PlanInv, vars, plan,
             trackers, counters, batch
    <3>5. EvidenceInv'
      BY <2>6
         DEF ModelIsMalformed, Continue, End, TypeOK, CallsInv, PlanInv, EvidenceInv,
             CompletionIsGated, vars, plan, trackers, counters, batch
    <3>. QED
      BY <3>1, <3>2, <3>3, <3>4, <3>5
  <2>7. ASSUME NEW calls \in Responses, ModelCalls(calls)
        PROVE  LoopInv'
    <3>1. TypeOK'
      <4>1. calls \in Seq(Call) /\ Len(calls) \in Nat
        BY LenProperties
      <4>2. response' \in Seq(Call) /\ Len(response') \in 0..MaxCalls
        BY <2>7, <4>1, SubSeqProperties, ElementOfSeq DEF ModelCalls
      <4>3. answered' \in Seq(1..Len(response'))
        BY <2>7, EmptySeq DEF ModelCalls
      <4>4. /\ Len(response') <= MaxCalls
            /\ next' \in 1..(Len(response') + 1) /\ running' \subseteq 1..(next' - 1)
        BY <2>7, <4>2 DEF ModelCalls
      <4>. QED
        BY <2>7, <4>2, <4>3, <4>4 DEF ModelCalls, TypeOK, plan, trackers, counters
    <3>2. CountersInv'
      BY <2>7 DEF ModelCalls, TypeOK, CountersInv, vars, plan, trackers, counters, batch
    <3>3. CallsInv'
      BY <2>7
         DEF ModelCalls, TypeOK, CallsInv, IsKnown, IsRead, ActiveRegistry, vars, plan,
             trackers, counters, batch
    <3>4. PlanInv'
      BY <2>7
         DEF ModelCalls, TypeOK, CallsInv, PlanInv, vars, plan, trackers, counters,
             batch
    <3>5. EvidenceInv'
      BY <2>7
         DEF ModelCalls, TypeOK, CallsInv, PlanInv, EvidenceInv, CompletionIsGated,
             vars, plan, trackers, counters, batch
    <3>. QED
      BY <3>1, <3>2, <3>3, <3>4, <3>5
  <2>8. CASE SkipUnknown
    <3>1. TypeOK'
      BY <2>8
         DEF SkipUnknown, CanBegin, Settled, TypeOK, CountersInv, Outcome, vars, plan,
             trackers, counters, batch
    <3>2. CountersInv'
      BY <2>8
         DEF SkipUnknown, CanBegin, Settled, TypeOK, CountersInv, vars, plan, trackers,
             counters, batch
    <3>3. CallsInv'
      BY <2>8
         DEF SkipUnknown, CanBegin, Settled, TypeOK, CallsInv, IsKnown, IsRead,
             ActiveRegistry, vars, plan, trackers, counters, batch
    <3>4. PlanInv'
      BY <2>8
         DEF SkipUnknown, CanBegin, Settled, TypeOK, CallsInv, PlanInv, vars, plan,
             trackers, counters, batch
    <3>5. EvidenceInv'
      BY <2>8
         DEF SkipUnknown, CanBegin, Settled, TypeOK, CallsInv, PlanInv, EvidenceInv,
             CompletionIsGated, vars, plan, trackers, counters, batch
    <3>. QED
      BY <3>1, <3>2, <3>3, <3>4, <3>5
  <2>9. CASE BeginRun
    <3>1. TypeOK'
      BY <2>9
         DEF BeginRun, CanBegin, Settled, IsRun, TypeOK, CountersInv, Outcome, vars,
             plan, trackers, counters, batch
    <3>2. CountersInv'
      BY <2>9
         DEF BeginRun, CanBegin, Settled, IsRun, TypeOK, CountersInv, vars, plan,
             trackers, counters, batch
    <3>3. CallsInv'
      <4>1. PICK last \in next..Len(response) :
              IsRun(last) /\ running' = next..last /\ next' = last + 1
        BY <2>9 DEF BeginRun
      <4>2. /\ outcome = "running" /\ awaiting = "tools" /\ running = {}
            /\ IsKnown(next)
            /\ UNCHANGED <<role, unlocked, outcome, awaiting, response, answered>>
        BY <2>9 DEF BeginRun, CanBegin, Settled, plan, trackers, counters
      <4>3. next \in Nat /\ Len(answered) \in Nat /\ Len(response) \in Nat /\ last \in Nat
        BY <4>1 DEF TypeOK
      <4>4. Len(answered) = next - 1
        BY <4>2 DEF CallsInv
      <4>5. \A k \in 1..Len(answered') : answered'[k] = k
        BY <4>2 DEF CallsInv
      <4>6. running' # {} /\ Len(answered') < next' - 1 /\ Len(answered') + 1 = next
        <5>1. next \in running' /\ last >= next
          BY <4>1, <4>3
        <5>2. answered' = answered /\ next' = last + 1
          BY <4>1, <4>2
        <5>. QED
          BY <4>3, <4>4, <5>1, <5>2
      <4>7. \A i \in running' : Len(answered') < i
        BY <4>1, <4>2, <4>3, <4>4
      <4>8. /\ \A i : IsKnown(i)' <=> IsKnown(i)
            /\ \A i : IsRead(i)' <=> IsRead(i)
        BY <4>2 DEF IsKnown, IsRead, ActiveRegistry
      <4>9. \/ last = next
            \/ \A i \in next..last : IsKnown(i) /\ IsRead(i)
        BY <4>1, <4>2 DEF IsRun, IsRead
      <4>10. \A i \in running' : IsKnown(i)'
        BY <4>1, <4>2, <4>3, <4>8, <4>9
      <4>11. \/ Len(answered') + 1 = next' - 1
             \/ \A i \in (Len(answered') + 1)..(next' - 1) : IsRead(i)'
        BY <4>1, <4>3, <4>6, <4>8, <4>9
      <4>. QED
        BY <4>2, <4>5, <4>6, <4>7, <4>10, <4>11 DEF CallsInv
    <3>4. PlanInv'
      BY <2>9
         DEF BeginRun, CanBegin, Settled, IsRun, TypeOK, CallsInv, PlanInv, vars, plan,
             trackers, counters, batch
    <3>5. EvidenceInv'
      BY <2>9
         DEF BeginRun, CanBegin, Settled, IsRun, TypeOK, CallsInv, PlanInv, EvidenceInv,
             CompletionIsGated, vars, plan, trackers, counters, batch
    <3>. QED
      BY <3>1, <3>2, <3>3, <3>4, <3>5
  <2>10. ASSUME NEW i \in running, CallSettles(i)
        PROVE  LoopInv'
    <3>1. response[i] \in Call /\ next \in Nat /\ Len(answered) \in Nat
      BY DEF TypeOK, CallsInv
    <3>2. running' = running \ {i} /\ UNCHANGED <<response, next, role, unlocked, outcome, awaiting>>
      BY <2>10 DEF CallSettles, Record
    <3>3. /\ answered' \in Seq(1..Len(response))
          /\ Len(answered') = IF running = {i} THEN next - 1 ELSE Len(answered)
          /\ \A k \in 1..Len(answered') : answered'[k] = k
      <4>1. CASE running = {i}
        <5>. DEFINE t == answered \o [k \in 1..(next - 1 - Len(answered)) |-> Len(answered) + k]
        <5>1. answered' = t
          BY <2>10, <4>1 DEF CallSettles, Record
        <5>2. /\ next - 1 <= Len(response) /\ Len(response) \in Nat
              /\ Len(answered) <= next - 1
              /\ answered \in Seq(1..Len(response))
              /\ \A k \in 1..Len(answered) : answered[k] = k
          BY <4>1 DEF TypeOK, CallsInv
        <5>3. t \in Seq(1..Len(response)) /\ Len(t) = next - 1 /\ \A k \in 1..(next - 1) : t[k] = k
          BY <3>1, <5>2, RecordedInOrder
        <5>. QED
          BY <4>1, <5>1, <5>3
      <4>2. CASE running # {i}
        BY <2>10, <4>2 DEF CallSettles, Record, TypeOK, CallsInv
      <4>. QED
        BY <4>1, <4>2
    <3>4. /\ read' \subseteq Files /\ written' \subseteq Files
          /\ verified' \subseteq written' /\ confirmed' \subseteq written'
          /\ verifyCommandPassed' \in BOOLEAN
          /\ planApproved' \in BOOLEAN /\ (planApproved => planApproved')
          /\ checklist' \in {"none", "open", "closed"}
          /\ written' # {} \/ verifyCommandPassed' => unlocked
      <4>1. CASE UNCHANGED <<trackers, plan>>
        BY <4>1 DEF trackers, plan, TypeOK, PlanInv
      <4>2. CASE Tracks(response[i]) /\ UNCHANGED plan
        <5>1. read' \subseteq Files /\ written' \subseteq Files
          BY <3>1, <4>2, CallNamesFile
             DEF Tracks, ReadFile, WriteFile, VerifyCommand, FileTools, TypeOK
        <5>2. /\ verified' \subseteq written' /\ confirmed' \subseteq written'
              /\ verifyCommandPassed' \in BOOLEAN
          BY <4>2 DEF Tracks, ReadFile, WriteFile, VerifyCommand, TypeOK
        <5>3. written' # {} \/ verifyCommandPassed' => unlocked
          BY <4>2
             DEF Tracks, ReadFile, WriteFile, VerifyCommand, PlanInv, CallsInv, IsKnown,
                      ActiveRegistry, PlanModeTools
        <5>. QED
          BY <4>2, <5>1, <5>2, <5>3 DEF plan, TypeOK
      <4>3. CASE Plans(response[i]) /\ UNCHANGED trackers
        BY <4>3 DEF Plans, trackers, TypeOK, PlanInv
      <4>. QED
        BY <2>10, <4>1, <4>2, <4>3 DEF CallSettles
    <3>5. TypeOK'
      BY <2>10, <3>1, <3>2, <3>3, <3>4 DEF CallSettles, Record, TypeOK, counters
    <3>6. CountersInv'
      BY <2>10 DEF CallSettles, CountersInv, counters
    <3>7. CallsInv'
      BY <3>1, <3>2, <3>3 DEF TypeOK, CallsInv, IsKnown, IsRead, ActiveRegistry
    <3>8. PlanInv'
      BY <3>2, <3>4 DEF PlanInv
    <3>9. EvidenceInv'
      BY <2>10, <3>2
         DEF CallSettles, Record, CallsInv, EvidenceInv, CompletionIsGated, counters
    <3>. QED
      BY <3>5, <3>6, <3>7, <3>8, <3>9
  <2>11. ASSUME NEW i \in running, CallEndsTurn(i)
        PROVE  LoopInv'
    <3>1. TypeOK'
      BY <2>11
         DEF CallEndsTurn, End, UnverifiedWriteGap, TypeOK, CountersInv, Outcome, vars,
             plan, trackers, counters, batch
    <3>2. CountersInv'
      BY <2>11
         DEF CallEndsTurn, End, UnverifiedWriteGap, TypeOK, CountersInv, vars, plan,
             trackers, counters, batch
    <3>3. CallsInv'
      BY <2>11
         DEF CallEndsTurn, End, UnverifiedWriteGap, TypeOK, CallsInv, IsKnown, IsRead,
             ActiveRegistry, vars, plan, trackers, counters, batch
    <3>4. PlanInv'
      BY <2>11
         DEF CallEndsTurn, End, UnverifiedWriteGap, TypeOK, CallsInv, PlanInv, vars,
             plan, trackers, counters, batch
    <3>5. EvidenceInv'
      BY <2>11
         DEF CallEndsTurn, End, UnverifiedWriteGap, TypeOK, CallsInv, PlanInv,
             EvidenceInv, CompletionIsGated, vars, plan, trackers, counters, batch
    <3>. QED
      BY <3>1, <3>2, <3>3, <3>4, <3>5
  <2>12. CASE EndIteration
    <3>1. TypeOK'
      BY <2>12
         DEF EndIteration, Settled, Continue, End, TypeOK, CountersInv, Outcome, vars,
             plan, trackers, counters, batch
    <3>2. CountersInv'
      BY <2>12
         DEF EndIteration, Settled, Continue, End, TypeOK, CountersInv, vars, plan,
             trackers, counters, batch
    <3>3. CallsInv'
      BY <2>12
         DEF EndIteration, Settled, Continue, End, TypeOK, CallsInv, IsKnown, IsRead,
             ActiveRegistry, vars, plan, trackers, counters, batch
    <3>4. PlanInv'
      BY <2>12
         DEF EndIteration, Settled, Continue, End, TypeOK, CallsInv, PlanInv, vars,
             plan, trackers, counters, batch
    <3>5. EvidenceInv'
      BY <2>12
         DEF EndIteration, Settled, Continue, End, TypeOK, CallsInv, PlanInv,
             EvidenceInv, CompletionIsGated, vars, plan, trackers, counters, batch
    <3>. QED
      BY <3>1, <3>2, <3>3, <3>4, <3>5
  <2>13. CASE UNCHANGED vars
    BY <2>13
       DEF vars, plan, trackers, counters, batch, TypeOK, CountersInv, CallsInv,
           PlanInv,
                 EvidenceInv, CompletionIsGated, IsKnown, IsRead, ActiveRegistry
  <2>. QED
    BY <2>1, <2>2, <2>3, <2>4, <2>5, <2>6, <2>7, <2>8, <2>9, <2>10, <2>11, <2>12, <2>13
       DEF Next, Step
<1>. QED
  BY <1>1, <1>2, PTL DEF Spec

(* The values of the variables: in particular the iterations and the       *)
(* streak never pass their limits, and no file counts as verified that was *)
(* not written.                                                            *)
THEOREM TypeCorrect == Spec => []TypeOK
<1>1. LoopInv => TypeOK
  BY DEF LoopInv
<1>. QED
  BY <1>1, LoopInvariant, PTL

(* Nothing is changed before the user approved a plan: a call that changes *)
(* something was looked up in the registry of a model that was called      *)
(* after the approval.                                                     *)
THEOREM PlanModeIsRespected == Spec => []PlanModeGate
<1>1. LoopInv => PlanModeGate
  <2>. SUFFICES ASSUME LoopInv, written # {} \/ verifyCommandPassed
                                  \/ (\E i \in running : Mutates(response[i].tool))
                PROVE  unlocked /\ planApproved
    BY DEF PlanModeGate
  <2>1. CASE written # {} \/ verifyCommandPassed
    BY <2>1 DEF LoopInv, PlanInv
  <2>2. ASSUME NEW i \in running, Mutates(response[i].tool)
        PROVE  unlocked
    <3>1. response[i].tool \in ActiveRegistry
      BY DEF LoopInv, CallsInv, IsKnown
    <3>. QED
      BY <2>2, <3>1 DEF Mutates, ActiveRegistry, PlanModeTools, LoopInv, PlanInv
  <2>. QED
    BY <2>1, <2>2 DEF LoopInv, PlanInv
<1>. QED
  BY <1>1, LoopInvariant, PTL

(* No turn ends well with an unverified write or with an open checklist it *)
(* worked on.                                                              *)
THEOREM CompletionGateHolds == Spec => []CompletionIsGated
<1>1. LoopInv => CompletionIsGated
  BY DEF LoopInv, EvidenceInv
<1>. QED
  BY <1>1, LoopInvariant, PTL

(* The history has the results in the model's order, each of them once,    *)
(* however long a run of concurrent reads is and however its calls settle. *)
THEOREM HistoryIsInCallOrder == Spec => []HistoryInCallOrder
<1>1. LoopInv => HistoryInCallOrder
  BY DEF LoopInv, CallsInv, HistoryInCallOrder
<1>. QED
  BY <1>1, LoopInvariant, PTL

(* A call that is no read runs alone, when every call before it was        *)
(* answered: two of the calls in flight are always reads.                  *)
THEOREM MutationsRunAlone == Spec => []MutationsWait
<1>1. LoopInv => MutationsWait
  <2>. SUFFICES ASSUME LoopInv, NEW i \in running, ~IsToolReadOnly(response[i].tool)
                PROVE  running = {i} /\ Len(answered) = i - 1
    BY DEF MutationsWait
  <2>1. /\ next \in Nat /\ Len(answered) \in Nat
        /\ running \subseteq (Len(answered) + 1)..(next - 1)
    BY DEF LoopInv, TypeOK, CallsInv
  <2>2. ~IsRead(i)
    BY DEF IsRead, IsToolReadOnly
  <2>3. Len(answered) + 1 = next - 1
    BY <2>1, <2>2 DEF LoopInv, CallsInv
  <2>4. \A j \in running : j = Len(answered) + 1
    BY <2>1, <2>3
  <2>5. running = {i}
    BY <2>4
  <2>. QED
    BY <2>1, <2>4, <2>5
<1>. QED
  BY <1>1, LoopInvariant, PTL
=============================================================================
