----------------------- MODULE PlanReviewBrokerProofs -----------------------
(***************************************************************************)
(* Safety of the plan review broker for any set of reviews, any timeout    *)
(* and any behaviour of the user.  The heart of it is that a timer never   *)
(* expires for a queued plan while another one is on the screen: timers    *)
(* run in the order of the requests, and the active plan was requested     *)
(* before all queued ones.                                                 *)
(***************************************************************************)
EXTENDS PlanReviewBroker, FiniteSetTheorems, TLAPS

(* The broker's structures, possibly between a settle and its flush.       *)
QueueInv(pend, q, a, arr) ==
  /\ pend \subseteq Requests
  /\ q \in Seq(Requests)
  /\ a \in Requests \cup {None}
  /\ pend = Elements(q) \cup ({a} \ {None})
  /\ \A i \in 1..Len(q) : a # None => arr[a] < arr[q[i]]
  /\ \A i, j \in 1..Len(q) : i < j => arr[q[i]] < arr[q[j]]

(* What is on the way to the screen, on it, or on the way back.            *)
ScreenInv(pend, a, arr, who, ib, dlg, rep) ==
  /\ ib \in Seq(Requests)
  /\ dlg \in Requests \cup {None} /\ rep \in Requests \cup {None}
  /\ \A p \in pend : p \in Elements(ib) \cup {dlg, rep} => p = a
  /\ \A i \in 1..Len(ib) : arr[ib[i]] # 0 /\ who[ib[i]] # "user" /\ ib[i] # dlg
  /\ \A i, j \in 1..Len(ib) : i # j => ib[i] # ib[j]
  /\ rep # None => rep = dlg
  /\ dlg # None => arr[dlg] # 0
  /\ dlg # None /\ rep = None => who[dlg] # "user"

(* The reviews: what is pending was requested and is not settled.          *)
RequestInv(pend, arr, dec, who, cho) ==
  /\ arr \in [Requests -> Nat]
  /\ dec \in [Requests -> Decision \cup {"none"}]
  /\ who \in [Requests -> {"nobody", "user", "timer", "dispose"}]
  /\ cho \in [Requests -> Decision \cup {"none"}]
  /\ \A p \in Requests : arr[p] <= Cardinality({r \in Requests : arr[r] # 0})
  /\ \A p \in pend : arr[p] # 0 /\ who[p] = "nobody"
  /\ \A p \in Requests : arr[p] = 0 => who[p] = "nobody"
  /\ \A p \in Requests : who[p] = "user" => dec[p] = cho[p]

ClockInv(ag, sh) ==
  ag \in [Requests -> 0..Timeout] /\ sh \in [Requests -> 0..Timeout]

IInv ==
  /\ QueueInv(pending, queue, active, arrival)
  /\ active = None => queue = <<>>
  /\ ScreenInv(pending, active, arrival, by, inbox, dialog, reply)
  /\ RequestInv(pending, arrival, decision, by, chosen)
  /\ ClockInv(age, shown)
  /\ live \in BOOLEAN
  /\ reply # None => chosen[reply] \in Decision

(* What is pending was requested and is not settled.                       *)
OpenInv(pend, arr, who) ==
  /\ arr \in [Requests -> Nat]
  /\ \A p \in pend : arr[p] # 0 /\ who[p] = "nobody"

(* flush() as a relation between constants.                                *)
FlushStep(q, a, ib, q2, a2, ib2) ==
  IF a # None \/ q = <<>>
  THEN q2 = q /\ a2 = a /\ ib2 = ib
  ELSE q2 = Tail(q) /\ a2 = Head(q) /\ ib2 \in {ib, Append(ib, Head(q))}

(* settle() of the active plan p by w, and request() of a new plan p,      *)
(* likewise.                                                               *)
SettleStep(p, d, w, pend, q, ib, dec, who, pend2, q2, a2, ib2, dec2, who2) ==
  /\ pend2 = pend \ {p}
  /\ dec2 = [dec EXCEPT ![p] = d]
  /\ who2 = [who EXCEPT ![p] = w]
  /\ FlushStep(q, None, ib, q2, a2, ib2)

RequestStep(p, pend, q, a, arr, ib, pend2, q2, a2, arr2, ib2) ==
  /\ arr[p] = 0
  /\ arr2 = [arr EXCEPT ![p] = 1 + Cardinality({r \in Requests : arr[r] # 0})]
  /\ pend2 = pend \cup {p}
  /\ FlushStep(Append(q, p), a, ib, q2, a2, ib2)

(* d is what the user, if w is the user, chose for p, and p left the       *)
(* screen.                                                                 *)
IsAnswer(p, d, w, cho, ib, dlg) ==
  /\ d \in Decision
  /\ w \in {"user", "timer"}
  /\ w = "user" => d = cho[p] /\ p \notin Elements(ib) /\ p # dlg

(* A sequence has the elements of its head and of its tail.                *)
LEMMA ElementsOfTail ==
  ASSUME NEW s \in Seq(Requests), s # <<>>
  PROVE  /\ Elements(s) = {Head(s)} \cup Elements(Tail(s))
         /\ Head(s) \in Requests /\ Tail(s) \in Seq(Requests)
         /\ Len(Tail(s)) = Len(s) - 1 /\ Len(s) \in Nat \ {0}
         /\ \A i \in 1..Len(Tail(s)) : Tail(s)[i] = s[i + 1]
         /\ Head(s) = s[1]
<1>1. /\ Head(s) = s[1] /\ Len(s) \in Nat \ {0}
      /\ Tail(s) \in Seq(Requests) /\ Len(Tail(s)) = Len(s) - 1
      /\ \A i \in 1..Len(Tail(s)) : Tail(s)[i] = s[i + 1]
      /\ Head(s) \in Requests
  OBVIOUS
<1>2. ASSUME NEW i \in 1..Len(s) PROVE s[i] \in {Head(s)} \cup Elements(Tail(s))
  <2>1. CASE i = 1
    BY <1>1, <2>1
  <2>2. CASE i # 1
    <3>1. i - 1 \in 1..Len(Tail(s)) /\ Tail(s)[i - 1] = s[i]
      BY <1>1, <2>2
    <3>2. QED
      BY <3>1 DEF Elements
  <2>3. QED
    BY <2>1, <2>2
<1>3. ASSUME NEW i \in 1..Len(Tail(s)) PROVE Tail(s)[i] \in Elements(s)
  <2>1. i + 1 \in 1..Len(s) /\ Tail(s)[i] = s[i + 1]
    BY <1>1
  <2>2. QED
    BY <2>1 DEF Elements
<1>4. Head(s) \in Elements(s)
  BY <1>1 DEF Elements
<1>5. Elements(s) = {Head(s)} \cup Elements(Tail(s))
  BY <1>2, <1>3, <1>4 DEF Elements
<1>6. QED
  BY <1>1, <1>5

(* An appended element is one more element.                                *)
LEMMA ElementsOfAppend ==
  ASSUME NEW s \in Seq(Requests), NEW p \in Requests
  PROVE  /\ Append(s, p) \in Seq(Requests)
         /\ Elements(Append(s, p)) = Elements(s) \cup {p}
         /\ Len(Append(s, p)) = Len(s) + 1 /\ Len(s) \in Nat
         /\ \A i \in 1..Len(s) : Append(s, p)[i] = s[i]
         /\ Append(s, p)[Len(s) + 1] = p
<1>1. /\ Append(s, p) \in Seq(Requests)
      /\ Len(Append(s, p)) = Len(s) + 1 /\ Len(s) \in Nat
      /\ \A i \in 1..Len(s) : Append(s, p)[i] = s[i]
      /\ Append(s, p)[Len(s) + 1] = p
  OBVIOUS
<1>2. \A i \in 1..Len(s) + 1 : i \in 1..Len(s) \/ i = Len(s) + 1
  BY <1>1
<1>3. Elements(Append(s, p)) = Elements(s) \cup {p}
  BY <1>1, <1>2 DEF Elements
<1>4. QED
  BY <1>1, <1>3

-----------------------------------------------------------------------------
(* flush() restores "nothing active means nothing queued" and keeps the    *)
(* rest.                                                                   *)
LEMMA FlushInv ==
  ASSUME NEW pend, NEW q, NEW a, NEW arr, NEW who, NEW ib, NEW dlg, NEW rep,
         NEW q2, NEW a2, NEW ib2,
         OpenInv(pend, arr, who),
         QueueInv(pend, q, a, arr),
         ScreenInv(pend, a, arr, who, ib, dlg, rep),
         FlushStep(q, a, ib, q2, a2, ib2)
  PROVE  /\ QueueInv(pend, q2, a2, arr)
         /\ ScreenInv(pend, a2, arr, who, ib2, dlg, rep)
         /\ a2 = None => q2 = <<>>
<1>1. CASE a # None \/ q = <<>>
  BY <1>1 DEF FlushStep
<1>2. CASE a = None /\ q # <<>>
  <2> USE DEF OpenInv
  <2> DEFINE h == Head(q)
  <2>1. q2 = Tail(q) /\ a2 = h /\ ib2 \in {ib, Append(ib, h)}
    BY <1>2 DEF FlushStep
  <2>2. /\ q \in Seq(Requests) /\ pend = Elements(q)
        /\ pend \subseteq Requests /\ ib \in Seq(Requests)
    BY <1>2 DEF QueueInv, ScreenInv
  <2>3. /\ Elements(q) = {h} \cup Elements(Tail(q))
        /\ h \in Requests /\ Tail(q) \in Seq(Requests)
        /\ Len(Tail(q)) = Len(q) - 1 /\ Len(q) \in Nat \ {0}
        /\ \A i \in 1..Len(Tail(q)) : Tail(q)[i] = q[i + 1]
        /\ h = q[1]
    BY <1>2, <2>2, ElementsOfTail
  <2>5. h # None /\ h \in pend
    BY <2>2, <2>3, BrokerAssumption
  <2>6. \A p \in pend : p \notin Elements(ib) /\ p # dlg /\ p # rep
    BY <1>2, <2>2, BrokerAssumption DEF ScreenInv
  <2>7. QueueInv(pend, q2, a2, arr)
    <3>1. pend = Elements(q2) \cup ({a2} \ {None})
      BY <2>1, <2>2, <2>3, <2>5
    <3>2. \A i, j \in 1..Len(q2) : i < j => arr[q2[i]] < arr[q2[j]]
      BY <2>1, <2>3 DEF QueueInv
    <3>3. \A i \in 1..Len(q2) : arr[a2] < arr[q2[i]]
      BY <2>1, <2>3 DEF QueueInv
    <3>4. QED
      BY <2>1, <2>2, <2>3, <3>1, <3>2, <3>3 DEF QueueInv
  <2>8. ScreenInv(pend, a2, arr, who, ib2, dlg, rep)
    <3>1. CASE ib2 = ib
      BY <2>1, <2>6, <3>1 DEF ScreenInv
    <3>2. CASE ib2 = Append(ib, h)
      <4>1. /\ ib2 \in Seq(Requests)
            /\ Elements(ib2) = Elements(ib) \cup {h}
            /\ Len(ib2) = Len(ib) + 1 /\ Len(ib) \in Nat
            /\ \A i \in 1..Len(ib) : ib2[i] = ib[i]
            /\ ib2[Len(ib) + 1] = h
        BY <2>2, <2>3, <3>2, ElementsOfAppend
      <4>2. \A i \in 1..Len(ib2) : i \in 1..Len(ib) \/ i = Len(ib) + 1
        BY <4>1
      <4>3. \A i \in 1..Len(ib2) : /\ arr[ib2[i]] # 0
                                   /\ who[ib2[i]] # "user" /\ ib2[i] # dlg
        BY <2>5, <2>6, <4>1, <4>2 DEF ScreenInv
      <4>4. \A i \in 1..Len(ib) : ib[i] # h
        BY <2>5, <2>6 DEF Elements
      <4>5. \A i, j \in 1..Len(ib2) : i # j => ib2[i] # ib2[j]
        BY <4>1, <4>2, <4>4 DEF ScreenInv
      <4>6. \A p \in pend : p \in Elements(ib2) \cup {dlg, rep} => p = a2
        BY <2>1, <2>6, <4>1
      <4>7. QED
        BY <4>1, <4>3, <4>5, <4>6 DEF ScreenInv
    <3>3. QED
      BY <2>1, <3>1, <3>2
  <2>9. QED
    BY <2>1, <2>5, <2>7, <2>8
<1>3. QED
  BY <1>1, <1>2

(* settle() of the active plan p.                                          *)
LEMMA SettleInv ==
  ASSUME NEW pend, NEW q, NEW p \in pend, NEW arr, NEW dec, NEW who, NEW cho,
         NEW ib, NEW dlg, NEW rep, NEW d, NEW w,
         NEW pend2, NEW q2, NEW a2, NEW dec2, NEW who2, NEW ib2,
         QueueInv(pend, q, p, arr),
         ScreenInv(pend, p, arr, who, ib, dlg, rep),
         RequestInv(pend, arr, dec, who, cho),
         IsAnswer(p, d, w, cho, ib, dlg),
         SettleStep(p, d, w, pend, q, ib, dec, who, pend2, q2, a2, ib2, dec2, who2)
  PROVE  /\ QueueInv(pend2, q2, a2, arr)
         /\ a2 = None => q2 = <<>>
         /\ ScreenInv(pend2, a2, arr, who2, ib2, dlg, rep)
         /\ RequestInv(pend2, arr, dec2, who2, cho)
<1> USE DEF SettleStep, IsAnswer
<1>1. p \in Requests /\ p # None
  BY BrokerAssumption DEF QueueInv
<1>2. RequestInv(pend2, arr, dec2, who2, cho)
  BY <1>1 DEF RequestInv
<1>3. p \notin Elements(q)
  <2>1. /\ q \in Seq(Requests) /\ arr \in [Requests -> Nat]
        /\ \A i \in 1..Len(q) : arr[p] < arr[q[i]]
    BY <1>1 DEF QueueInv, RequestInv
  <2>2. \A i \in 1..Len(q) : q[i] \in Requests
    BY <2>1
  <2>3. QED
    BY <1>1, <2>1, <2>2 DEF Elements
<1>4. QueueInv(pend2, q, None, arr)
  BY <1>1, <1>3 DEF QueueInv
<1>5. ScreenInv(pend2, None, arr, who2, ib, dlg, rep)
  <2>1. \A i \in 1..Len(ib) : ib[i] \in Requests
    BY DEF ScreenInv
  <2>2. \A i \in 1..Len(ib) : who2[ib[i]] # "user"
    BY <1>1, <2>1 DEF ScreenInv, RequestInv, Elements
  <2>3. dlg # None /\ rep = None => who2[dlg] # "user"
    BY <1>1 DEF ScreenInv, RequestInv
  <2>4. \A r \in pend2 : r \notin Elements(ib) \cup {dlg, rep}
    BY DEF ScreenInv
  <2>5. QED
    BY <2>2, <2>3, <2>4 DEF ScreenInv
<1>6. OpenInv(pend2, arr, who2)
  BY <1>2 DEF RequestInv, OpenInv
<1>7. QED
  BY <1>2, <1>4, <1>5, <1>6, FlushInv

(* request() of a plan p that was not requested before.                    *)
LEMMA RequestStepInv ==
  ASSUME NEW pend, NEW q, NEW a, NEW p \in Requests, NEW arr, NEW dec, NEW who,
         NEW cho, NEW ib, NEW dlg, NEW rep,
         NEW pend2, NEW q2, NEW a2, NEW arr2, NEW ib2,
         QueueInv(pend, q, a, arr),
         ScreenInv(pend, a, arr, who, ib, dlg, rep),
         RequestInv(pend, arr, dec, who, cho),
         RequestStep(p, pend, q, a, arr, ib, pend2, q2, a2, arr2, ib2)
  PROVE  /\ QueueInv(pend2, q2, a2, arr2)
         /\ a2 = None => q2 = <<>>
         /\ ScreenInv(pend2, a2, arr2, who, ib2, dlg, rep)
         /\ RequestInv(pend2, arr2, dec, who, cho)
<1> USE DEF RequestStep
<1> DEFINE old == {r \in Requests : arr[r] # 0}
           new == {r \in Requests : arr2[r] # 0}
           n == Cardinality(old)
           q1 == Append(q, p)
<1>1. IsFiniteSet(old) /\ n \in Nat
  <2>1. IsFiniteSet(old)
    BY BrokerAssumption, FS_Subset
  <2>2. QED
    BY <2>1, FS_CardinalityType
<1>2. arr \in [Requests -> Nat] /\ arr2 \in [Requests -> Nat] /\ arr2[p] = n + 1
  BY <1>1 DEF RequestInv
<1>3. \A r \in Requests : r # p => arr2[r] = arr[r]
  BY <1>2
<1>4. \A r \in Requests : arr[r] <= n
  BY DEF RequestInv
<1>5. new = old \cup {p} /\ p \notin old
  <2>1. arr2[p] # 0
    BY <1>1, <1>2
  <2>2. QED
    BY <1>3, <2>1
<1>6. Cardinality(new) = n + 1
  <2> HIDE DEF old, new
  <2>1. Cardinality(old \cup {p}) = Cardinality(old) + 1
    BY <1>1, <1>5, FS_AddElement
  <2>2. QED
    BY <1>5, <2>1
<1>7. RequestInv(pend2, arr2, dec, who, cho)
  <2>1. \A r \in Requests : arr2[r] <= Cardinality(new)
    BY <1>1, <1>2, <1>3, <1>4, <1>6
  <2>2. \A r \in pend2 : arr2[r] # 0 /\ who[r] = "nobody"
    BY <1>1, <1>2, <1>3 DEF RequestInv
  <2>3. \A r \in Requests : arr2[r] = 0 => who[r] = "nobody"
    BY <1>1, <1>2, <1>3 DEF RequestInv
  <2>4. QED
    BY <1>2, <2>1, <2>2, <2>3 DEF RequestInv
<1>8. pend \subseteq Requests /\ p \notin pend /\ p # None /\ p # a
  BY BrokerAssumption DEF QueueInv, RequestInv
<1>9. QueueInv(pend2, q1, a, arr2)
  <2>1. /\ q \in Seq(Requests) /\ a \in Requests \cup {None}
        /\ pend = Elements(q) \cup ({a} \ {None})
    BY DEF QueueInv
  <2>2. /\ q1 \in Seq(Requests)
        /\ Elements(q1) = Elements(q) \cup {p}
        /\ Len(q1) = Len(q) + 1 /\ Len(q) \in Nat
        /\ \A i \in 1..Len(q) : q1[i] = q[i]
        /\ q1[Len(q) + 1] = p
    BY <2>1, ElementsOfAppend
  <2>3. \A i \in 1..Len(q1) : i \in 1..Len(q) \/ i = Len(q) + 1
    BY <2>2
  <2>4. \A i \in 1..Len(q) : q[i] \in Requests /\ q[i] # p
    BY <1>8, <2>1 DEF Elements
  <2>5. \A i \in 1..Len(q) : arr2[q1[i]] = arr[q[i]] /\ arr[q[i]] \in Nat
                            /\ arr[q[i]] < arr2[p]
    BY <1>1, <1>2, <1>3, <1>4, <2>2, <2>4
  <2>6. a # None => arr2[a] = arr[a] /\ arr[a] \in Nat /\ arr[a] < arr2[p]
    BY <1>1, <1>2, <1>3, <1>4, <1>8, <2>1
  <2>7. \A i \in 1..Len(q1) : a # None => arr2[a] < arr2[q1[i]]
    BY <2>2, <2>3, <2>5, <2>6 DEF QueueInv
  <2>8. ASSUME NEW i \in 1..Len(q1), NEW j \in 1..Len(q1), i < j
        PROVE  arr2[q1[i]] < arr2[q1[j]]
    <3>1. i \in 1..Len(q)
      BY <2>2, <2>8
    <3>2. CASE j \in 1..Len(q)
      BY <2>5, <2>8, <3>1, <3>2 DEF QueueInv
    <3>3. CASE j = Len(q) + 1
      BY <2>2, <2>5, <3>1, <3>3
    <3>4. QED
      BY <2>3, <3>2, <3>3
  <2>9. pend2 = Elements(q1) \cup ({a} \ {None})
    BY <1>8, <2>1, <2>2
  <2>10. QED
    BY <1>8, <2>1, <2>2, <2>7, <2>8, <2>9 DEF QueueInv
<1>10. ScreenInv(pend2, a, arr2, who, ib, dlg, rep)
  <2>1. p \notin Elements(ib) /\ p # dlg /\ p # rep
    BY <1>8 DEF ScreenInv, Elements
  <2>2. \A i \in 1..Len(ib) : ib[i] \in Requests /\ arr2[ib[i]] # 0
    BY <1>3, <2>1 DEF ScreenInv, Elements
  <2>3. dlg # None => arr2[dlg] # 0
    BY <1>3, <2>1 DEF ScreenInv
  <2>4. QED
    BY <2>1, <2>2, <2>3 DEF ScreenInv
<1>11. OpenInv(pend2, arr2, who)
  BY <1>7 DEF RequestInv, OpenInv
<1>12. QED
  <2> HIDE DEF q1, n
  <2>1. FlushStep(q1, a, ib, q2, a2, ib2)
    BY DEF q1
  <2>2. QED
    BY <1>7, <1>9, <1>10, <1>11, <2>1, FlushInv

-----------------------------------------------------------------------------
(* The strengthened invariant holds at the start.                          *)
LEMMA InitInv == Init => IInv
<1>1. Cardinality({}) = 0
  BY FS_EmptySet
<1>2. ASSUME Init PROVE RequestInv(pending, arrival, decision, by, chosen)
  <2>1. {r \in Requests : arrival[r] # 0} = {}
    BY <1>2 DEF Init
  <2>2. Cardinality({r \in Requests : arrival[r] # 0}) = 0
    BY <1>1, <2>1
  <2>3. /\ arrival \in [Requests -> Nat]
        /\ \A p \in Requests : arrival[p] = 0 /\ 0 <= 0
    BY <1>2 DEF Init
  <2>4. \A p \in Requests : arrival[p] <= Cardinality({r \in Requests : arrival[r] # 0})
    BY <2>2, <2>3
  <2>5. /\ decision \in [Requests -> Decision \cup {"none"}]
        /\ chosen \in [Requests -> Decision \cup {"none"}]
        /\ by \in [Requests -> {"nobody", "user", "timer", "dispose"}]
    BY <1>2 DEF Init
  <2>6. QED
    BY <1>2, <2>3, <2>4, <2>5 DEF Init, RequestInv
<1>3. ASSUME Init PROVE QueueInv(pending, queue, active, arrival)
  BY <1>3, BrokerAssumption DEF Init, QueueInv, Elements
<1>4. ASSUME Init PROVE ScreenInv(pending, active, arrival, by, inbox, dialog, reply)
  BY <1>4, BrokerAssumption DEF Init, ScreenInv, Elements
<1>5. QED
  BY <1>2, <1>3, <1>4, BrokerAssumption DEF Init, IInv, ClockInv

(* A request for a review keeps it.                                        *)
LEMMA RequestKeepsInv ==
  ASSUME IInv, NEW p \in Requests, Request(p)
  PROVE  IInv'
<1>1. /\ RequestStep(p, pending, queue, active, arrival, inbox,
                     pending', queue', active', arrival', inbox')
      /\ UNCHANGED <<live, age, shown, decision, by, client>>
  BY DEF Request, Flush, Send, FlushStep, RequestStep
<1>2. /\ QueueInv(pending, queue, active, arrival)
      /\ ScreenInv(pending, active, arrival, by, inbox, dialog, reply)
      /\ RequestInv(pending, arrival, decision, by, chosen)
  BY DEF IInv
<1>3. /\ QueueInv(pending', queue', active', arrival')
      /\ active' = None => queue' = <<>>
      /\ ScreenInv(pending', active', arrival', by, inbox', dialog, reply)
      /\ RequestInv(pending', arrival', decision, by, chosen)
  BY <1>1, <1>2, RequestStepInv
<1>4. QED
  BY <1>1, <1>3 DEF IInv, ClockInv, client

(* Every timer that can expire is that of the active plan.                 *)
LEMMA OldestIsActive ==
  ASSUME IInv, NEW p \in Requests, IsOldestTimer(p)
  PROVE  p \in pending /\ p = active
<1>1. /\ p \in pending /\ \A r \in pending : arrival[p] <= arrival[r]
      /\ queue \in Seq(Requests) /\ active \in Requests \cup {None}
      /\ pending = Elements(queue) \cup ({active} \ {None})
      /\ arrival \in [Requests -> Nat]
      /\ \A i \in 1..Len(queue) : active # None => arrival[active] < arrival[queue[i]]
      /\ active = None => queue = <<>>
  BY DEF IInv, IsOldestTimer, QueueInv, RequestInv
<1>2. active # None
  BY <1>1 DEF Elements
<1>3. active \in Requests /\ arrival[p] <= arrival[active]
  BY <1>1, <1>2
<1>4. SUFFICES ASSUME p # active PROVE FALSE
  BY <1>1
<1>5. PICK i \in 1..Len(queue) : p = queue[i]
  BY <1>1, <1>4 DEF Elements
<1>6. arrival[active] < arrival[p] /\ arrival[p] \in Nat /\ arrival[active] \in Nat
  BY <1>1, <1>2, <1>3, <1>5
<1>7. QED
  BY <1>3, <1>6

(* The time-out of a review keeps it.                                      *)
LEMMA TimeoutKeepsInv ==
  ASSUME IInv, NEW p \in Requests, OnTimeout(p)
  PROVE  IInv'
<1>1. p \in pending /\ p = active
  BY OldestIsActive DEF OnTimeout
<1>2. /\ SettleStep(p, "skip", "timer", pending, queue, inbox, decision, by,
                    pending', queue', active', inbox', decision', by')
      /\ UNCHANGED <<live, arrival, age, shown, client>>
  BY <1>1 DEF OnTimeout, Settle, Flush, Send, FlushStep, SettleStep
<1>3. /\ QueueInv(pending, queue, p, arrival)
      /\ ScreenInv(pending, p, arrival, by, inbox, dialog, reply)
      /\ RequestInv(pending, arrival, decision, by, chosen)
  BY <1>1 DEF IInv
<1>4. IsAnswer(p, "skip", "timer", chosen, inbox, dialog)
  BY DEF Decision, IsAnswer
<1>5. /\ QueueInv(pending', queue', active', arrival)
      /\ active' = None => queue' = <<>>
      /\ ScreenInv(pending', active', arrival, by', inbox', dialog, reply)
      /\ RequestInv(pending', arrival, decision', by', chosen)
  BY <1>1, <1>2, <1>3, <1>4, SettleInv
<1>6. QED
  BY <1>2, <1>5 DEF IInv, ClockInv, client

(* The arrival of the user's response keeps it.                            *)
LEMMA ResponseKeepsInv ==
  ASSUME IInv, OnResponse
  PROVE  IInv'
<1> DEFINE p == reply
<1>1. /\ p \in Requests /\ p = dialog /\ p \notin Elements(inbox) /\ p # None
      /\ chosen[p] \in Decision
      /\ p \in pending => p = active
  BY BrokerAssumption DEF OnResponse, IInv, ScreenInv, Elements
<1>2. /\ QueueInv(pending, queue, active, arrival)
      /\ active = None => queue = <<>>
      /\ RequestInv(pending, arrival, decision, by, chosen)
      /\ ClockInv(age, shown) /\ live \in BOOLEAN
  BY DEF IInv
<1>3. ScreenInv(pending, active, arrival, by, inbox, None, None)
  <2>1. None \notin pending
    BY <1>2, BrokerAssumption DEF QueueInv
  <2>2. \A i \in 1..Len(inbox) : inbox[i] # None
    BY BrokerAssumption DEF IInv, ScreenInv
  <2>3. QED
    BY <2>1, <2>2 DEF IInv, ScreenInv
<1>4. /\ reply' = None /\ dialog' = None
      /\ UNCHANGED <<live, arrival, age, shown, chosen>>
  BY DEF OnResponse
<1>5. CASE p \in pending
  <2>1. SettleStep(p, chosen[p], "user", pending, queue, inbox, decision, by,
                   pending', queue', active', inbox', decision', by')
    BY <1>1, <1>5 DEF OnResponse, Settle, Flush, Send, FlushStep, SettleStep
  <2>2. /\ QueueInv(pending, queue, p, arrival)
        /\ ScreenInv(pending, p, arrival, by, inbox, None, None)
    BY <1>1, <1>2, <1>3, <1>5
  <2>3. /\ QueueInv(pending', queue', active', arrival)
        /\ active' = None => queue' = <<>>
        /\ ScreenInv(pending', active', arrival, by', inbox', None, None)
        /\ RequestInv(pending', arrival, decision', by', chosen)
    <3>1. IsAnswer(p, chosen[p], "user", chosen, inbox, None)
      BY <1>1 DEF IsAnswer
    <3> HIDE DEF p
    <3>2. QED
      BY <1>2, <1>5, <2>1, <2>2, <3>1, SettleInv
  <2>4. QED
    BY <1>2, <1>4, <2>3 DEF IInv
<1>6. CASE p \notin pending
  <2>1. UNCHANGED <<broker, inbox>>
    BY <1>6 DEF OnResponse, Settle
  <2>2. QED
    BY <1>2, <1>3, <1>4, <2>1 DEF IInv, broker
<1>7. QED
  BY <1>5, <1>6

(* The passing of time keeps it.                                           *)
LEMMA TickKeepsInv ==
  ASSUME IInv, Tick
  PROVE  IInv'
<1>1. \A t \in 0..Timeout : Older(t) \in 0..Timeout
  BY BrokerAssumption DEF Older
<1>2. ClockInv(age', shown')
  BY <1>1 DEF IInv, ClockInv, Tick
<1>3. QED
  BY <1>2 DEF IInv, Tick, broker, client

(* The broker's disposal keeps it.                                         *)
LEMMA DisposeKeepsInv ==
  ASSUME IInv, Dispose
  PROVE  IInv'
<1>1. RequestInv(pending', arrival', decision', by', chosen')
  <2>1. /\ decision' \in [Requests -> Decision \cup {"none"}]
        /\ by' \in [Requests -> {"nobody", "user", "timer", "dispose"}]
    BY DEF IInv, RequestInv, Dispose, Decision
  <2>2. \A p \in Requests : by'[p] = "user" => decision'[p] = chosen[p]
    BY DEF IInv, RequestInv, Dispose
  <2>3. \A p \in Requests : arrival[p] = 0 => by'[p] = "nobody"
    BY DEF IInv, RequestInv, Dispose
  <2>4. QED
    BY <2>1, <2>2, <2>3 DEF IInv, RequestInv, Dispose
<1>2. QueueInv(pending', queue', active', arrival')
  BY BrokerAssumption DEF Dispose, QueueInv, Elements
<1>3. ScreenInv(pending', active', arrival', by', inbox', dialog', reply')
  BY BrokerAssumption DEF Dispose, ScreenInv, Elements
<1>4. QED
  BY <1>1, <1>2, <1>3 DEF IInv, ClockInv, Dispose

(* The showing of a question keeps it.                                     *)
LEMMA ShowKeepsInv ==
  ASSUME IInv, Show
  PROVE  IInv'
<1> DEFINE h == Head(inbox)
<1>1. /\ inbox \in Seq(Requests) /\ inbox # <<>> /\ dialog = None /\ reply = None
      /\ dialog' = h /\ inbox' = Tail(inbox)
      /\ UNCHANGED <<broker, live, arrival, age, shown, chosen, reply>>
  BY DEF IInv, ScreenInv, Show
<1>2. /\ Elements(inbox) = {h} \cup Elements(Tail(inbox))
      /\ h \in Requests /\ Tail(inbox) \in Seq(Requests)
      /\ Len(Tail(inbox)) = Len(inbox) - 1 /\ Len(inbox) \in Nat \ {0}
      /\ \A i \in 1..Len(Tail(inbox)) : Tail(inbox)[i] = inbox[i + 1]
      /\ h = inbox[1]
  BY <1>1, ElementsOfTail
<1>3. ScreenInv(pending', active', arrival', by', inbox', dialog', reply')
  <2>1. \A i \in 1..Len(inbox') :
          /\ arrival[inbox'[i]] # 0 /\ by[inbox'[i]] # "user" /\ inbox'[i] # h
    BY <1>1, <1>2 DEF IInv, ScreenInv
  <2>2. \A i, j \in 1..Len(inbox') : i # j => inbox'[i] # inbox'[j]
    BY <1>1, <1>2 DEF IInv, ScreenInv
  <2>3. arrival[h] # 0 /\ by[h] # "user"
    BY <1>1, <1>2 DEF IInv, ScreenInv
  <2>4. \A p \in pending : p \in Elements(inbox') \cup {h, reply} => p = active
    BY <1>1, <1>2 DEF IInv, ScreenInv
  <2>5. QED
    BY <1>1, <1>2, <2>1, <2>2, <2>3, <2>4 DEF ScreenInv, broker
<1>4. QED
  BY <1>1, <1>3 DEF IInv, broker

(* The user's answer keeps it.                                             *)
LEMMA AnswerKeepsInv ==
  ASSUME IInv, NEW d \in Decision, Answer(d)
  PROVE  IInv'
<1>1. dialog \in Requests /\ by[dialog] # "user"
  BY DEF IInv, ScreenInv, Answer
<1>2. RequestInv(pending', arrival', decision', by', chosen')
  BY <1>1 DEF IInv, RequestInv, Answer, broker
<1>3. ScreenInv(pending', active', arrival', by', inbox', dialog', reply')
  BY <1>1, BrokerAssumption DEF IInv, ScreenInv, Answer, broker
<1>4. chosen'[reply'] \in Decision
  BY <1>1 DEF IInv, RequestInv, Answer
<1>5. QED
  BY <1>2, <1>3, <1>4 DEF IInv, Answer, broker

(* Every step keeps the strengthened invariant.                            *)
LEMMA StepKeepsInv == IInv /\ [Next]_vars => IInv'
<1> SUFFICES ASSUME IInv, [Next]_vars PROVE IInv'
  OBVIOUS
<1>1. ASSUME NEW p \in Requests, Request(p) PROVE IInv'
  BY <1>1, RequestKeepsInv
<1>2. ASSUME NEW p \in Requests, OnTimeout(p) PROVE IInv'
  BY <1>2, TimeoutKeepsInv
<1>3. CASE Tick
  BY <1>3, TickKeepsInv
<1>4. CASE Dispose
  BY <1>4, DisposeKeepsInv
<1>5. CASE Show
  BY <1>5, ShowKeepsInv
<1>6. ASSUME NEW d \in Decision, Answer(d) PROVE IInv'
  BY <1>6, AnswerKeepsInv
<1>7. CASE OnResponse
  BY <1>7, ResponseKeepsInv
<1>8. CASE UNCHANGED vars
  BY <1>8 DEF IInv, vars, broker, client
<1>9. QED
  BY <1>1, <1>2, <1>3, <1>4, <1>5, <1>6, <1>7, <1>8 DEF Next

-----------------------------------------------------------------------------
(* IInv is an invariant of the broker and its client.                      *)
THEOREM BrokerInvariant == Spec => []IInv
<1>1. QED
  BY InitInv, StepKeepsInv, PTL DEF Spec

(* The values of the variables, among them that settle() is never asked to *)
(* send a plan that does not exist.                                        *)
THEOREM TypeCorrect == Spec => []TypeOK
<1>1. IInv => TypeOK
  BY DEF IInv, TypeOK, QueueInv, ScreenInv, RequestInv, ClockInv
<1>2. QED
  BY <1>1, BrokerInvariant, PTL

(* pending, queue and active of the broker agree, in order of request: no  *)
(* answer or timeout leaves a settled plan active, for flush() to wait on. *)
THEOREM QueueOrderHolds == Spec => []PendingIsActiveThenQueued
<1>1. IInv => PendingIsActiveThenQueued
  BY DEF IInv, QueueInv, PendingIsActiveThenQueued
<1>2. QED
  BY <1>1, BrokerInvariant, PTL

(* The user never has two undecided plans in front of him.                 *)
THEOREM OneUndecidedHolds == Spec => []OneUndecidedOnScreen
<1>1. IInv => OneUndecidedOnScreen
  BY DEF IInv, ScreenInv, OneUndecidedOnScreen
<1>2. QED
  BY <1>1, BrokerInvariant, PTL

(* An answer decides the plan for which it was given, and no other.        *)
THEOREM AnswerHolds == Spec => []AnswerSettlesItsPlan
<1>1. IInv => AnswerSettlesItsPlan
  BY DEF IInv, RequestInv, AnswerSettlesItsPlan
<1>2. QED
  BY <1>1, BrokerInvariant, PTL

(* What request() resolved to is never changed: a late answer and a late   *)
(* timer are both ignored.                                                 *)
THEOREM SettledOnceHolds == Spec => SettledOnce
<1> DEFINE Kept == \A p \in Requests :
                     by[p] # "nobody" => by'[p] = by[p] /\ decision'[p] = decision[p]
<1>1. IInv /\ [Next]_vars => Kept
  <2> SUFFICES ASSUME IInv, [Next]_vars PROVE Kept
    OBVIOUS
  <2>1. /\ decision \in [Requests -> Decision \cup {"none"}]
        /\ by \in [Requests -> {"nobody", "user", "timer", "dispose"}]
        /\ \A p \in pending : by[p] = "nobody"
    BY DEF IInv, RequestInv
  <2>2. ASSUME NEW p \in Requests, Request(p) PROVE Kept
    BY <2>2 DEF Request
  <2>3. ASSUME NEW p \in Requests, OnTimeout(p) PROVE Kept
    BY <2>1, <2>3 DEF OnTimeout, Settle, broker
  <2>4. CASE OnResponse
    BY <2>1, <2>4 DEF OnResponse, Settle, broker
  <2>5. CASE Dispose
    BY <2>1, <2>5 DEF Dispose
  <2>6. CASE Tick \/ Show \/ UNCHANGED vars
    BY <2>6 DEF Tick, Show, vars, broker
  <2>7. ASSUME NEW d \in Decision, Answer(d) PROVE Kept
    BY <2>7 DEF Answer, broker
  <2>8. QED
    BY <2>2, <2>3, <2>4, <2>5, <2>6, <2>7 DEF Next
<1>2. QED
  BY <1>1, BrokerInvariant, PTL DEF Spec, SettledOnce
=============================================================================
