---------------------------- MODULE AnswerProofs -----------------------------
(***************************************************************************)
(* What is proved of the parts of the server whose properties speak of     *)
(* whole texts and sums (AnswersInv): what comes of a model's answer, what *)
(* a deletion frees, which line each prompt gets, which calls a text is    *)
(* taken for, and what a header is filled with.                            *)
(* Induction over a text is one over its length (NatInd).                  *)
(***************************************************************************)
EXTENDS ServerPartsProofs, ModelStream, PromptInput, ToolBlocks, FiniteSetTheorems, SequenceTheorems

-----------------------------------------------------------------------------
(* A model's answer as it comes over the network: for any lines of any     *)
(* number of calls, and reads of any length.  StreamInv is not inductive:  *)
(* where a read begins, what is carried must be what it had of the line.   *)

(* What is known of the answer and of what was put together of it.         *)
FieldValues(field) == {lines[k][field] : k \in 1..Len(lines)}
CallType == [name : FieldValues("name") \cup {None}, args : Seq(FieldValues("args"))]
IsCalls(calls) ==
  /\ calls = [i \in DOMAIN calls |-> calls[i]]
  /\ DOMAIN calls \subseteq Nat
  /\ \A i \in DOMAIN calls : calls[i] \in CallType
IsGot(got) ==
  /\ got = [carry |-> got.carry, shown |-> got.shown, calls |-> got.calls]
  /\ got.carry \in Seq(Nat) /\ got.shown \in Seq(FieldValues("token")) /\ IsCalls(got.calls)
LinesOK ==
  /\ provider \in Adapters /\ terminated \in BOOLEAN
  /\ Len(lines) \in Nat /\ \A k \in 1..Len(lines) : IsFrame(lines[k])

(* Symbols by their line.                                                  *)
LEMMA SymbolOf ==
  ASSUME NEW n \in Nat, NEW r \in 0..2
  PROVE  /\ (3 * n + r) % 3 = r /\ (3 * n + r) \div 3 = n
         /\ Symbol(3 * n + r + 1) = IF r = 2 THEN NewLine ELSE 2 * n + r + 1
<1>1. (3 * n + r) % 3 = r /\ (3 * n + r) \div 3 = n
  OBVIOUS
<1>2. CASE r = 2
  <2>1. (3 * n + r + 1) % 3 = 0
    BY <1>2
  <2>. QED
    BY <1>1, <1>2, <2>1 DEF Symbol
<1>3. CASE r # 2
  <2>1. (3 * n + r + 1) % 3 = r + 1 /\ 3 * n + r + 1 - 1 = 3 * n + r
    BY <1>3
  <2>. QED
    BY <1>1, <1>3, <2>1 DEF Symbol
<1>. QED
  BY <1>1, <1>2, <1>3

(* One more value, of the line behind the ones before.                     *)
LEMMA ListsGrow ==
  ASSUME NEW v, NEW w, NEW n \in Nat, NEW P, P \subseteq 1..n, NEW field,
         Lists(v, n, P, field),
         \A m \in Nat : DOMAIN v = 1..m =>
           /\ DOMAIN w = 1..(m + 1) /\ \A i \in 1..m : w[i] = v[i]
           /\ w[m + 1] = lines[n + 1][field]
  PROVE  Lists(w, n + 1, P \cup {n + 1}, field)
<1>m. PICK m \in 0..n : \E at \in [1..m -> P] :
        /\ DOMAIN v = 1..m
        /\ \A p \in P : \E i \in 1..m : at[i] = p
        /\ \A i, j \in 1..m : i < j => at[i] < at[j]
        /\ \A i \in 1..m : v[i] = lines[at[i]][field]
  BY DEF Lists
<1>1. PICK at \in [1..m -> P] :
        /\ DOMAIN v = 1..m
        /\ \A p \in P : \E i \in 1..m : at[i] = p
        /\ \A i, j \in 1..m : i < j => at[i] < at[j]
        /\ \A i \in 1..m : v[i] = lines[at[i]][field]
  BY <1>m
<1>2. PICK Q : Q = P \cup {n + 1}
  OBVIOUS
<1>3. PICK to \in [1..(m + 1) -> Q] : to = [i \in 1..(m + 1) |-> IF i = m + 1 THEN n + 1 ELSE at[i]]
  <2>1. \A i \in 1..(m + 1) : (IF i = m + 1 THEN n + 1 ELSE at[i]) \in Q
    <3>1. TAKE i \in 1..(m + 1)
    <3>2. CASE i = m + 1
      BY <1>2, <3>2
    <3>3. CASE i # m + 1
      <4>1. i \in 1..m
        BY <1>m, <3>3
      <4>2. at[i] \in P
        BY <1>1, <4>1
      <4>. QED
        BY <1>2, <3>3, <4>2
    <3>. QED
      BY <3>2, <3>3
  <2>2. [i \in 1..(m + 1) |-> IF i = m + 1 THEN n + 1 ELSE at[i]] \in [1..(m + 1) -> Q]
    BY <2>1
  <2>. QED
    BY <2>2
<1>4. /\ DOMAIN w = 1..(m + 1) /\ \A i \in 1..m : w[i] = v[i]
      /\ w[m + 1] = lines[n + 1][field]
  BY <1>1
<1>5. m + 1 \in 0..(n + 1) /\ m \in Nat
  BY <1>1
<1>6. \A i \in 1..(m + 1) : i = m + 1 \/ i \in 1..m
  BY <1>5
<1>7. to[m + 1] = n + 1 /\ \A i \in 1..m : to[i] = at[i] /\ at[i] \in P /\ at[i] < n + 1
  <2>1. to[m + 1] = n + 1
    BY <1>3, <1>5
  <2>2. ASSUME NEW i \in 1..m PROVE to[i] = at[i] /\ at[i] \in P /\ at[i] < n + 1
    <3>1. i \in 1..(m + 1) /\ i # m + 1
      BY <1>5
    <3>2. to[i] = at[i]
      BY <1>3, <3>1
    <3>3. at[i] \in P /\ at[i] \in 1..n
      BY <1>1
    <3>. QED
      BY <3>2, <3>3
  <2>. QED
    BY <2>1, <2>2
<1>8. \A p \in Q : \E i \in 1..(m + 1) : to[i] = p
  <2>1. TAKE p \in Q
  <2>2. CASE p = n + 1
    BY <1>5, <1>7, <2>2
  <2>3. CASE p \in P
    <3>1. PICK i \in 1..m : at[i] = p
      BY <1>1, <2>3
    <3>. QED
      BY <1>5, <1>7, <3>1
  <2>. QED
    BY <1>2, <2>2, <2>3
<1>9. \A i, j \in 1..(m + 1) : i < j => to[i] < to[j]
  <2>1. TAKE i, j \in 1..(m + 1)
  <2>2. HAVE i < j
  <2>3. i \in 1..m
    BY <1>5, <2>2
  <2>. QED
    BY <1>1, <1>6, <1>7, <2>2, <2>3
<1>10. \A i \in 1..(m + 1) : w[i] = lines[to[i]][field]
  <2>1. TAKE i \in 1..(m + 1)
  <2>2. CASE i = m + 1
    BY <1>4, <1>7, <2>2
  <2>3. CASE i \in 1..m
    <3>1. v[i] = lines[at[i]][field] /\ w[i] = v[i] /\ to[i] = at[i]
      BY <1>1, <1>4, <1>7, <2>3
    <3>. QED
      BY <3>1
  <2>. QED
    BY <1>6, <2>2, <2>3
<1>. QED
  BY <1>2, <1>4, <1>5, <1>8, <1>9, <1>10 DEF Lists

(* The same values, when the line behind the ones before has none.         *)
LEMMA ListsSame ==
  ASSUME NEW v, NEW n \in Nat, NEW P, NEW field, Lists(v, n, P, field)
  PROVE  Lists(v, n + 1, P, field)
<1>1. 0..n \subseteq 0..(n + 1)
  OBVIOUS
<1>. QED
  BY <1>1 DEF Lists

(* No values.                                                              *)
LEMMA ListsNone ==
  ASSUME NEW v, DOMAIN v = {}, NEW n \in Nat, NEW field
  PROVE  Lists(v, n, {}, field)
<1>1. 1..0 = {} /\ 0 \in 0..n
  OBVIOUS
<1>2. [i \in 1..0 |-> i] \in [1..0 -> {}]
  BY <1>1
<1>3. PICK at \in [1..0 -> {}] : at = [i \in 1..0 |-> i]
  BY <1>2
<1>. QED
  BY <1>1, <1>3 DEF Lists

(* What Append does.                                                       *)
LEMMA AppendOne ==
  ASSUME NEW T, NEW s \in Seq(T), NEW x \in T
  PROVE  /\ Append(s, x) \in Seq(T) /\ Len(s) \in Nat /\ DOMAIN s = 1..Len(s)
         /\ DOMAIN Append(s, x) = 1..(Len(s) + 1) /\ Append(s, x)[Len(s) + 1] = x
         /\ \A i \in 1..Len(s) : Append(s, x)[i] = s[i]
OBVIOUS

(* Append adds one.                                                        *)
LEMMA AppendLists ==
  ASSUME NEW T, NEW s \in Seq(T), NEW n \in Nat, NEW P, P \subseteq 1..n, NEW field,
         Lists(s, n, P, field), lines[n + 1][field] \in T
  PROVE  Lists(Append(s, lines[n + 1][field]), n + 1, P \cup {n + 1}, field)
<1>1. PICK x \in T : x = lines[n + 1][field]
  OBVIOUS
<1>2. PICK w : w = Append(s, x)
  OBVIOUS
<1>3. \A m \in Nat : DOMAIN s = 1..m =>
        /\ DOMAIN w = 1..(m + 1) /\ \A i \in 1..m : w[i] = s[i]
        /\ w[m + 1] = lines[n + 1][field]
  <2>1. TAKE m \in Nat
  <2>2. HAVE DOMAIN s = 1..m
  <2>3. m = Len(s)
    BY <2>2, AppendOne
  <2>. QED
    BY <1>1, <1>2, <2>3, AppendOne
<1>4. Lists(w, n + 1, P \cup {n + 1}, field)
  BY <1>3, ListsGrow
<1>. QED
  BY <1>1, <1>2, <1>4

(* The next line, if it says something of a field and if not.              *)
LEMMA NextPlaces ==
  ASSUME NEW n \in Nat, NEW i
  PROVE  /\ WithToken(n) \subseteq 1..n /\ WithArgs(n, i) \subseteq 1..n /\ WithName(n) \subseteq 1..n
         /\ WithToken(n + 1) = IF lines[n + 1].token # None THEN WithToken(n) \cup {n + 1}
                               ELSE WithToken(n)
         /\ WithArgs(n + 1, i) =
              IF lines[n + 1].index = i /\ lines[n + 1].args # None THEN WithArgs(n, i) \cup {n + 1}
              ELSE WithArgs(n, i)
         /\ WithName(n + 1) =
              IF lines[n + 1].index # 0 /\ lines[n + 1].name # None THEN WithName(n) \cup {n + 1}
              ELSE WithName(n)
<1>1. 1..(n + 1) = 1..n \cup {n + 1} /\ n + 1 \notin 1..n
  OBVIOUS
<1>. QED
  BY <1>1 DEF WithToken, WithArgs, WithName

(* What the calls put together say of the first n lines.                   *)
CallsSay(calls, n) ==
  /\ provider = "openai" =>
       /\ DOMAIN calls = {lines[k].index : k \in 1..n} \ {0}
       /\ \A i \in DOMAIN calls : Lists(calls[i].args, n, WithArgs(n, i), "args")
  /\ provider = "ollama" =>
       Lists([i \in DOMAIN calls |-> calls[i].name], n, WithName(n), "name")

(* What one more fragment makes of a call.                                 *)
LEMMA FragmentIs ==
  ASSUME NEW k \in 1..Len(lines), NEW call \in CallType
  PROVE  /\ Fragment(call, lines[k]) \in CallType
         /\ Fragment(call, lines[k]).name = IF lines[k].name = None THEN call.name ELSE lines[k].name
         /\ Fragment(call, lines[k]).args = IF lines[k].args = None THEN call.args
                                            ELSE Append(call.args, lines[k].args)
<1>1. lines[k].args \in FieldValues("args") /\ lines[k].name \in FieldValues("name")
  BY DEF FieldValues
<1>2. PICK a, b : a = call.name /\ b = call.args
  OBVIOUS
<1>3. a \in FieldValues("name") \cup {None} /\ b \in Seq(FieldValues("args"))
  BY <1>2 DEF CallType
<1>4. Append(b, lines[k].args) \in Seq(FieldValues("args"))
  BY <1>1, <1>3
<1>. QED
  BY <1>1, <1>2, <1>3, <1>4 DEF Fragment, CallType

(* One line more for the OpenAI adapter ...                                *)
LEMMA OpenAiTakes ==
  ASSUME LinesOK, provider = "openai", NEW calls, IsCalls(calls), NEW n \in Nat, n + 1 <= Len(lines),
         CallsSay(calls, n)
  PROVE  IsCalls(WithCall(calls, lines[n + 1])) /\ CallsSay(WithCall(calls, lines[n + 1]), n + 1)
<1>1. PICK k \in 1..Len(lines) : k = n + 1
  BY DEF LinesOK
<1>2. PICK f : f = lines[k]
  OBVIOUS
<1>3. f.index \in Nat /\ provider # "ollama"
  BY <1>2 DEF LinesOK, IsFrame
<1>4. {lines[x].index : x \in 1..(n + 1)} = {lines[x].index : x \in 1..n} \cup {f.index}
  <2>1. 1..(n + 1) = 1..n \cup {n + 1}
    OBVIOUS
  <2>. QED
    BY <1>1, <1>2, <2>1
<1>5. DOMAIN calls = {lines[x].index : x \in 1..n} \ {0}
  BY DEF CallsSay
<1>6. CASE f.index = 0
  <2>1. WithCall(calls, f) = calls
    BY <1>6 DEF WithCall, TakesCall
  <2>2. DOMAIN calls = {lines[x].index : x \in 1..(n + 1)} \ {0}
    BY <1>4, <1>5, <1>6
  <2>3. ASSUME NEW i \in DOMAIN calls PROVE Lists(calls[i].args, n + 1, WithArgs(n + 1, i), "args")
    <3>1. i # 0
      BY <1>5
    <3>2. WithArgs(n + 1, i) = WithArgs(n, i)
      BY <1>1, <1>2, <1>6, <3>1, NextPlaces
    <3>3. Lists(calls[i].args, n, WithArgs(n, i), "args")
      BY DEF CallsSay
    <3>. QED
      BY <3>2, <3>3, ListsSame
  <2>. QED
    BY <1>1, <1>2, <1>3, <2>1, <2>2, <2>3 DEF CallsSay
<1>7. CASE f.index # 0
  <2>. DEFINE old == At(calls, f.index)
  <2>1. old \in CallType
    <3>1. CASE f.index \in DOMAIN calls
      BY <3>1 DEF At, IsCalls
    <3>2. CASE f.index \notin DOMAIN calls
      BY <3>2 DEF At, NewCall, CallType
    <3>. QED
      BY <3>1, <3>2
  <2>2. Lists(old.args, n, WithArgs(n, f.index), "args")
    <3>1. CASE f.index \in DOMAIN calls
      BY <3>1 DEF At, CallsSay
    <3>2. CASE f.index \notin DOMAIN calls
      <4>1. old.args = <<>> /\ DOMAIN old.args = {}
        BY <3>2 DEF At, NewCall
      <4>2. WithArgs(n, f.index) = {}
        BY <1>5, <1>7, <3>2 DEF WithArgs
      <4>. QED
        BY <4>1, <4>2, ListsNone
    <3>. QED
      BY <3>1, <3>2
  <2>3. PICK c : c = old
    OBVIOUS
  <2>4. PICK new : new = Fragment(c, f)
    OBVIOUS
  <2>5. /\ new \in CallType
        /\ new.args = IF f.args = None THEN c.args ELSE Append(c.args, f.args)
    BY <1>2, <2>1, <2>3, <2>4, FragmentIs
  <2>6. Lists(new.args, n + 1, WithArgs(n + 1, f.index), "args")
    <3>1. c.args \in Seq(FieldValues("args")) /\ f.args \in FieldValues("args")
      BY <1>2, <2>1, <2>3 DEF CallType, FieldValues
    <3>2. Lists(c.args, n, WithArgs(n, f.index), "args")
      BY <2>2, <2>3
    <3>3. CASE f.args = None
      <4>1. WithArgs(n + 1, f.index) = WithArgs(n, f.index)
        BY <1>1, <1>2, <3>3, NextPlaces
      <4>. QED
        BY <2>5, <3>2, <3>3, <4>1, ListsSame
    <3>4. CASE f.args # None
      <4>1. WithArgs(n + 1, f.index) = WithArgs(n, f.index) \cup {n + 1}
            /\ WithArgs(n, f.index) \subseteq 1..n
        BY <1>1, <1>2, <3>4, NextPlaces
      <4>2. lines[n + 1]["args"] \in FieldValues("args") /\ new.args = Append(c.args, lines[n + 1]["args"])
        BY <1>1, <1>2, <2>5, <3>1, <3>4
      <4>3. PICK d : d = c.args
        OBVIOUS
      <4>4. Lists(Append(d, lines[n + 1]["args"]), n + 1, WithArgs(n, f.index) \cup {n + 1}, "args")
        BY <3>1, <3>2, <4>1, <4>2, <4>3, AppendLists
      <4>. QED
        BY <4>1, <4>2, <4>3, <4>4
    <3>. QED
      BY <3>3, <3>4
  <2>7. PICK p : p = Put(calls, f.index, new)
    OBVIOUS
  <2>8. WithCall(calls, f) = p
    BY <1>3, <1>7, <2>3, <2>4, <2>7 DEF WithCall, TakesCall
  <2>9. /\ p = [j \in DOMAIN p |-> p[j]]
        /\ DOMAIN p = DOMAIN calls \cup {f.index} /\ p[f.index] = new
        /\ \A j \in DOMAIN calls : j # f.index => p[j] = calls[j]
    BY <2>7 DEF Put
  <2>10. IsCalls(p)
    BY <1>3, <2>5, <2>9 DEF IsCalls
  <2>11. DOMAIN p = {lines[x].index : x \in 1..(n + 1)} \ {0}
    BY <1>4, <1>5, <1>7, <2>9
  <2>12. ASSUME NEW i \in DOMAIN p PROVE Lists(p[i].args, n + 1, WithArgs(n + 1, i), "args")
    <3>1. CASE i = f.index
      BY <2>6, <2>9, <3>1
    <3>2. CASE i # f.index
      <4>1. i \in DOMAIN calls /\ p[i] = calls[i]
        BY <2>9, <3>2
      <4>2. WithArgs(n + 1, i) = WithArgs(n, i)
        BY <1>1, <1>2, <3>2, NextPlaces
      <4>3. Lists(calls[i].args, n, WithArgs(n, i), "args")
        BY <4>1 DEF CallsSay
      <4>. QED
        BY <4>1, <4>2, <4>3, ListsSame
    <3>. QED
      BY <3>1, <3>2
  <2>. QED
    BY <1>1, <1>2, <1>3, <2>8, <2>10, <2>11, <2>12 DEF CallsSay
<1>. QED
  BY <1>6, <1>7

(* ... and for the Ollama client.                                          *)
LEMMA OllamaTakes ==
  ASSUME LinesOK, provider = "ollama", NEW calls, IsCalls(calls), NEW n \in Nat, n + 1 <= Len(lines),
         CallsSay(calls, n)
  PROVE  IsCalls(WithCall(calls, lines[n + 1])) /\ CallsSay(WithCall(calls, lines[n + 1]), n + 1)
<1>1. PICK k \in 1..Len(lines) : k = n + 1
  BY DEF LinesOK
<1>2. PICK f : f = lines[k]
  OBVIOUS
<1>3. f.index \in Nat /\ provider # "openai"
  BY <1>2 DEF LinesOK, IsFrame
<1>4. PICK v : v = [i \in DOMAIN calls |-> calls[i].name]
  OBVIOUS
<1>5. Lists(v, n, WithName(n), "name") /\ DOMAIN v = DOMAIN calls
  BY <1>4 DEF CallsSay
<1>6. CASE ~TakesCall(f)
  <2>1. WithCall(calls, f) = calls /\ WithName(n + 1) = WithName(n)
    BY <1>1, <1>2, <1>6, NextPlaces DEF WithCall, TakesCall
  <2>2. Lists(v, n + 1, WithName(n + 1), "name")
    BY <1>5, <2>1, ListsSame
  <2>. QED
    BY <1>1, <1>2, <1>3, <1>4, <2>1, <2>2 DEF CallsSay
<1>7. CASE TakesCall(f)
  <2>1. PICK m \in 0..n : DOMAIN calls = 1..m
    BY <1>5 DEF Lists
  <2>2. m \in Nat /\ Cardinality(1..m) = m
    BY <2>1, FS_Interval
  <2>3. PICK new : new = Fragment(NewCall, f)
    OBVIOUS
  <2>4. NewCall \in CallType
    BY DEF NewCall, CallType
  <2>5. new \in CallType /\ new.name = f.name
    BY <1>2, <1>7, <2>3, <2>4, FragmentIs DEF TakesCall
  <2>6. PICK p : p = Put(calls, m + 1, new)
    OBVIOUS
  <2>7. WithCall(calls, f) = p
    <3>1. m + 1 \notin DOMAIN calls /\ Cardinality(DOMAIN calls) + 1 = m + 1
      BY <2>1, <2>2
    <3>2. At(calls, m + 1) = NewCall
      BY <3>1 DEF At
    <3>. QED
      BY <1>3, <1>7, <2>3, <2>6, <3>1, <3>2 DEF WithCall
  <2>8. /\ p = [j \in DOMAIN p |-> p[j]]
        /\ DOMAIN p = DOMAIN calls \cup {m + 1} /\ p[m + 1] = new
        /\ \A j \in DOMAIN calls : j # m + 1 => p[j] = calls[j]
    BY <2>6 DEF Put
  <2>9. IsCalls(p)
    BY <2>2, <2>5, <2>8 DEF IsCalls
  <2>10. PICK w : w = [i \in DOMAIN p |-> p[i].name]
    OBVIOUS
  <2>11. DOMAIN w = 1..(m + 1) /\ (\A i \in 1..m : w[i] = v[i]) /\ w[m + 1] = lines[n + 1]["name"]
    <3>1. DOMAIN p = 1..(m + 1)
      BY <2>1, <2>2, <2>8
    <3>2. \A i \in 1..m : i \in DOMAIN calls /\ i \in DOMAIN p /\ i # m + 1 /\ p[i] = calls[i]
      BY <2>1, <2>2, <2>8
    <3>3. m + 1 \in DOMAIN p
      BY <2>8
    <3>4. \A i \in 1..m : w[i] = v[i]
      BY <1>4, <2>10, <3>2
    <3>5. w[m + 1] = f.name
      BY <2>5, <2>8, <2>10, <3>3
    <3>. QED
      BY <1>1, <1>2, <2>10, <3>1, <3>4, <3>5
  <2>12. \A x \in Nat : DOMAIN v = 1..x =>
           /\ DOMAIN w = 1..(x + 1) /\ \A i \in 1..x : w[i] = v[i]
           /\ w[x + 1] = lines[n + 1]["name"]
    <3>1. TAKE x \in Nat
    <3>2. HAVE DOMAIN v = 1..x
    <3>3. x = m
      BY <1>5, <2>1, <2>2, <3>2
    <3>. QED
      BY <2>11, <3>3
  <2>13. WithName(n + 1) = WithName(n) \cup {n + 1} /\ WithName(n) \subseteq 1..n
    BY <1>1, <1>2, <1>7, NextPlaces DEF TakesCall
  <2>14. Lists(w, n + 1, WithName(n + 1), "name")
    <3>1. PICK P : P = WithName(n)
      OBVIOUS
    <3>2. P \subseteq 1..n /\ Lists(v, n, P, "name")
      BY <1>5, <2>13, <3>1
    <3>3. Lists(w, n + 1, P \cup {n + 1}, "name")
      BY <2>12, <3>2, ListsGrow
    <3>. QED
      BY <2>13, <3>1, <3>3
  <2>. QED
    BY <1>1, <1>2, <1>3, <2>7, <2>9, <2>10, <2>14 DEF CallsSay
<1>. QED
  BY <1>6, <1>7

(* What is carried of the next line once r of its symbols were read, and   *)
(* what the answer is then.                                                *)
CarryOf(n, r) == IF r = 0 THEN <<>> ELSE IF r = 1 THEN <<2 * n + 1>> ELSE <<2 * n + 1, 2 * n + 2>>
ReadTo(got, n, r) == IsGot(got) /\ SaysAll(got, n) /\ got.carry = CarryOf(n, r)

(* A line is taken, whatever was carried before it.                        *)
LEMMA IngestTakes ==
  ASSUME LinesOK, NEW got, NEW n \in Nat, n + 1 <= Len(lines), IsGot(got), SaysAll(got, n)
  PROVE  /\ IsGot(Ingest(got, lines[n + 1])) /\ SaysAll(Ingest(got, lines[n + 1]), n + 1)
         /\ Ingest(got, lines[n + 1]).carry = got.carry
<1>1. PICK k \in 1..Len(lines) : k = n + 1
  BY DEF LinesOK
<1>2. PICK f : f = lines[k]
  OBVIOUS
<1>3. PICK c, s, d : c = got.carry /\ s = got.shown /\ d = got.calls
  OBVIOUS
<1>4. /\ c \in Seq(Nat) /\ s \in Seq(FieldValues("token")) /\ IsCalls(d) /\ CallsSay(d, n)
      /\ Lists(s, n, WithToken(n), "token")
  BY <1>3 DEF IsGot, SaysAll, CallsSay
<1>5. f.token \in FieldValues("token")
  BY <1>2 DEF FieldValues
<1>6. PICK t : t = IF f.token = None THEN s ELSE Append(s, f.token)
  OBVIOUS
<1>7. PICK e : e = WithCall(d, f)
  OBVIOUS
<1>8. Ingest(got, f) = [carry |-> c, shown |-> t, calls |-> e]
  BY <1>3, <1>6, <1>7 DEF Ingest
<1>9. IsCalls(e) /\ CallsSay(e, n + 1)
  <2>1. provider = "openai" \/ provider = "ollama"
    BY DEF LinesOK, Adapters
  <2>. QED
    BY <1>1, <1>2, <1>4, <1>7, <2>1, OpenAiTakes, OllamaTakes
<1>10. t \in Seq(FieldValues("token")) /\ Lists(t, n + 1, WithToken(n + 1), "token")
  <2>1. CASE f.token = None
    <3>1. WithToken(n + 1) = WithToken(n)
      BY <1>1, <1>2, <2>1, NextPlaces
    <3>. QED
      BY <1>4, <1>6, <2>1, <3>1, ListsSame
  <2>2. CASE f.token # None
    <3>1. WithToken(n + 1) = WithToken(n) \cup {n + 1} /\ WithToken(n) \subseteq 1..n
      BY <1>1, <1>2, <2>2, NextPlaces
    <3>2. lines[n + 1]["token"] \in FieldValues("token") /\ t = Append(s, lines[n + 1]["token"])
      BY <1>1, <1>2, <1>5, <1>6, <2>2
    <3>3. Lists(t, n + 1, WithToken(n) \cup {n + 1}, "token")
      BY <1>4, <3>1, <3>2, AppendLists
    <3>4. t \in Seq(FieldValues("token"))
      BY <1>4, <1>5, <1>6, <2>2
    <3>. QED
      BY <3>1, <3>3, <3>4
  <2>. QED
    BY <2>1, <2>2
<1>11. PICK g : g = [carry |-> c, shown |-> t, calls |-> e]
  OBVIOUS
<1>12. g.carry = c /\ g.shown = t /\ g.calls = e
  BY <1>11
<1>13. IsGot(g)
  BY <1>4, <1>9, <1>10, <1>11, <1>12 DEF IsGot
<1>14. SaysAll(g, n + 1)
  BY <1>9, <1>10, <1>12 DEF SaysAll, CallsSay
<1>. QED
  BY <1>1, <1>2, <1>3, <1>8, <1>11, <1>12, <1>13, <1>14

(* What is carried is the next line once it is complete, and none before.  *)
LEMMA LineOf ==
  ASSUME LinesOK, NEW got, NEW n \in Nat
  PROVE  /\ n + 1 <= Len(lines) => IngestLine(got, CarryOf(n, 2)) = Ingest(got, lines[n + 1])
         /\ IngestLine(got, CarryOf(n, 0)) = got /\ IngestLine(got, CarryOf(n, 1)) = got
<1>1. \A i \in 1..Len(lines) : Line(i) # <<>> /\ Line(i) # <<2 * n + 1>>
  BY DEF Line
<1>2. \A i \in 1..Len(lines) : <<2 * n + 1, 2 * n + 2>> = Line(i) <=> i = n + 1
  <2>1. TAKE i \in 1..Len(lines)
  <2>2. <<2 * n + 1, 2 * n + 2>> = <<2 * i - 1, 2 * i>> <=> 2 * n + 1 = 2 * i - 1 /\ 2 * n + 2 = 2 * i
    OBVIOUS
  <2>. QED
    BY <2>2 DEF LinesOK, Line
<1>3. CarryOf(n, 0) = <<>> /\ CarryOf(n, 1) = <<2 * n + 1>> /\ CarryOf(n, 2) = <<2 * n + 1, 2 * n + 2>>
  BY DEF CarryOf
<1>4. IngestLine(got, CarryOf(n, 0)) = got /\ IngestLine(got, CarryOf(n, 1)) = got
  BY <1>1, <1>3 DEF IngestLine
<1>5. ASSUME n + 1 <= Len(lines) PROVE IngestLine(got, CarryOf(n, 2)) = Ingest(got, lines[n + 1])
  <2>1. PICK k \in 1..Len(lines) : k = n + 1
    BY <1>5 DEF LinesOK
  <2>2. PICK b : b = CarryOf(n, 2)
    OBVIOUS
  <2>3. b = Line(k) /\ \A i \in 1..Len(lines) : b = Line(i) => i = k
    BY <1>2, <1>3, <2>1, <2>2
  <2>4. (CHOOSE i \in 1..Len(lines) : b = Line(i)) = k
    BY <2>3
  <2>5. IngestLine(got, b) = Ingest(got, lines[k])
    BY <2>3, <2>4 DEF IngestLine
  <2>. QED
    BY <2>1, <2>2, <2>5
<1>. QED
  BY <1>4, <1>5

(* One symbol more.                                                        *)
LEMMA SymbolTaken ==
  ASSUME LinesOK, NEW got, NEW n \in Nat, NEW r \in 0..2, ReadTo(got, n, r),
         3 * n + r + 1 <= Length
  PROVE  LET g == TakeSymbol(got, Symbol(3 * n + r + 1)) IN
         IF r = 2 THEN ReadTo(g, n + 1, 0) ELSE ReadTo(g, n, r + 1)
<1>1. PICK c, s, d : c = got.carry /\ s = got.shown /\ d = got.calls
  OBVIOUS
<1>2. /\ got = [carry |-> c, shown |-> s, calls |-> d] /\ c = CarryOf(n, r)
      /\ c \in Seq(Nat) /\ s \in Seq(FieldValues("token")) /\ IsCalls(d)
  BY <1>1 DEF ReadTo, IsGot
<1>3. CASE r = 2
  <2>1. n + 1 <= Len(lines)
    BY <1>3 DEF Length, LinesOK
  <2>2. PICK h : h = Ingest(got, lines[n + 1])
    OBVIOUS
  <2>3. IsGot(h) /\ SaysAll(h, n + 1)
    BY <2>1, <2>2, IngestTakes DEF ReadTo
  <2>4. TakeSymbol(got, Symbol(3 * n + r + 1)) = [h EXCEPT !.carry = <<>>]
    <3>1. Symbol(3 * n + r + 1) = NewLine
      BY <1>3, SymbolOf
    <3>a. got.carry = CarryOf(n, 2)
      BY <1>1, <1>2, <1>3
    <3>b. IngestLine(got, CarryOf(n, 2)) = h
      BY <2>1, <2>2, LineOf
    <3>2. IngestLine(got, got.carry) = h
      BY <3>a, <3>b
    <3>. QED
      BY <3>1, <3>2 DEF TakeSymbol
  <2>5. PICK g : g = [h EXCEPT !.carry = <<>>]
    OBVIOUS
  <2>6. PICK t, e : t = h.shown /\ e = h.calls
    OBVIOUS
  <2>7. g = [carry |-> <<>>, shown |-> t, calls |-> e]
    BY <2>3, <2>5, <2>6 DEF IsGot
  <2>8. g.carry = <<>> /\ g.shown = t /\ g.calls = e
    BY <2>7
  <2>9. IsGot(g)
    BY <2>3, <2>6, <2>7, <2>8 DEF IsGot
  <2>10. SaysAll(g, n + 1)
    BY <2>3, <2>6, <2>8 DEF SaysAll
  <2>. QED
    BY <1>3, <2>4, <2>5, <2>8, <2>9, <2>10 DEF ReadTo, CarryOf
<1>4. CASE r # 2
  <2>1. Symbol(3 * n + r + 1) = 2 * n + r + 1 /\ 2 * n + r + 1 \in Nat
    BY <1>4, SymbolOf
  <2>2. 2 * n + r + 1 # NewLine
    BY DEF NewLine
  <2>3. PICK y \in Nat : y = 2 * n + r + 1
    BY <2>1
  <2>4. TakeSymbol(got, Symbol(3 * n + r + 1)) = [got EXCEPT !.carry = Append(@, y)]
    BY <2>1, <2>2, <2>3 DEF TakeSymbol
  <2>5. PICK b : b = Append(c, y)
    OBVIOUS
  <2>6. PICK g : g = [carry |-> b, shown |-> s, calls |-> d]
    OBVIOUS
  <2>7. TakeSymbol(got, Symbol(3 * n + r + 1)) = g
    BY <1>2, <2>4, <2>5, <2>6
  <2>8. g.carry = b /\ g.shown = s /\ g.calls = d
    BY <2>6
  <2>9. b \in Seq(Nat)
    BY <1>2, <2>5
  <2>10. IsGot(g)
    BY <1>2, <2>6, <2>8, <2>9 DEF IsGot
  <2>11. SaysAll(g, n)
    BY <1>1, <2>8 DEF SaysAll, ReadTo
  <2>12. b = CarryOf(n, r + 1)
    <3>1. CASE r = 0
      BY <1>2, <2>3, <2>5, <3>1 DEF CarryOf
    <3>2. CASE r = 1
      <4>1. PICK x \in Nat : x = 2 * n + 1
        OBVIOUS
      <4>2. c = <<x>> /\ y = 2 * n + 2
        BY <1>2, <2>3, <3>2, <4>1 DEF CarryOf
      <4>3. b = <<x, y>>
        <5>1. /\ <<x>> \in Seq(Nat) /\ Len(<<x>>) = 1 /\ <<x>>[1] = x
              /\ <<x, y>> \in Seq(Nat) /\ Len(<<x, y>>) = 2 /\ <<x, y>>[1] = x /\ <<x, y>>[2] = y
          OBVIOUS
        <5>2. PICK e \in Seq(Nat) : e = <<x>>
          BY <5>1
        <5>3. /\ Append(e, y) \in Seq(Nat) /\ Len(Append(e, y)) = 2
              /\ Append(e, y)[1] = x /\ Append(e, y)[2] = y
          BY <5>1, <5>2
        <5>4. PICK gg \in Seq(Nat), h \in Seq(Nat) : gg = Append(e, y) /\ h = <<x, y>>
          BY <5>1, <5>3
        <5>5. Len(gg) = Len(h) /\ \A i \in 1..Len(gg) : gg[i] = h[i]
          <6>1. Len(gg) = 2 /\ Len(h) = 2 /\ gg[1] = h[1] /\ gg[2] = h[2]
            BY <5>1, <5>3, <5>4
          <6>. QED
            BY <6>1
        <5>6. gg = h
          BY <5>5, SeqEqual
        <5>. QED
          BY <2>5, <4>2, <5>2, <5>4, <5>6
      <4>4. CarryOf(n, 2) = <<x, y>>
        <5>1. CarryOf(n, 2) = <<2 * n + 1, 2 * n + 2>>
          BY DEF CarryOf
        <5>. QED
          BY <4>1, <4>2, <5>1
      <4>. QED
        BY <3>2, <4>3, <4>4
    <3>. QED
      BY <1>4, <3>1, <3>2
  <2>. QED
    BY <1>4, <2>7, <2>8, <2>10, <2>11, <2>12 DEF ReadTo
<1>. QED
  BY <1>3, <1>4

(* A function that takes one symbol after another, as Fed defines it.      *)
IsFed(fed, got, s, n) ==
  fed = [k \in 0..n |-> IF k = 0 THEN got ELSE TakeSymbol(fed[k - 1], s[k])]
(* There is one for a read of any length.                                  *)
LEMMA FedExists ==
  ASSUME NEW got, NEW s, NEW n \in Nat
  PROVE  \E fed : IsFed(fed, got, s, n)
<1>. DEFINE S == {m \in Nat : \E fed : IsFed(fed, got, s, m)}
<1>1. 0 \in S
  <2>1. PICK fed : fed = [k \in 0..0 |-> got]
    OBVIOUS
  <2>2. IsFed(fed, got, s, 0)
    BY <2>1 DEF IsFed
  <2>. QED
    BY <2>2
<1>2. ASSUME NEW m \in Nat, m \in S PROVE m + 1 \in S
  <2>1. PICK fed : IsFed(fed, got, s, m)
    BY <1>2
  <2>2. PICK new : new = [k \in 0..(m + 1) |-> IF k = m + 1 THEN TakeSymbol(fed[m], s[k]) ELSE fed[k]]
    OBVIOUS
  <2>3. \A k \in 0..m : new[k] = fed[k] /\ k # m + 1
    BY <1>2, <2>2
  <2>4. ASSUME NEW k \in 0..(m + 1)
        PROVE  new[k] = IF k = 0 THEN got ELSE TakeSymbol(new[k - 1], s[k])
    <3>1. CASE k = m + 1
      <4>1. new[k] = TakeSymbol(fed[m], s[k])
        BY <2>2, <3>1
      <4>2. k - 1 = m /\ k # 0 /\ m \in 0..m
        BY <1>2, <3>1
      <4>3. new[k - 1] = fed[m]
        BY <2>3, <4>2
      <4>. QED
        BY <4>1, <4>2, <4>3
    <3>2. CASE k = 0
      <4>1. 0 \in 0..m
        BY <1>2
      <4>2. fed[0] = got
        BY <2>1, <4>1 DEF IsFed
      <4>. QED
        BY <2>3, <3>2, <4>1, <4>2
    <3>3. CASE k # 0 /\ k # m + 1
      <4>1. k \in 0..m /\ k - 1 \in 0..m
        BY <1>2, <3>3
      <4>2. fed[k] = TakeSymbol(fed[k - 1], s[k])
        BY <2>1, <3>3, <4>1 DEF IsFed
      <4>3. new[k] = fed[k] /\ new[k - 1] = fed[k - 1]
        BY <2>3, <4>1
      <4>. QED
        BY <3>3, <4>2, <4>3
    <3>. QED
      BY <3>1, <3>2, <3>3
  <2>5. DOMAIN new = 0..(m + 1) /\ new = [k \in 0..(m + 1) |-> new[k]]
    BY <2>2
  <2>6. new = [k \in 0..(m + 1) |-> IF k = 0 THEN got ELSE TakeSymbol(new[k - 1], s[k])]
    BY <2>4, <2>5
  <2>7. IsFed(new, got, s, m + 1)
    BY <2>6 DEF IsFed
  <2>. QED
    BY <1>2, <2>7
<1>. HIDE DEF S
<1>3. Nat \subseteq S
  BY <1>1, <1>2, NatInd
<1>. QED
  BY <1>3 DEF S

(* Fed is its last value.                                                  *)
LEMMA FedIs ==
  ASSUME NEW got, NEW s, Len(s) \in Nat
  PROVE  \E fed : IsFed(fed, got, s, Len(s)) /\ Fed(got, s) = fed[Len(s)]
<1>1. PICK fed : fed = CHOOSE f : IsFed(f, got, s, Len(s))
  OBVIOUS
<1>2. IsFed(fed, got, s, Len(s))
  BY <1>1, FedExists
<1>3. Fed(got, s) = fed[Len(s)]
  BY <1>1 DEF Fed, IsFed
<1>. QED
  BY <1>2, <1>3

(* However many symbols a read takes, the whole lines of it are ingested   *)
(* and the rest is carried.                                                *)
LEMMA ReadIs ==
  ASSUME LinesOK, NEW got, NEW p \in Nat, NEW q \in Nat, p + q <= Length,
         \E n \in Nat, r \in 0..2 : p = 3 * n + r /\ ReadTo(got, n, r)
  PROVE  \E n \in Nat, r \in 0..2 :
           p + q = 3 * n + r /\ ReadTo(Feed(got, [k \in 1..q |-> Symbol(p + k)]), n, r)
<1>1. PICK s : s = [k \in 1..q |-> Symbol(p + k)]
  OBVIOUS
<1>2. Len(s) = q
  BY <1>1
<1>3. PICK fed : IsFed(fed, got, s, q) /\ Fed(got, s) = fed[q]
  BY <1>2, FedIs
<1>. DEFINE S == {k \in Nat : k <= q =>
                    \E n \in Nat, r \in 0..2 : p + k = 3 * n + r /\ ReadTo(fed[k], n, r)}
<1>4. 0 \in S
  <2>1. 0 \in 0..q
    OBVIOUS
  <2>2. fed[0] = got
    BY <1>3, <2>1 DEF IsFed
  <2>. QED
    BY <2>2
<1>5. ASSUME NEW k \in Nat, k \in S PROVE k + 1 \in S
  <2>1. SUFFICES ASSUME k + 1 <= q
                 PROVE  \E n \in Nat, r \in 0..2 : p + (k + 1) = 3 * n + r /\ ReadTo(fed[k + 1], n, r)
    OBVIOUS
  <2>2. PICK n \in Nat, r \in 0..2 : p + k = 3 * n + r /\ ReadTo(fed[k], n, r)
    BY <1>5, <2>1
  <2>3. k + 1 \in 0..q /\ k + 1 # 0 /\ k + 1 - 1 = k /\ k + 1 \in 1..q
    BY <2>1
  <2>4. fed[k + 1] = TakeSymbol(fed[k], s[k + 1])
    BY <1>3, <2>3 DEF IsFed
  <2>5. s[k + 1] = Symbol(p + (k + 1)) /\ p + (k + 1) = 3 * n + r + 1
    BY <1>1, <2>2, <2>3
  <2>6. 3 * n + r + 1 <= Length
    <3>1. Length \in Int
      BY DEF Length, LinesOK
    <3>. QED
      BY <2>1, <2>5, <3>1
  <2>7. fed[k + 1] = TakeSymbol(fed[k], Symbol(3 * n + r + 1))
    BY <2>4, <2>5
  <2>8. IF r = 2 THEN ReadTo(fed[k + 1], n + 1, 0) ELSE ReadTo(fed[k + 1], n, r + 1)
    BY <2>2, <2>6, <2>7, SymbolTaken
  <2>9. CASE r = 2
    <3>1. n + 1 \in Nat /\ 0 \in 0..2 /\ p + (k + 1) = 3 * (n + 1) + 0
      BY <2>5, <2>9
    <3>. QED
      BY <2>8, <2>9, <3>1
  <2>10. CASE r # 2
    <3>1. r + 1 \in 0..2 /\ p + (k + 1) = 3 * n + (r + 1)
      BY <2>5, <2>10
    <3>. QED
      BY <2>8, <2>10, <3>1
  <2>. QED
    BY <2>9, <2>10
<1>. HIDE DEF S
<1>6. Nat \subseteq S
  BY <1>4, <1>5, NatInd
<1>7. \E n \in Nat, r \in 0..2 : p + q = 3 * n + r /\ ReadTo(fed[q], n, r)
  BY <1>6 DEF S
<1>. QED
  BY <1>1, <1>3, <1>7 DEF Feed

-----------------------------------------------------------------------------
(* The inductive invariant: what was read is what the whole lines say, and *)
(* the symbols of the next line are carried, until the body ends.          *)
CarriedOf(n, r) ==
  IF provider = "ollama" /\ ending = "done" THEN <<>> ELSE CarryOf(n, r)
StreamIInv ==
  /\ LinesOK /\ sent \in 0..Length
  /\ ending \in {"running", "done", "failed", "aborted"} /\ signalled \in BOOLEAN
  /\ \E n \in Nat, r \in 0..2 :
       /\ sent = 3 * n + r /\ IsGot(Got) /\ carry = CarriedOf(n, r)
       /\ SaysAll(Got, IF provider = "ollama" /\ ending = "done" /\ r = 2 THEN n + 1 ELSE n)

(* It gives what is checked ...                                            *)
LEMMA StreamHolds ==
  ASSUME StreamIInv
  PROVE  StreamInv
<1>1. PICK n \in Nat, r \in 0..2 :
       /\ sent = 3 * n + r /\ IsGot(Got) /\ carry = CarriedOf(n, r)
       /\ SaysAll(Got, IF provider = "ollama" /\ ending = "done" /\ r = 2 THEN n + 1 ELSE n)
  BY DEF StreamIInv
<1>2. sent % 3 = r /\ sent \div 3 = n
  BY <1>1, SymbolOf
<1>3. Taken = IF provider = "ollama" /\ ending = "done" /\ r = 2 THEN n + 1 ELSE n
  BY <1>2 DEF Taken, LastWithoutNewLine
<1>4. Len(carry) <= 2
  <2>1. carry = <<>> \/ carry = <<2 * n + 1>> \/ carry = <<2 * n + 1, 2 * n + 2>>
    BY <1>1 DEF CarriedOf, CarryOf
  <2>2. Len(<<>>) = 0 /\ Len(<<2 * n + 1>>) = 1 /\ Len(<<2 * n + 1, 2 * n + 2>>) = 2
    OBVIOUS
  <2>3. CASE carry = <<>>
    BY <2>2, <2>3
  <2>4. CASE carry = <<2 * n + 1>>
    BY <2>2, <2>4
  <2>5. CASE carry = <<2 * n + 1, 2 * n + 2>>
    BY <2>2, <2>5
  <2>. QED
    BY <2>1, <2>3, <2>4, <2>5
<1>5. DOMAIN toolCalls \subseteq Nat
  BY <1>1 DEF IsGot, Got, IsCalls
<1>. QED
  BY <1>1, <1>3, <1>4, <1>5 DEF StreamIInv, StreamInv, StreamTypeOK, CutsDoNotMatter

(* ... and it holds at first.                                              *)
LEMMA StreamStarts ==
  ASSUME StreamInit, StreamAssumption
  PROVE  StreamIInv
<1>1. LinesOK
  <2>1. lines \in Bodies[provider] /\ provider \in Adapters
    BY DEF StreamInit
  <2>2. IsBody(lines)
    BY <2>1 DEF StreamAssumption
  <2>3. Len(lines) \in Nat /\ DOMAIN lines = 1..Len(lines)
    BY <2>2 DEF IsBody
  <2>. QED
    BY <2>1, <2>2, <2>3 DEF StreamInit, IsBody, LinesOK
<1>2. /\ sent = 0 /\ carry = <<>> /\ shown = <<>> /\ toolCalls = [i \in {} |-> None]
      /\ signalled = FALSE /\ ending = "running"
  BY DEF StreamInit
<1>3. sent \in 0..Length
  <2>1. Len(lines) \in Nat /\ (lines # <<>> => Len(lines) > 0)
    BY <1>1 DEF LinesOK
  <2>. QED
    BY <1>2, <2>1 DEF Length
<1>4. Got.carry = <<>> /\ Got.shown = <<>> /\ Got.calls = toolCalls
  BY <1>2 DEF Got
<1>5. DOMAIN toolCalls = {}
  BY <1>2
<1>6. IsGot(Got)
  <2>1. <<>> \in Seq(Nat) /\ <<>> \in Seq(FieldValues("token"))
    OBVIOUS
  <2>2. IsCalls(toolCalls)
    BY <1>2, <1>5 DEF IsCalls
  <2>. QED
    BY <1>4, <2>1, <2>2 DEF IsGot, Got
<1>7. SaysAll(Got, 0)
  <2>1. 1..0 = {}
    OBVIOUS
  <2>2. WithToken(0) = {} /\ WithName(0) = {}
    BY <2>1 DEF WithToken, WithName
  <2>3. Lists(<<>>, 0, {}, "token")
    <3>1. DOMAIN <<>> = {}
      OBVIOUS
    <3>. QED
      BY <3>1, ListsNone
  <2>4. Lists([i \in DOMAIN toolCalls |-> toolCalls[i].name], 0, {}, "name")
    <3>1. DOMAIN [i \in DOMAIN toolCalls |-> toolCalls[i].name] = {}
      BY <1>5
    <3>. QED
      BY <3>1, ListsNone
  <2>5. {lines[k].index : k \in 1..0} \ {0} = {}
    BY <2>1
  <2>. QED
    BY <1>4, <1>5, <2>2, <2>3, <2>4, <2>5 DEF SaysAll
<1>. QED
  <2>1. 0 \in Nat /\ 0 \in 0..2 /\ sent = 3 * 0 + 0
    BY <1>2
  <2>2. carry = CarriedOf(0, 0) /\ ~(provider = "ollama" /\ ending = "done" /\ 0 = 2)
    BY <1>2 DEF CarriedOf, CarryOf
  <2>3. \E n \in Nat, r \in 0..2 :
          /\ sent = 3 * n + r /\ IsGot(Got) /\ carry = CarriedOf(n, r)
          /\ SaysAll(Got, IF provider = "ollama" /\ ending = "done" /\ r = 2 THEN n + 1 ELSE n)
    BY <1>6, <1>7, <2>1, <2>2
  <2>. QED
    BY <1>1, <1>2, <1>3, <2>3 DEF StreamIInv

(* What was put together of the same lines is what it was.                 *)
LEMMA Becoming ==
  ASSUME LinesOK, lines' = lines, provider' = provider, terminated' = terminated,
         sent' \in 0..Length, ending' \in {"running", "done", "failed", "aborted"},
         signalled' \in BOOLEAN, NEW got, Got' = got,
         NEW n \in Nat, NEW r \in 0..2, sent' = 3 * n + r, carry' = CarriedOf(n, r)',
         NEW m, m = (IF provider = "ollama" /\ ending' = "done" /\ r = 2 THEN n + 1 ELSE n),
         IsGot(got), SaysAll(got, m)
  PROVE  StreamIInv'
<1>1. LinesOK' /\ Length' = Length
  BY DEF LinesOK, Length
<1>2. IsGot(got)'
  <2>1. CallType' = CallType /\ FieldValues("token")' = FieldValues("token")
    BY DEF CallType, FieldValues
  <2>. QED
    BY <2>1 DEF IsGot, IsCalls
<1>a. SaysAll(got, m)'
  <2>1. WithToken(m)' = WithToken(m) /\ WithName(m)' = WithName(m)
    BY DEF WithToken, WithName
  <2>2. \A i : WithArgs(m, i)' = WithArgs(m, i)
    BY DEF WithArgs
  <2>3. \A v, P, f : Lists(v, m, P, f)' <=> Lists(v, m, P, f)
    BY DEF Lists
  <2>4. {lines[k].index : k \in 1..m}' = {lines[k].index : k \in 1..m}
    OBVIOUS
  <2>. QED
    BY <2>1, <2>2, <2>3, <2>4 DEF SaysAll
<1>3. IsGot(Got)' /\ SaysAll(Got, m)'
  BY <1>2, <1>a
<1>. QED
  BY <1>1, <1>3 DEF StreamIInv

(* A step keeps it.                                                        *)
LEMMA StreamStep ==
  ASSUME StreamIInv, [StreamNext]_streamVars
  PROVE  StreamIInv'
<1>1. PICK n \in Nat, r \in 0..2 :
       /\ sent = 3 * n + r /\ IsGot(Got) /\ carry = CarriedOf(n, r)
       /\ SaysAll(Got, IF provider = "ollama" /\ ending = "done" /\ r = 2 THEN n + 1 ELSE n)
  BY DEF StreamIInv
<1>2. /\ LinesOK /\ sent \in 0..Length /\ sent \in Nat
      /\ ending \in {"running", "done", "failed", "aborted"} /\ signalled \in BOOLEAN
  BY <1>1 DEF StreamIInv
<1>a. PICK before : before = Got
  OBVIOUS
<1>b. PICK p \in Nat : p = sent
  BY <1>2
<1>3. CASE ReadSome
  <2>1. /\ ending = "running" /\ ending' = "running" /\ provider' = provider /\ lines' = lines
        /\ terminated' = terminated /\ signalled' = signalled
    BY <1>3 DEF ReadSome
  <2>2. PICK q \in 1..MaxRead :
          /\ p + q <= Length /\ sent' = p + q
          /\ Becomes(Feed(before, [k \in 1..q |-> Symbol(p + k)]))
    BY <1>3, <1>a, <1>b DEF ReadSome
  <2>3. ReadTo(before, n, r) /\ p = 3 * n + r
    BY <1>1, <1>a, <1>b, <2>1 DEF ReadTo, CarriedOf, Got
  <2>4. PICK got : got = Feed(before, [k \in 1..q |-> Symbol(p + k)])
    OBVIOUS
  <2>a. q \in Nat
    OBVIOUS
  <2>5. PICK m \in Nat, x \in 0..2 : p + q = 3 * m + x /\ ReadTo(got, m, x)
    BY <1>2, <2>2, <2>3, <2>4, <2>a, ReadIs
  <2>6. Got' = got
    <3>1. carry' = got.carry /\ shown' = got.shown /\ toolCalls' = got.calls
      BY <2>2, <2>4 DEF Becomes
    <3>. QED
      BY <2>5, <3>1 DEF Got, ReadTo, IsGot
  <2>7. sent' \in 0..Length /\ sent' = 3 * m + x
    <3>2. Length \in Int
      BY <1>2 DEF Length, LinesOK
    <3>. QED
      BY <2>2, <2>5, <2>a, <3>2
  <2>8. carry' = CarriedOf(m, x)'
    <3>1. carry' = CarryOf(m, x)
      BY <2>5, <2>6 DEF ReadTo, Got
    <3>. QED
      BY <2>1, <3>1 DEF CarriedOf
  <2>9. IsGot(got) /\ SaysAll(got, m)
    BY <2>5 DEF ReadTo
  <2>. QED
    BY <1>2, <2>1, <2>6, <2>7, <2>8, <2>9, Becoming
<1>4. CASE BodyEnds
  <2>1. /\ ending = "running" /\ ending' = "done" /\ provider' = provider /\ lines' = lines
        /\ terminated' = terminated /\ signalled' = signalled /\ sent' = sent
    BY <1>4 DEF BodyEnds
  <2>2. ReadTo(before, n, r) /\ IsGot(before) /\ SaysAll(before, n) /\ before.carry = carry
    BY <1>1, <1>a, <1>b, <2>1 DEF ReadTo, CarriedOf, Got
  <2>3. PICK got : got = IF provider = "ollama"
                         THEN [IngestLine(before, before.carry) EXCEPT !.carry = <<>>] ELSE before
    OBVIOUS
  <2>4. carry' = got.carry /\ shown' = got.shown /\ toolCalls' = got.calls
    BY <1>4, <1>a, <2>2, <2>3 DEF BodyEnds, Becomes
  <2>5. PICK m \in {n, n + 1} : m = IF provider = "ollama" /\ r = 2 THEN n + 1 ELSE n
    OBVIOUS
  <2>6. /\ IsGot(got) /\ SaysAll(got, m)
        /\ got.carry = IF provider = "ollama" THEN <<>> ELSE CarryOf(n, r)
    <3>1. CASE provider # "ollama"
      BY <2>2, <2>3, <2>5, <3>1 DEF ReadTo
    <3>2. CASE provider = "ollama"
      <4>1. PICK h : h = IngestLine(before, before.carry)
        OBVIOUS
      <4>2. IsGot(h) /\ SaysAll(h, m)
        <5>1. CASE r = 2
          <6>1. n + 1 <= Len(lines)
            BY <1>1, <1>2, <5>1 DEF Length, LinesOK
          <6>2. before.carry = CarryOf(n, 2)
            BY <2>2, <5>1 DEF ReadTo
          <6>3. h = Ingest(before, lines[n + 1])
            BY <1>2, <4>1, <6>1, <6>2, LineOf
          <6>. QED
            BY <1>2, <2>2, <2>5, <3>2, <5>1, <6>1, <6>3, IngestTakes
        <5>2. CASE r # 2
          <6>1. before.carry = CarryOf(n, 0) \/ before.carry = CarryOf(n, 1)
            <7>1. r = 0 \/ r = 1
              BY <5>2
            <7>. QED
              BY <2>2, <7>1 DEF ReadTo
          <6>2. h = before
            BY <1>2, <4>1, <6>1, LineOf
          <6>. QED
            BY <2>2, <2>5, <5>2, <6>2
        <5>. QED
          BY <5>1, <5>2
      <4>3. PICK t, e : t = h.shown /\ e = h.calls
        OBVIOUS
      <4>4. got = [carry |-> <<>>, shown |-> t, calls |-> e]
        BY <2>3, <3>2, <4>1, <4>2, <4>3 DEF IsGot
      <4>5. got.carry = <<>> /\ got.shown = t /\ got.calls = e
        BY <4>4
      <4>6. IsGot(got)
        BY <4>2, <4>3, <4>4, <4>5 DEF IsGot
      <4>7. SaysAll(got, m)
        BY <4>2, <4>3, <4>5 DEF SaysAll
      <4>. QED
        BY <3>2, <4>5, <4>6, <4>7
    <3>. QED
      BY <3>1, <3>2
  <2>7. Got' = got
    BY <2>4, <2>6 DEF Got, IsGot
  <2>8. carry' = CarriedOf(n, r)'
    BY <2>1, <2>4, <2>6 DEF CarriedOf
  <2>. QED
    BY <1>1, <1>2, <2>1, <2>5, <2>6, <2>7, <2>8, Becoming
<1>5. CASE BodyBreaks \/ AbortStream \/ UNCHANGED streamVars
  <2>1. /\ provider' = provider /\ lines' = lines /\ terminated' = terminated /\ sent' = sent
        /\ carry' = carry /\ shown' = shown /\ toolCalls' = toolCalls
        /\ ending' \in {"running", "done", "failed", "aborted"} /\ signalled' \in BOOLEAN
        /\ ending' = "done" <=> ending = "done"
    BY <1>2, <1>5 DEF BodyBreaks, AbortStream, streamVars
  <2>2. Got' = before
    BY <1>a, <2>1 DEF Got
  <2>3. PICK m \in {n, n + 1} :
          m = IF provider = "ollama" /\ ending = "done" /\ r = 2 THEN n + 1 ELSE n
    OBVIOUS
  <2>4. IsGot(before) /\ SaysAll(before, m)
    BY <1>1, <1>a, <2>3
  <2>5. carry' = CarriedOf(n, r)'
    BY <1>1, <2>1 DEF CarriedOf
  <2>. QED
    BY <1>1, <1>2, <2>1, <2>2, <2>3, <2>4, <2>5, Becoming
<1>. QED
  BY <1>3, <1>4, <1>5 DEF StreamNext

(* Wherever the reads cut a model's answer, what was made of it is what    *)
(* the whole of its lines says.                                            *)
THEOREM AnswerIsOfWholeLines == StreamInit /\ [][StreamNext]_streamVars => []StreamInv
<1>1. StreamInit => StreamIInv
  BY StreamAssumption, StreamStarts
<1>2. StreamIInv /\ [StreamNext]_streamVars => StreamIInv'
  BY StreamStep
<1>3. StreamIInv => StreamInv
  BY StreamHolds
<1>. QED
  BY <1>1, <1>2, <1>3, PTL

-----------------------------------------------------------------------------
(* What a deletion frees: for any models, which may share any blobs of any *)
(* sizes.  FreedIsReal needs what the two scans measured of a directory    *)
(* that only the deletion changed, and that sums of sizes can be split.    *)

(* Weights are added up as a count of units, so that they can be split.    *)
Units(weight, S) == UNION {{x} \X (1..weight[x]) : x \in S}
WeightOf(weight, S) == Cardinality(Units(weight, S))

(* The units of finitely many things are finitely many.                    *)
LEMMA UnitsFinite ==
  ASSUME NEW S, IsFiniteSet(S), NEW weight, \A x \in S : weight[x] \in Nat
  PROVE  IsFiniteSet(Units(weight, S)) /\ WeightOf(weight, S) \in Nat
<1>1. PICK parts : parts = {{x} \X (1..weight[x]) : x \in S}
  OBVIOUS
<1>2. PICK f : f = [x \in S |-> {x} \X (1..weight[x])]
  OBVIOUS
<1>3. f \in Surjection(S, parts)
  BY <1>1, <1>2 DEF Surjection
<1>4. IsFiniteSet(parts)
  BY <1>3, FS_Surjection
<1>5. \A T \in parts : IsFiniteSet(T)
  <2>1. SUFFICES ASSUME NEW x \in S
                 PROVE  IsFiniteSet({x} \X (1..weight[x]))
    BY <1>1
  <2>2. IsFiniteSet({x})
    BY FS_Singleton
  <2>3. weight[x] \in Nat
    OBVIOUS
  <2>4. IsFiniteSet(1..weight[x])
    BY <2>3, FS_Interval
  <2> QED BY <2>2, <2>4, FS_Product
<1>6. IsFiniteSet(UNION parts)
  BY <1>4, <1>5, FS_UNION
<1>7. UNION parts = Units(weight, S)
  BY <1>1 DEF Units
<1> QED BY <1>6, <1>7, FS_CardinalityType DEF WeightOf

(* What is taken from a set and what stays weigh together what it weighed. *)
LEMMA WeightSplits ==
  ASSUME NEW S, IsFiniteSet(S), NEW T \in SUBSET S, NEW weight, \A x \in S : weight[x] \in Nat
  PROVE  WeightOf(weight, S) = WeightOf(weight, S \ T) + WeightOf(weight, T)
<1>1. IsFiniteSet(T) /\ IsFiniteSet(S \ T)
  BY FS_Subset
<1>2. IsFiniteSet(Units(weight, T)) /\ IsFiniteSet(Units(weight, S \ T))
  BY <1>1, UnitsFinite
<1>3. Units(weight, S) = Units(weight, S \ T) \cup Units(weight, T)
  BY DEF Units
<1>4. Units(weight, S \ T) \cap Units(weight, T) = {}
  BY DEF Units
<1>5. Cardinality({}) = 0
  BY FS_EmptySet
<1>6. PICK A, B : A = Units(weight, S \ T) /\ B = Units(weight, T)
  OBVIOUS
<1>7. Cardinality(A) \in Nat /\ Cardinality(B) \in Nat
  BY <1>2, <1>6, FS_CardinalityType
<1>8. Cardinality(A \cup B) = Cardinality(A) + Cardinality(B) - Cardinality(A \cap B)
  BY <1>2, <1>6, FS_Union
<1>9. Cardinality(A \cup B) = Cardinality(A) + Cardinality(B)
  <2>1. A \cap B = {}
    BY <1>4, <1>6
  <2>2. Cardinality(A \cap B) = 0
    BY <1>5, <2>1
  <2> QED BY <1>7, <1>8, <2>2
<1> QED BY <1>3, <1>6, <1>9 DEF WeightOf

(* The sizes of blobs are weights.                                         *)
LEMMA BytesAreWeights == \A blobs : BytesOf(blobs) = WeightOf(BlobSize, blobs)
BY DEF BytesOf, WeightOf, Units

-----------------------------------------------------------------------------
(* What is on the disk.                                                    *)
OnDiskBytes == BytesOf(whole) + Cardinality(partial)
DiskOK ==
  /\ whole \subseteq AllBlobs /\ partial \subseteq AllBlobs
  /\ \A t \in installed : BlobsOf[t] \subseteq whole

(* What the two scans of a deletion have measured.                         *)
Measured ==
  deletion.step \in {"before", "after"} /\ undisturbed =>
    /\ scan["delete"].step = "sizes" =>
         scan["delete"].whole = whole /\ scan["delete"].partial = partial
    /\ scan["delete"].step = "done" => scan["delete"].bytes = OnDiskBytes
DirectoryKnown ==
  /\ scan["delete"].step \in {"manifests", "list", "sizes", "done"} => DirectoryFound
  /\ deletion.step \in {"request", "deleted", "after"} /\ deletion.scans => DirectoryFound
  /\ deletion.step \in {"deleted", "after"} => deletion.scans
  /\ deletion.step = "after" => scan["delete"].step # Nowhere
Accounts ==
  /\ deletion.step = "request" /\ deletion.scans /\ undisturbed => deletion.before = OnDiskBytes
  /\ deletion.step \in {"deleted", "after"} /\ undisturbed =>
       deletion.gone \in Nat /\ deletion.before = OnDiskBytes + deletion.gone
  /\ deletion.step # "answered" => deletion.freed = {}
FreeIInv ==
  /\ ScanShape /\ undisturbed \in BOOLEAN
  /\ deletion = [step |-> deletion.step, tag |-> deletion.tag, before |-> deletion.before,
                 scans |-> deletion.scans, gone |-> deletion.gone, freed |-> deletion.freed]
  /\ DiskOK /\ Measured /\ DirectoryKnown /\ Accounts /\ FreedIsReal

(* At first the disk holds what the installed models name.                 *)
LEMMA FreeStarts == ASSUME LibInit, LibraryAssumption PROVE FreeIInv
<1>1. ScanShape
  BY DEF LibInit, ScanShape, NoScan, ScanCommands
<1>2. DiskOK
  BY DEF LibInit, DiskOK, AllBlobs
<1>3. \E t : deletion = [step |-> "idle", tag |-> t, before |-> 0, scans |-> FALSE, gone |-> 0,
                         freed |-> {}]
  BY DEF LibInit
<1>4. scan["delete"].step = "none" /\ undisturbed = FALSE
  BY DEF LibInit, NoScan, ScanCommands
<1>5. deletion = [step |-> deletion.step, tag |-> deletion.tag, before |-> deletion.before,
                  scans |-> deletion.scans, gone |-> deletion.gone, freed |-> deletion.freed]
      /\ deletion.step = "idle" /\ deletion.freed = {}
  BY <1>3
<1> QED BY <1>1, <1>2, <1>4, <1>5 DEF FreeIInv, Measured, DirectoryKnown, Accounts, FreedIsReal

(* The bytes on the disk are a number.                                     *)
LEMMA DiskIsCounted ==
  ASSUME DiskOK, LibraryAssumption
  PROVE  OnDiskBytes \in Nat /\ \A blobs \in SUBSET whole :
           BytesOf(blobs) \in Nat /\ BytesOf(whole) = BytesOf(whole \ blobs) + BytesOf(blobs)
                                  /\ BytesOf(whole \ blobs) \in Nat /\ Cardinality(partial) \in Nat
<1>1. IsFiniteSet(whole) /\ IsFiniteSet(partial) /\ \A b \in whole : BlobSize[b] \in Nat
  BY FS_Subset DEF DiskOK, LibraryAssumption
<1>2. Cardinality(partial) \in Nat
  BY <1>1, FS_CardinalityType
<1>3. ASSUME NEW blobs \in SUBSET whole
      PROVE  BytesOf(blobs) \in Nat /\ BytesOf(whole) = BytesOf(whole \ blobs) + BytesOf(blobs)
                                    /\ BytesOf(whole \ blobs) \in Nat
  <2>1. IsFiniteSet(blobs) /\ IsFiniteSet(whole \ blobs)
    BY <1>1, FS_Subset
  <2>2. WeightOf(BlobSize, blobs) \in Nat /\ WeightOf(BlobSize, whole \ blobs) \in Nat
    BY <1>1, <2>1, UnitsFinite
  <2>3. WeightOf(BlobSize, whole) = WeightOf(BlobSize, whole \ blobs) + WeightOf(BlobSize, blobs)
    BY <1>1, WeightSplits
  <2> QED BY <2>2, <2>3, BytesAreWeights
<1>4. whole \in SUBSET whole
  OBVIOUS
<1>5. BytesOf(whole) \in Nat
  BY <1>3, <1>4
<1>6. OnDiskBytes \in Nat
  BY <1>2, <1>5 DEF OnDiskBytes
<1> QED BY <1>2, <1>3, <1>6

(* A step that is neither of the deletion nor of its scan.                 *)
LEMMA OthersLeaveFreed ==
  ASSUME FreeIInv, Watched({}) \/ Watched({"storage"}), layout' = layout, deletion' = deletion,
         scan'["delete"] = scan["delete"], ScanShape', DiskOK',
         \/ UNCHANGED <<modelFiles, undisturbed>>
         \/ undisturbed' = FALSE
  PROVE  FreeIInv'
<1>1. undisturbed' => undisturbed /\ whole' = whole /\ partial' = partial
  BY DEF FreeIInv, modelFiles
<1>2. undisturbed' \in BOOLEAN
  BY DEF FreeIInv
<1>3. Measured'
  BY <1>1 DEF FreeIInv, Measured, OnDiskBytes
<1>4. DirectoryKnown'
  BY DEF FreeIInv, DirectoryKnown, DirectoryFound
<1>5. Accounts'
  BY <1>1 DEF FreeIInv, Accounts, OnDiskBytes
<1>6. FreedIsReal'
  BY <1>1 DEF FreeIInv, FreedIsReal
<1> QED BY <1>2, <1>3, <1>4, <1>5, <1>6 DEF FreeIInv

(* A walk finds the directory if and only if it is there.                  *)
LEMMA WalkOfDeletion ==
  ASSUME ScanShape, WalkManifests("delete")
  PROVE  /\ scan'["delete"].step \in {"manifests", Nowhere}
         /\ scan'["delete"].step = "manifests" <=> DirectoryFound
<1>1. DOMAIN scan = ScanCommands /\ "delete" \in ScanCommands
  BY DEF ScanShape, ScanCommands
<1>2. scan'["delete"] = IF DirectoryFound THEN [NoScan EXCEPT !.step = "manifests", !.todo = installed]
                        ELSE [NoScan EXCEPT !.step = Nowhere]
  <2> HIDE DEF DirectoryFound
  <2> QED BY <1>1 DEF WalkManifests
<1> HIDE DEF DirectoryFound
<1> QED BY <1>2 DEF NoScan, Nowhere

(* A deletion begins with a scan.                                          *)
LEMMA DeletionBegins ==
  ASSUME FreeIInv, NEW t \in Tags, BeginDelete(t), ScanShape'
  PROVE  FreeIInv'
<1>1. /\ deletion' = [step |-> "before", tag |-> t, before |-> deletion.before,
                      scans |-> deletion.scans, gone |-> deletion.gone, freed |-> deletion.freed]
      /\ deletion.step = "idle"
      /\ undisturbed' = TRUE /\ layout' = layout /\ UNCHANGED <<installed, whole, partial>>
  BY DEF BeginDelete, FreeIInv, modelFiles
<1>2. /\ scan'["delete"].step \in {"manifests", Nowhere}
      /\ scan'["delete"].step = "manifests" <=> DirectoryFound
  BY WalkOfDeletion DEF BeginDelete, FreeIInv
<1>3. deletion.freed = {}
  BY <1>1 DEF FreeIInv, Accounts
<1>4. Measured'
  BY <1>2 DEF Measured, Nowhere
<1>5. DirectoryKnown'
  <2>1. DirectoryFound' = DirectoryFound
    BY <1>1 DEF DirectoryFound
  <2>2. DirectoryKnown' <=> (scan'["delete"].step \in {"manifests", "list", "sizes", "done"} => DirectoryFound')
    BY <1>1 DEF DirectoryKnown
  <2> QED BY <1>2, <2>1, <2>2 DEF Nowhere
<1>6. Accounts' /\ FreedIsReal' /\ DiskOK'
  BY <1>1, <1>3 DEF Accounts, FreedIsReal, DiskOK, FreeIInv
<1> QED BY <1>1, <1>4, <1>5, <1>6 DEF FreeIInv

(* A scan of a directory that nobody changed measures what is there.       *)
LEMMA ScanOfDeletion ==
  ASSUME FreeIInv, ScanStep("delete"), ScanShape'
  PROVE  FreeIInv'
<1>1. /\ UNCHANGED <<layout, installed, whole, partial, deletion, undisturbed>>
      /\ scan["delete"].step \in {"manifests", "list", "sizes"}
  BY DEF ScanStep, ReadManifest, ListBlobs, StatBlobs, modelFiles
<1>2. DOMAIN scan = ScanCommands /\ "delete" \in ScanCommands
  BY DEF FreeIInv, ScanShape, ScanCommands
<1>3. PICK s : s = scan["delete"]
  OBVIOUS
<1>4. s = [step |-> s.step, todo |-> s.todo, read |-> s.read, whole |-> s.whole,
           partial |-> s.partial, bytes |-> s.bytes]
  BY <1>2, <1>3 DEF FreeIInv, ScanShape
<1>5. /\ scan'["delete"].step \in {"manifests", "list", "sizes", "done"}
      /\ scan'["delete"].step = "sizes" =>
           scan'["delete"].whole = whole /\ scan'["delete"].partial = partial
      /\ scan'["delete"].step = "done" =>
           s.step = "sizes" /\ scan'["delete"].bytes = BytesOf(s.whole \cap whole) +
                                                      Cardinality(s.partial \cap partial)
  <2>1. CASE ReadManifest("delete")
    <3>1. CASE s.todo = {}
      BY <1>2, <1>3, <1>4, <2>1, <3>1 DEF ReadManifest
    <3>2. CASE s.todo # {}
      <4>1. PICK t : scan' = [scan EXCEPT !["delete"] = AfterManifest("delete", t)]
        BY <1>3, <2>1, <3>2 DEF ReadManifest
      <4>2. scan'["delete"].step = s.step
        BY <1>2, <1>3, <1>4, <4>1 DEF AfterManifest
      <4> QED BY <1>3, <2>1, <4>2 DEF ReadManifest
    <3> QED BY <3>1, <3>2
  <2>2. CASE ListBlobs("delete")
    BY <1>2, <1>3, <1>4, <2>2 DEF ListBlobs
  <2>3. CASE StatBlobs("delete")
    <3>1. PICK total : total = BytesOf(s.whole \cap whole) + Cardinality(s.partial \cap partial)
      OBVIOUS
    <3>2. scan' = [scan EXCEPT !["delete"].step = "done", !["delete"].bytes = total]
          /\ s.step = "sizes"
      BY <1>3, <2>3, <3>1 DEF StatBlobs
    <3>3. scan'["delete"].step = "done" /\ scan'["delete"].bytes = total
      BY <1>2, <1>3, <1>4, <3>2
    <3> QED BY <3>1, <3>2, <3>3
  <2> QED BY <2>1, <2>2, <2>3 DEF ScanStep
<1>6. Measured'
  <2>1. SUFFICES ASSUME deletion.step \in {"before", "after"}, undisturbed,
                        scan'["delete"].step = "done"
                 PROVE  scan'["delete"].bytes = BytesOf(whole) + Cardinality(partial)
    BY <1>1, <1>5 DEF Measured, OnDiskBytes
  <2>2. s.whole \cap whole = whole /\ s.partial \cap partial = partial
    BY <1>3, <1>5, <2>1 DEF FreeIInv, Measured
  <2> QED BY <1>5, <2>1, <2>2
<1>7. DirectoryKnown'
  <2>1. DirectoryFound /\ DirectoryFound' = DirectoryFound
    BY <1>1 DEF FreeIInv, DirectoryKnown, DirectoryFound
  <2> HIDE DEF DirectoryFound
  <2> QED BY <1>1, <1>5, <2>1 DEF FreeIInv, DirectoryKnown, Nowhere
<1>8. Accounts' /\ FreedIsReal' /\ DiskOK'
  BY <1>1 DEF FreeIInv, Accounts, FreedIsReal, DiskOK, OnDiskBytes
<1> QED BY <1>1, <1>6, <1>7, <1>8 DEF FreeIInv

(* What the first scan measured is what is on the disk when Ollama is      *)
(* asked, unless something else changed it.                                *)
LEMMA DeletionAsks ==
  ASSUME FreeIInv, CheckInstalled, ScanShape'
  PROVE  FreeIInv'
<1>1. PICK to, k : /\ to \in {"request", "not_found"} /\ k = (scan["delete"].step = "done")
                   /\ deletion' = [deletion EXCEPT !.step = to, !.before = scan["delete"].bytes,
                                                   !.scans = k]
  BY DEF CheckInstalled
<1>2. deletion' = [step |-> to, tag |-> deletion.tag, before |-> scan["delete"].bytes,
                   scans |-> k, gone |-> deletion.gone, freed |-> deletion.freed]
  BY <1>1 DEF FreeIInv
<1>3. /\ deletion.step = "before" /\ Over("delete") /\ UNCHANGED <<layout, installed, whole, partial, undisturbed>>
      /\ scan'["delete"] = NoScan
  BY DEF CheckInstalled, FreeIInv, ScanShape, ScanCommands, modelFiles
<1>4. scan'["delete"].step = "none"
  BY <1>3 DEF NoScan
<1>5. Measured'
  BY <1>1, <1>2 DEF Measured
<1>6. DirectoryKnown'
  <2>1. DirectoryFound' = DirectoryFound
    BY <1>3 DEF DirectoryFound
  <2> HIDE DEF DirectoryFound
  <2> QED BY <1>1, <1>2, <1>4, <2>1 DEF FreeIInv, DirectoryKnown, Nowhere
<1>7. Accounts'
  BY <1>1, <1>2, <1>3 DEF FreeIInv, Measured, Accounts, OnDiskBytes
<1>8. FreedIsReal' /\ DiskOK'
  BY <1>1, <1>2, <1>3 DEF FreeIInv, FreedIsReal, DiskOK
<1> QED BY <1>2, <1>3, <1>5, <1>6, <1>7, <1>8 DEF FreeIInv

(* Ollama frees the blobs that only the deleted model names.               *)
LEMMA ModelDeleted ==
  ASSUME FreeIInv, LibraryAssumption, DeleteModel, ScanShape'
  PROVE  FreeIInv'
<1>1. PICK t, blobs : t = deletion.tag /\ blobs = UniqueTo(t, installed)
  OBVIOUS
<1>2. /\ deletion.step = "request" /\ t \in installed /\ installed' = installed \ {t}
      /\ whole' = whole \ blobs /\ partial' = partial
      /\ UNCHANGED <<layout, scan, undisturbed>>
      /\ deletion' = [deletion EXCEPT !.step = IF deletion.scans THEN "deleted" ELSE "answered",
                                      !.gone = BytesOf(blobs)]
  BY <1>1 DEF DeleteModel
<1>3. deletion' = [step |-> IF deletion.scans THEN "deleted" ELSE "answered", tag |-> t,
                   before |-> deletion.before, scans |-> deletion.scans, gone |-> BytesOf(blobs),
                   freed |-> deletion.freed]
  BY <1>1, <1>2 DEF FreeIInv
<1>4. blobs \in SUBSET whole
  BY <1>1, <1>2 DEF FreeIInv, DiskOK, UniqueTo
<1>5. /\ OnDiskBytes \in Nat /\ BytesOf(blobs) \in Nat
      /\ BytesOf(whole) = BytesOf(whole \ blobs) + BytesOf(blobs)
      /\ BytesOf(whole \ blobs) \in Nat /\ Cardinality(partial) \in Nat
  BY <1>4, DiskIsCounted DEF FreeIInv
<1>6. OnDiskBytes = OnDiskBytes' + BytesOf(blobs)
  <2>1. OnDiskBytes' = BytesOf(whole \ blobs) + Cardinality(partial)
    BY <1>2 DEF OnDiskBytes
  <2> QED BY <1>5, <2>1 DEF OnDiskBytes
<1>7. DiskOK'
  <2>1. \A u \in installed' : BlobsOf[u] \cap blobs = {}
    BY <1>1, <1>2 DEF UniqueTo
  <2> QED BY <1>2, <2>1 DEF FreeIInv, DiskOK
<1>8. Measured'
  BY <1>3 DEF Measured
<1>9. DirectoryKnown'
  <2>1. DirectoryFound' = DirectoryFound
    BY <1>2 DEF DirectoryFound
  <2> HIDE DEF DirectoryFound
  <2> QED BY <1>2, <1>3, <2>1 DEF FreeIInv, DirectoryKnown
<1>10. Accounts'
  BY <1>2, <1>3, <1>5, <1>6 DEF FreeIInv, Accounts
<1>11. FreedIsReal'
  BY <1>2, <1>3 DEF FreeIInv, Accounts, FreedIsReal
<1> QED BY <1>2, <1>3, <1>7, <1>8, <1>9, <1>10, <1>11 DEF FreeIInv

(* A deletion that fails has freed nothing and says nothing.               *)
LEMMA DeletionFails ==
  ASSUME FreeIInv, DeleteFails, ScanShape'
  PROVE  FreeIInv'
<1>1. /\ deletion' = [step |-> "failed", tag |-> deletion.tag, before |-> deletion.before,
                      scans |-> deletion.scans, gone |-> deletion.gone, freed |-> deletion.freed]
      /\ deletion.step = "request"
      /\ UNCHANGED <<layout, installed, whole, partial, scan, undisturbed>>
  BY DEF DeleteFails, FreeIInv, modelFiles
<1>2. DirectoryKnown'
  <2>1. DirectoryFound' = DirectoryFound
    BY <1>1 DEF DirectoryFound
  <2> HIDE DEF DirectoryFound
  <2> QED BY <1>1, <2>1 DEF FreeIInv, DirectoryKnown
<1> QED BY <1>1, <1>2 DEF FreeIInv, Measured, Accounts, FreedIsReal, DiskOK

(* The second scan finds the directory the first one found.                *)
LEMMA DeletionScansAgain ==
  ASSUME FreeIInv, ScanAgain, ScanShape'
  PROVE  FreeIInv'
<1>1. /\ deletion' = [step |-> "after", tag |-> deletion.tag, before |-> deletion.before,
                      scans |-> deletion.scans, gone |-> deletion.gone, freed |-> deletion.freed]
      /\ deletion.step = "deleted"
      /\ UNCHANGED <<layout, installed, whole, partial, undisturbed>>
  BY DEF ScanAgain, FreeIInv, modelFiles
<1>2. /\ scan'["delete"].step \in {"manifests", Nowhere}
      /\ scan'["delete"].step = "manifests" <=> DirectoryFound
  BY WalkOfDeletion DEF ScanAgain, FreeIInv
<1>3. DirectoryFound
  BY <1>1 DEF FreeIInv, DirectoryKnown
<1>4. scan'["delete"].step = "manifests"
  BY <1>2, <1>3
<1>5. DirectoryKnown'
  <2>1. DirectoryFound'
    BY <1>1, <1>3 DEF DirectoryFound
  <2>2. deletion.scans
    BY <1>1 DEF FreeIInv, DirectoryKnown
  <2> QED BY <1>1, <1>4, <2>1, <2>2 DEF DirectoryKnown, Nowhere
<1>6. Measured'
  BY <1>4 DEF Measured
<1>7. Accounts' /\ FreedIsReal' /\ DiskOK'
  BY <1>1 DEF FreeIInv, Accounts, FreedIsReal, DiskOK, OnDiskBytes
<1> QED BY <1>1, <1>5, <1>6, <1>7 DEF FreeIInv

(* The two measures differ by what was freed.                              *)
LEMMA DeletionAnswered ==
  ASSUME FreeIInv, LibraryAssumption, AnswerDelete, ScanShape'
  PROVE  FreeIInv'
<1>1. PICK freed : freed = Freed(deletion.before, scan["delete"].bytes)
  OBVIOUS
<1>2. /\ deletion' = [deletion EXCEPT !.step = "answered", !.freed = {freed}]
      /\ deletion.step = "after" /\ Over("delete")
      /\ UNCHANGED <<layout, installed, whole, partial, undisturbed>>
  BY <1>1 DEF AnswerDelete, modelFiles
<1>3. deletion' = [step |-> "answered", tag |-> deletion.tag, before |-> deletion.before,
                   scans |-> deletion.scans, gone |-> deletion.gone, freed |-> {freed}]
  BY <1>2 DEF FreeIInv
<1>4. scan'["delete"].step = "none"
  <2>1. scan'["delete"] = NoScan
    BY DEF AnswerDelete, FreeIInv, ScanShape, ScanCommands
  <2> QED BY <2>1 DEF NoScan
<1>5. FreedIsReal'
  <2>1. SUFFICES ASSUME undisturbed
                 PROVE  freed = deletion.gone
    BY <1>2, <1>3 DEF FreedIsReal
  <2>2. scan["delete"].step = "done"
    BY <1>2 DEF FreeIInv, DirectoryKnown, Over
  <2>3. scan["delete"].bytes = OnDiskBytes
    BY <1>2, <2>1, <2>2 DEF FreeIInv, Measured
  <2>4. deletion.gone \in Nat /\ deletion.before = OnDiskBytes + deletion.gone
    BY <1>2, <2>1 DEF FreeIInv, Accounts
  <2>5. OnDiskBytes \in Nat
    BY DiskIsCounted DEF FreeIInv
  <2> QED BY <1>1, <2>3, <2>4, <2>5 DEF Freed
<1>6. DirectoryKnown'
  BY <1>3, <1>4 DEF DirectoryKnown
<1>7. Measured' /\ Accounts'
  BY <1>3 DEF Measured, Accounts
<1>8. DiskOK'
  BY <1>2 DEF FreeIInv, DiskOK
<1> QED BY <1>2, <1>3, <1>5, <1>6, <1>7, <1>8 DEF FreeIInv

(* Every step keeps the account of a deletion.                             *)
LEMMA FreeStepKeeps ==
  ASSUME FreeIInv, ScanShape', LibraryAssumption, [LibNext]_libVars
  PROVE  FreeIInv'
<1>1. ASSUME NEW t \in Tags, StartPull(t)
      PROVE  FreeIInv'
  <2>1. DiskOK'
    BY <1>1 DEF StartPull, modelFiles, FreeIInv, DiskOK
  <2> QED BY <1>1, <2>1, OthersLeaveFreed DEF StartPull
<1>2. ASSUME NEW t \in Tags, BeginDelete(t)
      PROVE  FreeIInv'
  BY <1>2, DeletionBegins
<1>3. ASSUME NEW t \in Tags, NEW b \in BlobsOf[t], FetchBlob(b)
      PROVE  FreeIInv'
  <2>1. b \in AllBlobs
    BY DEF AllBlobs
  <2>2. /\ whole' \in {whole, whole \cup {b}} /\ partial' \in {partial \ {b}, partial \cup {b}}
        /\ installed' = installed
    BY <1>3 DEF FetchBlob
  <2>3. DiskOK'
    BY <2>1, <2>2 DEF FreeIInv, DiskOK
  <2> QED BY <1>3, <2>3, OthersLeaveFreed DEF FetchBlob, PullLine
<1>4. CASE Install
  <2>1. DiskOK'
    BY <1>4 DEF Install, FreeIInv, DiskOK
  <2> QED BY <1>4, <2>1, OthersLeaveFreed DEF Install, PullLine
<1>5. CASE ReadPullLine \/ PullBodyEnds \/ PullFails \/ ClientGone
  <2>1. DiskOK'
    BY <1>5 DEF ReadPullLine, PullBodyEnds, PullFails, ClientGone, modelFiles, FreeIInv, DiskOK
  <2> QED BY <1>5, <2>1, OthersLeaveFreed
          DEF ReadPullLine, PullBodyEnds, PullFails, ClientGone, PullLine
<1>6. CASE Storage \/ ScanStep("storage")
  <2>1. DiskOK' /\ UNCHANGED <<layout, deletion, modelFiles, undisturbed>>
    BY <1>6 DEF Storage, ScanStep, ReadManifest, ListBlobs, StatBlobs, modelFiles, FreeIInv, DiskOK
  <2>2. Watched({}) \/ Watched({"storage"})
    BY <1>6 DEF Storage, WalkManifests, ScanStep, ReadManifest, ListBlobs, StatBlobs
  <2>3. scan'["delete"] = scan["delete"]
    BY <1>6 DEF Storage, WalkManifests, ScanStep, ReadManifest, ListBlobs, StatBlobs,
                FreeIInv, ScanShape, ScanCommands
  <2> QED BY <2>1, <2>2, <2>3, OthersLeaveFreed
<1>7. CASE ScanStep("delete")
  BY <1>7, ScanOfDeletion
<1>8. CASE DeleteStep
  BY <1>8, DeletionAsks, ModelDeleted, DeletionFails, DeletionScansAgain, DeletionAnswered
     DEF DeleteStep
<1>9. CASE UNCHANGED libVars
  <2>1. UNCHANGED <<layout, scan, installed, whole, partial, deletion, undisturbed>>
    BY <1>9 DEF libVars, modelFiles
  <2> QED BY <2>1 DEF FreeIInv, ScanShape, DiskOK, Measured, DirectoryKnown, Accounts, FreedIsReal,
                      OnDiskBytes, DirectoryFound
<1> QED BY <1>1, <1>2, <1>3, <1>4, <1>5, <1>6, <1>7, <1>8, <1>9 DEF LibNext, PullStep, ScanCommands

(* What "/models delete" says it freed is what Ollama freed, for any       *)
(* models, shared blobs and sizes, whatever pulls and reports go on beside *)
(* it, so long as only the deletion changed the directory.                 *)
THEOREM FreedBytesAreReal ==
  LibInit /\ [][LibNext]_libVars => []FreedIsReal
<1>1. LibInit => LibIInv /\ FreeIInv
  BY LibraryAssumption, LibStarts, FreeStarts
<1>2. LibIInv /\ [LibNext]_libVars => LibIInv'
  BY LibStepKeeps
<1>3. LibIInv' => ScanShape'
  BY DEF LibIInv
<1>4. LibIInv /\ FreeIInv /\ [LibNext]_libVars => FreeIInv'
  BY <1>2, <1>3, LibraryAssumption, FreeStepKeeps
<1>5. FreeIInv => FreedIsReal
  BY DEF FreeIInv
<1>. QED
  BY <1>1, <1>2, <1>4, <1>5, PTL

-----------------------------------------------------------------------------
(* Several prompts that read one input: for any texts, cut anywhere, and   *)
(* any number of prompts.  The answers are lines of the text, so an        *)
(* invariant says which part of it has been answered, and which part waits *)
(* in the buffer.                                                          *)

(* A function made step by step.                                           *)
IsIteration(f, b, next, n) == f[0] = b /\ \A k \in 1..n : f[k] = next[<<f[k - 1], k>>]

(* A recursion over numbers has a solution.                                *)
LEMMA Iterates ==
  ASSUME NEW D, NEW b \in D, NEW next \in [D \X Nat -> D], NEW n \in Nat
  PROVE  \E f \in [0..n -> D] : IsIteration(f, b, next, n)
<1> DEFINE S == {m \in Nat : \E f \in [0..m -> D] :
                   f[0] = b /\ \A k \in 1..m : f[k] = next[<<f[k - 1], k>>]}
<1>1. 0 \in S
  <2>1. PICK f : f = [k \in 0..0 |-> b]
    OBVIOUS
  <2>2. f \in [0..0 -> D] /\ f[0] = b /\ \A k \in 1..0 : f[k] = next[<<f[k - 1], k>>]
    BY <2>1
  <2> QED BY <2>2
<1>2. ASSUME NEW m \in Nat, m \in S PROVE m + 1 \in S
  <2>1. PICK f \in [0..m -> D] : f[0] = b /\ \A k \in 1..m : f[k] = next[<<f[k - 1], k>>]
    BY <1>2
  <2>2. PICK x \in D : x = f[m]
    OBVIOUS
  <2>3. PICK y \in D : y = next[<<x, m + 1>>]
    OBVIOUS
  <2>4. PICK g : g = [k \in 0..(m + 1) |-> IF k = m + 1 THEN y ELSE f[k]]
    OBVIOUS
  <2>5. \A k \in 0..(m + 1) : k # m + 1 => k \in 0..m
    OBVIOUS
  <2>6. g \in [0..(m + 1) -> D]
    BY <2>4, <2>5
  <2>7. g[0] = b /\ \A k \in 0..m : g[k] = f[k]
    BY <2>1, <2>4
  <2>8. ASSUME NEW k \in 1..(m + 1)
        PROVE  g[k] = next[<<g[k - 1], k>>]
    <3>1. CASE k = m + 1
      <4>1. g[k - 1] = x /\ g[k] = y
        BY <2>2, <2>4, <2>7, <3>1
      <4> QED BY <2>3, <3>1, <4>1
    <3>2. CASE k # m + 1
      <4>1. k \in 1..m /\ k \in 0..m /\ k - 1 \in 0..m
        BY <3>2
      <4> QED BY <2>1, <2>7, <4>1
    <3> QED BY <3>1, <3>2
  <2> QED BY <2>6, <2>7, <2>8
<1> HIDE DEF S
<1>3. Nat \subseteq S
  BY <1>1, <1>2, NatInd
<1> QED BY <1>3 DEF S, IsIteration

(* The chunks joined are what they should be.                              *)
LEMMA JoinedIs ==
  ASSUME NEW K, NEW chunks \in Seq(Seq(K))
  PROVE  /\ Joined(chunks) \in [0..Len(chunks) -> Seq(K)]
         /\ Joined(chunks)[0] = <<>>
         /\ \A n \in 1..Len(chunks) : Joined(chunks)[n] = Joined(chunks)[n - 1] \o chunks[n]
<1>1. PICK next : next = [x \in Seq(K) \X Nat |->
                            IF x[2] \in 1..Len(chunks) THEN x[1] \o chunks[x[2]] ELSE x[1]]
  OBVIOUS
<1>2. \A x \in Seq(K), k \in Nat :
        next[<<x, k>>] = IF k \in 1..Len(chunks) THEN x \o chunks[k] ELSE x
  BY <1>1
<1>3. next \in [Seq(K) \X Nat -> Seq(K)]
  <2>1. SUFFICES \A x \in Seq(K), k \in Nat : next[<<x, k>>] \in Seq(K)
    BY <1>1
  <2>2. TAKE x \in Seq(K), k \in Nat
  <2>3. k \in 1..Len(chunks) => chunks[k] \in Seq(K)
    BY ElementOfSeq
  <2>4. k \in 1..Len(chunks) => x \o chunks[k] \in Seq(K)
    BY <2>3, ConcatProperties
  <2> QED BY <1>2, <2>4
<1>4. PICK n \in Nat : n = Len(chunks)
  OBVIOUS
<1>5. <<>> \in Seq(K)
  OBVIOUS
<1>6. PICK f \in [0..n -> Seq(K)] : f[0] = <<>> /\ \A k \in 1..n : f[k] = next[<<f[k - 1], k>>]
  <2>1. PICK D, b : D = Seq(K) /\ b = <<>>
    OBVIOUS
  <2>2. b \in D /\ next \in [D \X Nat -> D]
    BY <1>3, <1>5, <2>1
  <2>3. \E f \in [0..n -> D] : IsIteration(f, b, next, n)
    BY <1>4, <2>2, Iterates
  <2> QED BY <2>1, <2>3 DEF IsIteration
<1>7. \A k \in 0..n : f[k] = IF k = 0 THEN <<>> ELSE f[k - 1] \o chunks[k]
  <2>1. TAKE k \in 0..n
  <2>2. CASE k = 0
    BY <1>6, <2>2
  <2>3. CASE k # 0
    <3>1. k \in 1..n /\ k - 1 \in 0..n /\ k \in Nat
      BY <2>3
    <3>2. f[k - 1] \in Seq(K)
      BY <3>1
    <3>3. f[k] = next[<<f[k - 1], k>>]
      BY <1>6, <3>1
    <3>4. next[<<f[k - 1], k>>] = f[k - 1] \o chunks[k]
      BY <1>2, <1>4, <3>1, <3>2
    <3> QED BY <2>3, <3>3, <3>4
  <2> QED BY <2>2, <2>3
<1>8. f = [k \in 0..n |-> IF k = 0 THEN <<>> ELSE f[k - 1] \o chunks[k]]
  BY <1>7
<1>9. PICK g : g = CHOOSE j : j = [k \in 0..n |-> IF k = 0 THEN <<>> ELSE j[k - 1] \o chunks[k]]
  OBVIOUS
<1>10. g = [k \in 0..n |-> IF k = 0 THEN <<>> ELSE g[k - 1] \o chunks[k]]
  BY <1>8, <1>9
<1>11. Joined(chunks) = g
  BY <1>4, <1>9 DEF Joined
<1>12. \A k \in 0..n : g[k] = IF k = 0 THEN <<>> ELSE g[k - 1] \o chunks[k]
  BY <1>10
<1>13. 0 \in 0..n /\ \A k \in 1..n : k \in 0..n /\ k # 0
  OBVIOUS
<1>14. g[0] = <<>>
  BY <1>12, <1>13
<1>15. \A k \in 1..n : g[k] = g[k - 1] \o chunks[k]
  BY <1>12, <1>13
<1>16. \A k \in Nat : k <= n => g[k] \in Seq(K)
  <2> DEFINE S == {k \in Nat : k <= n => g[k] \in Seq(K)}
  <2>1. 0 \in S
    BY <1>5, <1>14
  <2>2. ASSUME NEW k \in Nat, k \in S PROVE k + 1 \in S
    <3>1. SUFFICES ASSUME k + 1 <= n PROVE g[k + 1] \in Seq(K)
      OBVIOUS
    <3>2. k + 1 \in 1..n /\ k <= n /\ k + 1 - 1 = k
      BY <3>1
    <3>3. g[k] \in Seq(K)
      BY <2>2, <3>2
    <3>4. chunks[k + 1] \in Seq(K)
      BY <1>4, <3>2, ElementOfSeq
    <3>5. PICK m \in 1..n : m = k + 1 /\ m - 1 = k
      BY <3>2
    <3>6. g[m] = g[m - 1] \o chunks[m]
      BY <1>15
    <3> QED BY <3>3, <3>4, <3>5, <3>6, ConcatProperties
  <2> HIDE DEF S
  <2>3. Nat \subseteq S
    BY <2>1, <2>2, NatInd
  <2> QED BY <2>3 DEF S
<1>17. g \in [0..n -> Seq(K)]
  <2>1. g = [k \in 0..n |-> g[k]]
    BY <1>10
  <2>2. \A k \in 0..n : g[k] \in Seq(K)
    BY <1>16
  <2> QED BY <2>1, <2>2
<1> QED BY <1>4, <1>11, <1>14, <1>15, <1>17

(* A part of a sequence.                                                   *)
LEMMA PartIs ==
  ASSUME NEW K, NEW s \in Seq(K), NEW m \in 1..(Len(s) + 1), NEW n \in (m - 1)..Len(s)
  PROVE  /\ SubSeq(s, m, n) \in Seq(K) /\ Len(SubSeq(s, m, n)) = n - m + 1
         /\ \A i \in 1..(n - m + 1) : SubSeq(s, m, n)[i] = s[m + i - 1]
<1>1. m \in Int /\ n \in Int /\ m <= n + 1
  OBVIOUS
<1>2. \A i \in m..n : s[i] \in K
  <2>1. TAKE i \in m..n
  <2>2. i \in 1..Len(s)
    BY <1>1
  <2> QED BY <2>2, ElementOfSeq
<1>3. /\ SubSeq(s, m, n) \in Seq(K)
      /\ Len(SubSeq(s, m, n)) = IF m <= n THEN n - m + 1 ELSE 0
      /\ \A i \in 1..(n - m + 1) : SubSeq(s, m, n)[i] = s[m + i - 1]
  BY <1>1, <1>2, SubSeqProperties
<1> QED BY <1>1, <1>3

(* Editing by the rubout, key by key; no rubout is left.                   *)
LEMMA RubsIs ==
  ASSUME NEW K, NEW keys \in Seq(K)
  PROVE  /\ Rubs(keys) \in [0..Len(keys) -> Seq(K \ {"del"})]
         /\ Rubs(keys)[0] = <<>>
         /\ \A n \in 1..Len(keys) : Rubs(keys)[n] = Rub(Rubs(keys)[n - 1], keys[n])
<1>1. PICK D : D = Seq(K \ {"del"})
  OBVIOUS
<1>2. \A x \in D, k \in K : Rub(x, k) \in D
  <2>1. TAKE x \in D, k \in K
  <2>2. CASE k # "del"
    <3>1. Append(x, k) \in D
      BY <1>1, <2>2, AppendProperties
    <3> QED BY <2>2, <3>1 DEF Rub
  <2>3. CASE k = "del" /\ x # <<>>
    <3>1. Len(x) \in Nat \ {0} /\ x \in Seq(K \ {"del"})
      BY <1>1, <2>3
    <3>2. 1 \in 1..(Len(x) + 1) /\ Len(x) - 1 \in (1 - 1)..Len(x)
      BY <3>1
    <3>3. SubSeq(x, 1, Len(x) - 1) \in D
      BY <1>1, <3>1, <3>2, PartIs
    <3> QED BY <2>3, <3>3 DEF Rub, Front
  <2>4. CASE k = "del" /\ x = <<>>
    BY <2>4 DEF Rub
  <2> QED BY <2>2, <2>3, <2>4
<1>3. PICK n \in Nat : n = Len(keys)
  OBVIOUS
<1>4. PICK next : next = [x \in D \X Nat |-> IF x[2] \in 1..n THEN Rub(x[1], keys[x[2]]) ELSE x[1]]
  OBVIOUS
<1>5. \A k \in 1..n : keys[k] \in K
  BY <1>3, ElementOfSeq
<1>6. \A x \in D, k \in Nat : next[<<x, k>>] = IF k \in 1..n THEN Rub(x, keys[k]) ELSE x
  BY <1>4
<1>7. next \in [D \X Nat -> D]
  <2>1. SUFFICES \A x \in D, k \in Nat : next[<<x, k>>] \in D
    BY <1>4
  <2>2. TAKE x \in D, k \in Nat
  <2>3. k \in 1..n => keys[k] \in K /\ Rub(x, keys[k]) \in D
    BY <1>2, <1>5
  <2> QED BY <1>6, <2>3
<1>8. PICK b \in D : b = <<>>
  <2>1. <<>> \in Seq(K \ {"del"})
    OBVIOUS
  <2> QED BY <1>1, <2>1
<1>9. \E f \in [0..n -> D] : IsIteration(f, b, next, n)
  BY <1>3, <1>7, <1>8, Iterates
<1>10. PICK f \in [0..n -> D] : IsIteration(f, b, next, n)
  BY <1>9
<1>11. \A k \in 0..n : f[k] = IF k = 0 THEN <<>> ELSE Rub(f[k - 1], keys[k])
  <2>1. TAKE k \in 0..n
  <2>2. CASE k = 0
    BY <1>8, <1>10, <2>2 DEF IsIteration
  <2>3. CASE k # 0
    <3>1. k \in 1..n /\ k - 1 \in 0..n /\ k \in Nat
      BY <1>3, <2>3
    <3>2. f[k - 1] \in D
      BY <1>10, <3>1
    <3>3. f[k] = next[<<f[k - 1], k>>]
      BY <1>10, <3>1 DEF IsIteration
    <3>4. next[<<f[k - 1], k>>] = Rub(f[k - 1], keys[k])
      BY <1>6, <3>1, <3>2
    <3> QED BY <2>3, <3>3, <3>4
  <2> QED BY <2>2, <2>3
<1>12. f = [k \in 0..n |-> IF k = 0 THEN <<>> ELSE Rub(f[k - 1], keys[k])]
  BY <1>10, <1>11
<1>13. PICK g : g = CHOOSE j : j = [k \in 0..n |-> IF k = 0 THEN <<>> ELSE Rub(j[k - 1], keys[k])]
  OBVIOUS
<1>14. g = [k \in 0..n |-> IF k = 0 THEN <<>> ELSE Rub(g[k - 1], keys[k])]
  BY <1>12, <1>13
<1>15. Rubs(keys) = g
  BY <1>3, <1>13 DEF Rubs
<1>16. \A k \in 0..n : g[k] = IF k = 0 THEN <<>> ELSE Rub(g[k - 1], keys[k])
  BY <1>14
<1>17. g[0] = <<>> /\ \A k \in 1..n : g[k] = Rub(g[k - 1], keys[k])
  <2>1. 0 \in 0..n /\ \A k \in 1..n : k \in 0..n /\ k # 0
    BY <1>3
  <2> QED BY <1>16, <2>1
<1>18. \A k \in Nat : k <= n => g[k] \in D
  <2> DEFINE S == {k \in Nat : k <= n => g[k] \in D}
  <2>1. 0 \in S
    BY <1>8, <1>17
  <2>2. ASSUME NEW k \in Nat, k \in S PROVE k + 1 \in S
    <3>1. SUFFICES ASSUME k + 1 <= n PROVE g[k + 1] \in D
      OBVIOUS
    <3>2. PICK m \in 1..n : m = k + 1 /\ m - 1 = k /\ k <= n
      BY <1>3, <3>1
    <3>3. g[k] \in D
      BY <2>2, <3>2
    <3>4. keys[m] \in K
      BY <1>5, <3>2
    <3>5. g[m] = Rub(g[m - 1], keys[m])
      BY <1>17, <3>2
    <3> QED BY <1>2, <3>2, <3>3, <3>4, <3>5
  <2> HIDE DEF S
  <2>3. Nat \subseteq S
    BY <2>1, <2>2, NatInd
  <2> QED BY <2>3 DEF S
<1>19. g \in [0..n -> D]
  <2>1. g = [k \in 0..n |-> g[k]]
    BY <1>14
  <2>2. \A k \in 0..n : g[k] \in D
    BY <1>3, <1>18
  <2> QED BY <2>1, <2>2
<1> QED BY <1>1, <1>3, <1>15, <1>17, <1>19

(* What was edited before is edited further as if it had come at once.     *)
LEMMA RubbedTwice ==
  ASSUME NEW K, NEW a \in Seq(K), NEW b \in Seq(K)
  PROVE  Rubbed(a) \in Seq(K) /\ Rubbed(Rubbed(a) \o b) = Rubbed(a \o b)
<1>1. PICK p : p = Rubbed(a)
  OBVIOUS
<1>2. PICK la, lb, lp \in Nat : la = Len(a) /\ lb = Len(b) /\ lp = Len(p)
  <2>1. Len(a) \in Nat /\ Len(b) \in Nat
    OBVIOUS
  <2>2. Rubs(a) \in [0..Len(a) -> Seq(K \ {"del"})]
    BY RubsIs
  <2>3. p \in Seq(K \ {"del"})
    BY <1>1, <2>1, <2>2 DEF Rubbed
  <2> QED BY <2>1, <2>3
<1>3. p \in Seq(K \ {"del"}) /\ p \in Seq(K)
  <2>1. Rubs(a) \in [0..Len(a) -> Seq(K \ {"del"})]
    BY RubsIs
  <2>2. p \in Seq(K \ {"del"})
    BY <1>1, <1>2, <2>1 DEF Rubbed
  <2> QED BY <2>2, SeqMonotonic
<1>4. PICK F, G, H : F = Rubs(a \o b) /\ G = Rubs(p \o b) /\ H = Rubs(a)
  OBVIOUS
<1>5. /\ a \o b \in Seq(K) /\ Len(a \o b) = la + lb
      /\ \A i \in 1..(la + lb) : (a \o b)[i] = IF i <= la THEN a[i] ELSE b[i - la]
      /\ p \o b \in Seq(K) /\ Len(p \o b) = lp + lb
      /\ \A i \in 1..(lp + lb) : (p \o b)[i] = IF i <= lp THEN p[i] ELSE b[i - lp]
  BY <1>2, <1>3, ConcatProperties
<1>6. /\ F[0] = <<>> /\ \A i \in 1..(la + lb) : F[i] = Rub(F[i - 1], (a \o b)[i])
      /\ G[0] = <<>> /\ \A i \in 1..(lp + lb) : G[i] = Rub(G[i - 1], (p \o b)[i])
      /\ H[0] = <<>> /\ \A i \in 1..la : H[i] = Rub(H[i - 1], a[i])
  <2>1. F[0] = <<>> /\ \A i \in 1..(la + lb) : F[i] = Rub(F[i - 1], (a \o b)[i])
    <3>1. a \o b \in Seq(K) /\ Len(a \o b) = la + lb
      BY <1>5
    <3> QED BY <1>4, <3>1, RubsIs
  <2>2. G[0] = <<>> /\ \A i \in 1..(lp + lb) : G[i] = Rub(G[i - 1], (p \o b)[i])
    <3>1. p \o b \in Seq(K) /\ Len(p \o b) = lp + lb
      BY <1>5
    <3> QED BY <1>4, <3>1, RubsIs
  <2>3. H[0] = <<>> /\ \A i \in 1..la : H[i] = Rub(H[i - 1], a[i])
    BY <1>2, <1>4, RubsIs
  <2> QED BY <2>1, <2>2, <2>3
<1>7. F[la] = p
  <2> DEFINE S == {i \in Nat : i <= la => F[i] = H[i]}
  <2>1. 0 \in S
    BY <1>6
  <2>2. ASSUME NEW i \in Nat, i \in S PROVE i + 1 \in S
    <3>1. SUFFICES ASSUME i + 1 <= la PROVE F[i + 1] = H[i + 1]
      OBVIOUS
    <3>2. PICK m \in 1..la : m = i + 1 /\ m - 1 = i /\ i <= la /\ m \in 1..(la + lb) /\ m <= la
      BY <1>2, <3>1
    <3>3. F[m] = Rub(F[i], a[m])
      BY <1>5, <1>6, <3>2
    <3>4. H[m] = Rub(H[i], a[m])
      BY <1>6, <3>2
    <3> QED BY <2>2, <3>2, <3>3, <3>4
  <2> HIDE DEF S
  <2>3. Nat \subseteq S
    BY <2>1, <2>2, NatInd
  <2>4. F[la] = H[la]
    BY <1>2, <2>3 DEF S
  <2> QED BY <1>1, <1>2, <1>4, <2>4 DEF Rubbed
<1>8. G[lp] = p
  <2> DEFINE S == {i \in Nat : i <= lp => G[i] = SubSeq(p, 1, i)}
  <2>1. 0 \in S
    <3>1. SubSeq(p, 1, 0) = <<>>
      BY SubSeqEmpty
    <3> QED BY <1>6, <3>1
  <2>2. ASSUME NEW i \in Nat, i \in S PROVE i + 1 \in S
    <3>1. SUFFICES ASSUME i + 1 <= lp PROVE G[i + 1] = SubSeq(p, 1, i + 1)
      OBVIOUS
    <3>2. PICK m \in 1..lp : m = i + 1 /\ m - 1 = i /\ i <= lp /\ m \in 1..(lp + lb) /\ m <= lp
      BY <1>2, <3>1
    <3>3. G[m] = Rub(G[i], p[m])
      BY <1>5, <1>6, <3>2
    <3>4. p[m] \in K \ {"del"}
      BY <1>2, <1>3, <3>2, ElementOfSeq
    <3>5. G[m] = Append(SubSeq(p, 1, i), p[m])
      BY <2>2, <3>2, <3>3, <3>4 DEF Rub
    <3>6. 1 \in 1..Len(p) /\ m \in 1..Len(p)
      BY <1>2, <3>2
    <3>7. SubSeq(p, 1, m) = SubSeq(p, 1, m - 1) \o <<p[m]>>
      BY <1>3, <3>6, SubSeqRecursiveSecond
    <3>8. SubSeq(p, 1, i) \in Seq(K)
      <4>1. 1 \in 1..(Len(p) + 1) /\ i \in (1 - 1)..Len(p)
        BY <1>2, <3>2
      <4> QED BY <1>3, <4>1, PartIs
    <3>9. Append(SubSeq(p, 1, i), p[m]) = SubSeq(p, 1, i) \o <<p[m]>>
      BY <3>4, <3>8, AppendIsConcat
    <3> QED BY <3>2, <3>5, <3>7, <3>9
  <2> HIDE DEF S
  <2>3. Nat \subseteq S
    BY <2>1, <2>2, NatInd
  <2>4. G[lp] = SubSeq(p, 1, lp)
    BY <1>2, <2>3 DEF S
  <2> QED BY <1>2, <1>3, <2>4, SubSeqFull
<1>9. F[la + lb] = G[lp + lb]
  <2> DEFINE S == {i \in Nat : i <= lb => F[la + i] = G[lp + i]}
  <2>1. 0 \in S
    <3>1. la + 0 = la /\ lp + 0 = lp
      BY <1>2
    <3> QED BY <1>7, <1>8, <3>1
  <2>2. ASSUME NEW i \in Nat, i \in S PROVE i + 1 \in S
    <3>1. SUFFICES ASSUME i + 1 <= lb PROVE F[la + (i + 1)] = G[lp + (i + 1)]
      OBVIOUS
    <3>2. PICK m, k : m = la + (i + 1) /\ k = lp + (i + 1)
      OBVIOUS
    <3>3. /\ m \in 1..(la + lb) /\ k \in 1..(lp + lb) /\ m - 1 = la + i /\ k - 1 = lp + i
          /\ m > la /\ k > lp /\ m - la = i + 1 /\ k - lp = i + 1 /\ i <= lb
      BY <1>2, <3>1, <3>2
    <3>4. (a \o b)[m] = b[i + 1] /\ (p \o b)[k] = b[i + 1]
      <4>1. ~(m <= la) /\ ~(k <= lp)
        BY <1>2, <3>2, <3>3
      <4>2. (a \o b)[m] = b[m - la]
        <5>1. \A j \in 1..(la + lb) : (a \o b)[j] = IF j <= la THEN a[j] ELSE b[j - la]
          BY <1>5
        <5> QED BY <3>3, <4>1, <5>1
      <4>3. (p \o b)[k] = b[k - lp]
        <5>1. \A j \in 1..(lp + lb) : (p \o b)[j] = IF j <= lp THEN p[j] ELSE b[j - lp]
          BY <1>5
        <5> QED BY <3>3, <4>1, <5>1
      <4> QED BY <3>3, <4>2, <4>3
    <3>5. F[m] = Rub(F[m - 1], (a \o b)[m]) /\ G[k] = Rub(G[k - 1], (p \o b)[k])
      BY <1>6, <3>3
    <3>6. F[la + i] = G[lp + i]
      BY <2>2, <3>3
    <3> QED BY <3>2, <3>3, <3>4, <3>5, <3>6
  <2> HIDE DEF S
  <2>3. Nat \subseteq S
    BY <2>1, <2>2, NatInd
  <2> QED BY <1>2, <2>3 DEF S
<1> QED BY <1>1, <1>3, <1>4, <1>5, <1>9 DEF Rubbed

(* The first end of a line.                                                *)
LEMMA LineEndIs ==
  ASSUME NEW K, NEW t \in Seq(K), NEW i \in 1..Len(t), t[i] = "nl", \A j \in 1..(i - 1) : t[j] # "nl"
  PROVE  HasLine(t) /\ LineEnd(t) = i
<1>1. LineEnd(t) = LET I == {k \in 1..Len(t) : t[k] = "nl"} IN IF I # {} THEN Min(I) ELSE 0
  BY DEF LineEnd, SelectInSeq
<1>2. PICK I : I = {k \in 1..Len(t) : t[k] = "nl"}
  OBVIOUS
<1>3. i \in I /\ \A k \in I : k \in Int /\ i <= k
  BY <1>2
<1>4. LineEnd(t) = Min(I)
  BY <1>1, <1>2, <1>3
<1>5. Min(I) = i
  <2>1. \A k \in I : (\A j \in I : k =< j) => k = i
    BY <1>3
  <2>2. i \in I /\ \A j \in I : i =< j
    BY <1>3
  <2> QED BY <2>1, <2>2 DEF Min
<1> QED BY <1>4, <1>5 DEF HasLine, Contains

(* A text with a line has a first end of a line.                           *)
LEMMA HasFirstEnd ==
  ASSUME NEW K, NEW t \in Seq(K), HasLine(t)
  PROVE  LineEnd(t) \in 1..Len(t) /\ t[LineEnd(t)] = "nl"
         /\ \A j \in 1..(LineEnd(t) - 1) : t[j] # "nl"
<1>1. PICK I : I = {k \in 1..Len(t) : t[k] = "nl"}
  OBVIOUS
<1>2. I \subseteq Nat /\ I # {}
  BY <1>1 DEF HasLine, Contains
<1>3. PICK i \in I : \A j \in I : i <= j
  BY <1>2, LeastNumber
<1>4. i \in 1..Len(t) /\ t[i] = "nl" /\ \A j \in 1..(i - 1) : t[j] # "nl"
  BY <1>1, <1>3
<1>5. LineEnd(t) = i
  BY <1>4, LineEndIs
<1> QED BY <1>4, <1>5

(* The line behind the place c is the next one, and so it is counted.      *)
IsNextLine(typed, c, e, n) ==
  /\ n + 1 \in 1..Len(LinesOf(typed))
  /\ LinesOf(typed)[n + 1] = SubSeq(typed, c + 1, e - 1)
  /\ \A d \in Nat : d <= e /\ d <= Len(typed) /\ (d = e \/ d = Len(typed)) =>
       Cardinality({s \in LineStarts(typed) : s <= d}) = n + 1

(* The line that begins behind the place c, up to its end at e or the end  *)
(* of the text, is the next one if n lines begin up to c.                  *)
LEMMA NextLine ==
  ASSUME NEW K, NEW typed \in Seq(K), NEW c \in Nat, NEW e \in Nat, NEW n \in Nat,
         c < e, c < Len(typed), e <= Len(typed) + 1, c = 0 \/ typed[c] = "nl",
         \A j \in (c + 1)..(e - 1) : typed[j] # "nl", e <= Len(typed) => typed[e] = "nl",
         Cardinality({s \in LineStarts(typed) : s <= c}) = n
  PROVE  IsNextLine(typed, c, e, n)
<1>1. PICK len \in Nat : len = Len(typed)
  OBVIOUS
<1>2. PICK starts : starts = LineStarts(typed)
  OBVIOUS
<1>3. starts \subseteq 1..len /\ IsFiniteSet(starts)
  <2>1. starts \subseteq 1..len /\ IsFiniteSet(1..len)
    BY <1>1, <1>2, FS_Interval DEF LineStarts
  <2> QED BY <2>1, FS_Subset
<1>4. c + 1 \in starts
  BY <1>1, <1>2 DEF LineStarts
<1>5. PICK early : early = {s \in starts : s <= c}
  OBVIOUS
<1>6. IsFiniteSet(early) /\ Cardinality(early) = n /\ c + 1 \notin early
  BY <1>2, <1>3, <1>5, FS_Subset
<1>7. IsFiniteSet(early \cup {c + 1}) /\ Cardinality(early \cup {c + 1}) = n + 1
  BY <1>6, FS_AddElement
<1>8. n + 1 <= Cardinality(starts) /\ Cardinality(starts) \in Nat
  <2>1. early \cup {c + 1} \subseteq starts
    BY <1>4, <1>5
  <2>2. Cardinality(early \cup {c + 1}) <= Cardinality(starts)
    BY <1>3, <2>1, FS_Subset
  <2>3. PICK total \in Nat : total = Cardinality(starts)
    BY <1>3, FS_CardinalityType
  <2>4. n + 1 <= total
    BY <1>7, <2>2, <2>3
  <2> QED BY <2>3, <2>4
<1>9. {r \in starts : r < c + 1} = early
  <2>1. \A r \in starts : r \in Nat
    BY <1>3
  <2>2. \A r \in starts : r < c + 1 <=> r <= c
    BY <2>1
  <2> QED BY <1>5, <2>2
<1>10. ASSUME NEW s \in starts, Cardinality({r \in starts : r < s}) = n
       PROVE  s = c + 1
  <2>1. s \in Nat
    BY <1>3
  <2>2. PICK less : less = {r \in starts : r < s}
    OBVIOUS
  <2>3. IsFiniteSet(less) /\ s \notin less
    BY <1>3, <2>1, <2>2, FS_Subset
  <2>4. CASE s < c + 1
    <3>1. less \cup {s} \subseteq early
      <4>1. ASSUME NEW q \in less \cup {s}
            PROVE  q \in early
        <5>1. q \in starts /\ q \in Nat /\ q <= s
          BY <1>3, <2>1, <2>2
        <5>2. q <= c
          BY <2>1, <2>4, <5>1
        <5> QED BY <1>5, <5>1, <5>2
      <4> QED BY <4>1
    <3>2. Cardinality(less \cup {s}) = n + 1
      BY <1>10, <2>2, <2>3, FS_AddElement
    <3>3. Cardinality(less \cup {s}) <= n
      BY <1>6, <3>1, FS_Subset
    <3> QED BY <3>2, <3>3
  <2>5. CASE c + 1 < s
    <3>1. early \cup {c + 1} \subseteq less
      <4>1. ASSUME NEW q \in early \cup {c + 1}
            PROVE  q \in less
        <5>1. q \in starts /\ q \in Nat /\ q <= c + 1
          BY <1>3, <1>4, <1>5
        <5>2. q < s
          BY <2>1, <2>5, <5>1
        <5> QED BY <2>2, <5>1, <5>2
      <4> QED BY <4>1
    <3>2. n + 1 <= Cardinality(less)
      BY <1>7, <2>3, <3>1, FS_Subset
    <3> QED BY <1>10, <2>2, <3>2
  <2> QED BY <2>1, <2>4, <2>5
<1>11. (CHOOSE s \in starts : Cardinality({r \in starts : r < s}) = n) = c + 1
  BY <1>4, <1>6, <1>9, <1>10
<1>12. PICK m \in 1..Cardinality(starts) : m = n + 1 /\ m - 1 = n
  BY <1>8
<1>13. Len(LinesOf(typed)) = Cardinality(starts) /\ LinesOf(typed)[m] = LineAt(typed, c + 1)
  <2>1. LinesOf(typed) = [k \in 1..Cardinality(starts) |->
           LineAt(typed, CHOOSE s \in starts : Cardinality({r \in starts : r < s}) = k - 1)]
    BY <1>2 DEF LinesOf
  <2>2. LinesOf(typed)[m] = LineAt(typed, CHOOSE s \in starts : Cardinality({r \in starts : r < s}) = m - 1)
    BY <1>12, <2>1
  <2>3. LinesOf(typed)[m] = LineAt(typed, c + 1)
    BY <1>11, <1>12, <2>2
  <2>4. Len(LinesOf(typed)) = Cardinality(starts)
    BY <1>8, <2>1
  <2> QED BY <2>3, <2>4
<1>14. PICK rest : rest = SubSeq(typed, c + 1, Len(typed))
  OBVIOUS
<1>17. /\ rest \in Seq(K) /\ Len(rest) = len - c
       /\ \A i \in 1..(len - c) : rest[i] = typed[c + i]
  <2>1. c + 1 \in 1..(Len(typed) + 1) /\ Len(typed) \in (c + 1 - 1)..Len(typed)
    BY <1>1
  <2>2. /\ SubSeq(typed, c + 1, Len(typed)) \in Seq(K)
        /\ Len(SubSeq(typed, c + 1, Len(typed))) = Len(typed) - (c + 1) + 1
        /\ \A i \in 1..(Len(typed) - (c + 1) + 1) :
             SubSeq(typed, c + 1, Len(typed))[i] = typed[c + 1 + i - 1]
    <3>1. PICK first, last : first = c + 1 /\ last = Len(typed)
      OBVIOUS
    <3>2. first \in 1..(Len(typed) + 1) /\ last \in (first - 1)..Len(typed)
      BY <2>1, <3>1
    <3>3. /\ SubSeq(typed, first, last) \in Seq(K) /\ Len(SubSeq(typed, first, last)) = last - first + 1
          /\ \A i \in 1..(last - first + 1) : SubSeq(typed, first, last)[i] = typed[first + i - 1]
      BY <3>2, PartIs
    <3> QED BY <3>1, <3>3
  <2>3. Len(typed) - (c + 1) + 1 = len - c /\ \A i \in 1..(len - c) : c + 1 + i - 1 = c + i
    BY <1>1
  <2>4. \A i \in 1..(len - c) : rest[i] = typed[c + 1 + i - 1]
    BY <1>14, <2>2, <2>3
  <2> QED BY <1>14, <2>2, <2>3, <2>4
<1>15. LineAt(typed, c + 1) = SubSeq(typed, c + 1, e - 1)
  <2>1. CASE e <= len
    <3>1. PICK i \in 1..Len(rest) : i = e - c
      BY <1>1, <1>14, <1>17, <2>1
    <3>2. rest[i] = "nl" /\ \A j \in 1..(i - 1) : rest[j] # "nl"
      <4>1. rest[i] = typed[c + i] /\ c + i = e
        BY <1>1, <1>14, <1>17, <2>1, <3>1
      <4>2. \A j \in 1..(i - 1) : rest[j] = typed[c + j] /\ c + j \in (c + 1)..(e - 1)
        BY <1>1, <1>14, <1>17, <2>1, <3>1
      <4>3. typed[e] = "nl" /\ \A j \in (c + 1)..(e - 1) : typed[j] # "nl"
        BY <1>1, <2>1
      <4>4. \A j \in 1..(i - 1) : typed[c + j] # "nl"
        BY <4>2, <4>3
      <4> QED BY <4>1, <4>2, <4>3, <4>4
    <3>3. HasLine(rest) /\ LineEnd(rest) = i
      BY <1>17, <3>1, <3>2, LineEndIs
    <3>4. LineAt(typed, c + 1) = SubSeq(rest, 1, i - 1)
      BY <1>14, <1>17, <3>3 DEF LineAt, FirstLine
    <3>5. SubSeq(rest, 1, i - 1) = SubSeq(typed, c + 1, e - 1)
      <4>1. 1 \in 1..(Len(rest) + 1) /\ i - 1 \in (1 - 1)..Len(rest) /\ i - 1 - 1 + 1 = i - 1
        BY <1>1, <1>14, <1>17, <3>1
      <4>2. /\ SubSeq(rest, 1, i - 1) \in Seq(K) /\ Len(SubSeq(rest, 1, i - 1)) = i - 1 - 1 + 1
            /\ \A j \in 1..(i - 1 - 1 + 1) : SubSeq(rest, 1, i - 1)[j] = rest[1 + j - 1]
        BY <1>17, <4>1, PartIs
      <4>3. c + 1 \in 1..(Len(typed) + 1) /\ e - 1 \in (c + 1 - 1)..Len(typed)
            /\ e - 1 - (c + 1) + 1 = i - 1
        BY <1>1, <2>1, <3>1
      <4>4. /\ SubSeq(typed, c + 1, e - 1) \in Seq(K)
            /\ Len(SubSeq(typed, c + 1, e - 1)) = e - 1 - (c + 1) + 1
            /\ \A j \in 1..(e - 1 - (c + 1) + 1) : SubSeq(typed, c + 1, e - 1)[j] = typed[c + 1 + j - 1]
        BY <4>3, PartIs
      <4>5. \A j \in 1..(i - 1) : SubSeq(rest, 1, i - 1)[j] = SubSeq(typed, c + 1, e - 1)[j]
        <5>1. TAKE j \in 1..(i - 1)
        <5>2. SubSeq(rest, 1, i - 1)[j] = rest[1 + j - 1] /\ 1 + j - 1 = j
          BY <4>1, <4>2
        <5>3. SubSeq(typed, c + 1, e - 1)[j] = typed[c + 1 + j - 1] /\ c + 1 + j - 1 = c + j
          BY <1>1, <4>3, <4>4
        <5>4. j \in 1..(len - c)
          BY <1>1, <1>14, <1>17, <3>1
        <5> QED BY <1>14, <1>17, <5>2, <5>3, <5>4
      <4>6. Len(SubSeq(rest, 1, i - 1)) = i - 1 /\ Len(SubSeq(typed, c + 1, e - 1)) = i - 1
        BY <4>1, <4>2, <4>3, <4>4
      <4> QED BY <4>2, <4>4, <4>5, <4>6, SeqEqual
    <3> QED BY <3>4, <3>5
  <2>2. CASE e = len + 1
    <3>1. ~HasLine(rest)
      <4>1. \A i \in 1..(len - c) : rest[i] = typed[c + i] /\ c + i \in (c + 1)..(e - 1)
        BY <1>1, <1>14, <1>17, <2>2
      <4>2. \A i \in 1..Len(rest) : rest[i] # "nl"
        BY <1>14, <1>17, <4>1
      <4> QED BY <4>2 DEF HasLine, Contains
    <3>2. LineAt(typed, c + 1) = rest
      BY <1>14, <1>17, <3>1 DEF LineAt
    <3>3. e - 1 = Len(typed)
      BY <1>1, <2>2
    <3> QED BY <1>14, <1>17, <3>2, <3>3
  <2> QED BY <1>1, <2>1, <2>2
<1>16. ASSUME NEW d \in Nat, d <= e, d <= len, d = e \/ d = len
       PROVE  {s \in starts : s <= d} = early \cup {c + 1}
  <2>1. ASSUME NEW s \in starts, s <= d, ~(s <= c), s # c + 1
        PROVE  FALSE
    <3>1. s \in Nat /\ s - 1 \in (c + 1)..(e - 1) /\ s # 1
      BY <1>3, <1>16, <2>1
    <3>2. typed[s - 1] = "nl"
      BY <1>2, <3>1 DEF LineStarts
    <3> QED BY <3>1, <3>2
  <2>2. c + 1 <= d
    BY <1>1, <1>16
  <2>3. \A s \in starts : s <= c => s <= d
    BY <1>3, <2>2
  <2> QED BY <1>4, <1>5, <2>1, <2>2, <2>3
<1> QED BY <1>1, <1>2, <1>7, <1>12, <1>13, <1>15, <1>16 DEF IsNextLine

(* A buffer holds what lies between two places of a text, and so many of   *)
(* its lines begin up to a place where a line has just ended.              *)
Held(typed, held, c, e) ==
  /\ c \in Nat /\ e \in Nat /\ c <= e /\ e <= Len(typed)
  /\ held \in Seq(STRING) /\ Len(held) = e - c
  /\ \A i \in 1..(e - c) : held[i] = typed[c + i]
Counted(typed, c, n) ==
  /\ c \in Nat /\ c <= Len(typed) /\ n \in Nat
  /\ c = 0 \/ c = Len(typed) \/ typed[c] = "nl"
  /\ Cardinality({s \in LineStarts(typed) : s <= c}) = n

(* Before anything was answered no line has begun.                         *)
LEMMA NoneCounted ==
  ASSUME NEW typed \in Seq(STRING)
  PROVE  Counted(typed, 0, 0) /\ Held(typed, <<>>, 0, 0)
<1>1. {s \in LineStarts(typed) : s <= 0} = {}
  BY DEF LineStarts
<1>2. Cardinality({s \in LineStarts(typed) : s <= 0}) = 0
  BY <1>1, FS_EmptySet
<1>3. <<>> \in Seq(STRING) /\ Len(<<>>) = 0
  OBVIOUS
<1>4. Len(typed) \in Nat
  OBVIOUS
<1> QED BY <1>2, <1>3, <1>4 DEF Counted, Held

(* No more lines begin up to a place than the text has, and all of them up *)
(* to its end.                                                             *)
LEMMA CountedLines ==
  ASSUME NEW typed \in Seq(STRING), NEW c \in Nat, NEW n \in Nat, Counted(typed, c, n)
  PROVE  n <= Len(LinesOf(typed)) /\ (c = Len(typed) => n = Len(LinesOf(typed)))
<1>1. PICK starts, early : starts = LineStarts(typed) /\ early = {s \in starts : s <= c}
  OBVIOUS
<1>2. starts \subseteq 1..Len(typed) /\ IsFiniteSet(1..Len(typed))
  BY <1>1, FS_Interval DEF LineStarts
<1>3. IsFiniteSet(starts)
  BY <1>2, FS_Subset
<1>4. PICK total \in Nat : total = Cardinality(starts)
  BY <1>3, FS_CardinalityType
<1>5. early \subseteq starts /\ Cardinality(early) = n /\ n \in Nat
  BY <1>1 DEF Counted
<1>6. n <= total
  BY <1>3, <1>4, <1>5, FS_Subset
<1>7. c = Len(typed) => early = starts
  <2>1. SUFFICES ASSUME c = Len(typed), NEW s \in starts PROVE s <= c
    BY <1>1
  <2> QED BY <1>2, <2>1
<1>8. Len(LinesOf(typed)) = total
  <2>1. \E f : LinesOf(typed) = [k \in 1..total |-> f[k]]
    <3>1. LinesOf(typed) = [k \in 1..total |-> LinesOf(typed)[k]]
      BY <1>1, <1>4 DEF LinesOf
    <3> QED BY <3>1
  <2> QED BY <1>4, <2>1
<1> QED BY <1>4, <1>5, <1>6, <1>7, <1>8

(* What is read joins what is held.                                        *)
LEMMA HeldGrows ==
  ASSUME NEW typed \in Seq(STRING), NEW a, NEW c \in Nat, NEW e \in Nat, Held(typed, a, c, e),
         NEW b \in Seq(STRING), e + Len(b) <= Len(typed), \A i \in 1..Len(b) : b[i] = typed[e + i]
  PROVE  Held(typed, a \o b, c, e + Len(b))
<1>1. /\ c <= e /\ a \in Seq(STRING) /\ Len(a) = e - c
      /\ \A i \in 1..(e - c) : a[i] = typed[c + i]
  BY DEF Held
<1>2. PICK la, lb \in Nat : la = Len(a) /\ lb = Len(b)
  <2>1. Len(a) \in Nat /\ Len(b) \in Nat
    BY <1>1
  <2> QED BY <2>1
<1>3. a \o b \in Seq(STRING) /\ Len(a \o b) = la + lb
  BY <1>1, <1>2, ConcatProperties
<1>4. \A i \in 1..(la + lb) : (a \o b)[i] = IF i <= la THEN a[i] ELSE b[i - la]
  <2>1. \A i \in 1..(Len(a) + Len(b)) :
          (a \o b)[i] = IF i <= Len(a) THEN a[i] ELSE b[i - Len(a)]
    BY <1>1, ConcatProperties
  <2> QED BY <1>2, <2>1
<1>5. la = e - c /\ e = c + la /\ e + lb - c = la + lb
  BY <1>1, <1>2
<1>6. ASSUME NEW i \in 1..(la + lb)
      PROVE  (a \o b)[i] = typed[c + i]
  <2>2. CASE i <= la
    <3>1. i \in 1..(e - c)
      BY <1>5, <2>2
    <3>2. (a \o b)[i] = a[i]
      BY <1>4, <2>2
    <3> QED BY <1>1, <3>1, <3>2
  <2>3. CASE ~(i <= la)
    <3>1. PICK j \in 1..lb : j = i - la
      BY <2>3
    <3>2. (a \o b)[i] = b[j]
      BY <1>4, <2>3, <3>1
    <3>3. b[j] = typed[e + j]
      BY <1>2, <3>1
    <3>4. e + j = c + i
      BY <1>5, <3>1
    <3> QED BY <3>2, <3>3, <3>4
  <2> QED BY <2>2, <2>3
<1>7. e + lb \in Nat /\ c <= e + lb /\ e + lb <= Len(typed) /\ Len(a \o b) = e + lb - c
  BY <1>1, <1>2, <1>3, <1>5
<1> QED BY <1>2, <1>3, <1>5, <1>6, <1>7 DEF Held

(* The first line held is the next line of the text.                       *)
LEMMA TakesLine ==
  ASSUME NEW typed \in Seq(STRING), NEW t, NEW c \in Nat, NEW e \in Nat, NEW n \in Nat,
         Held(typed, t, c, e), Counted(typed, c, n), HasLine(t)
  PROVE  /\ n + 1 \in 1..Len(LinesOf(typed)) /\ LinesOf(typed)[n + 1] = FirstLine(t)
         /\ Counted(typed, c + LineEnd(t), n + 1)
         /\ Held(typed, AfterLine(t), c + LineEnd(t), e)
<1>1. t \in Seq(STRING) /\ Len(t) = e - c
  BY DEF Held
<1>2. \A i \in 1..(e - c) : t[i] = typed[c + i]
  BY DEF Held
<1>3. c <= e /\ e <= Len(typed) /\ (c = 0 \/ c = Len(typed) \/ typed[c] = "nl")
  BY DEF Held, Counted
<1>4. PICK i \in Nat : i = LineEnd(t)
  BY <1>1, HasFirstEnd
<1>5. 1 <= i /\ i <= Len(t)
  BY <1>1, <1>4, HasFirstEnd
<1>6. t[i] = "nl" /\ \A j \in 1..(i - 1) : t[j] # "nl"
  BY <1>1, <1>4, HasFirstEnd
<1>7. PICK p \in Nat : p = c + i
  OBVIOUS
<1>8. PICK w, len \in Nat : w = Len(t) /\ len = Len(typed)
  <2>1. Len(t) \in Nat
    BY <1>1
  <2> QED BY <2>1
<1>9. i \in 1..w /\ e = c + w /\ w = e - c /\ p <= e /\ e <= len /\ c < p /\ c < len
  BY <1>1, <1>3, <1>5, <1>7, <1>8
<1>10. typed[p] = "nl" /\ (c = 0 \/ typed[c] = "nl")
  <2>1. t[i] = typed[c + i]
    BY <1>2, <1>9
  <2>2. c # Len(typed)
    BY <1>8, <1>9
  <2> QED BY <1>3, <1>6, <1>7, <2>1, <2>2
<1>11. \A j \in (c + 1)..(p - 1) : typed[j] # "nl"
  <2>1. TAKE j \in (c + 1)..(p - 1)
  <2>2. PICK m \in 1..(i - 1) : m = j - c
    BY <1>7
  <2>3. m \in 1..(e - c) /\ c + m = j
    BY <1>9, <2>2
  <2>4. t[m] = typed[c + m] /\ t[m] # "nl"
    BY <1>2, <1>6, <2>2, <2>3
  <2> QED BY <2>3, <2>4
<1>12. /\ n + 1 \in 1..Len(LinesOf(typed))
       /\ LinesOf(typed)[n + 1] = SubSeq(typed, c + 1, p - 1)
       /\ Cardinality({s \in LineStarts(typed) : s <= p}) = n + 1
  <2>1. c < p /\ c < Len(typed) /\ p <= Len(typed) + 1 /\ p <= Len(typed) /\ p <= p
    BY <1>8, <1>9
  <2>2. Cardinality({s \in LineStarts(typed) : s <= c}) = n
    BY DEF Counted
  <2>3. IsNextLine(typed, c, p, n)
    BY <1>10, <1>11, <2>1, <2>2, NextLine
  <2> QED BY <2>1, <2>3 DEF IsNextLine
<1>13. Counted(typed, p, n + 1)
  <2>1. p <= Len(typed)
    BY <1>8, <1>9
  <2> QED BY <1>10, <1>12, <2>1 DEF Counted
<1>14. SubSeq(typed, c + 1, p - 1) = FirstLine(t)
  <2>1. 1 \in 1..(Len(t) + 1) /\ i - 1 \in (1 - 1)..Len(t) /\ i - 1 - 1 + 1 = i - 1
    BY <1>8, <1>9
  <2>2. /\ SubSeq(t, 1, i - 1) \in Seq(STRING) /\ Len(SubSeq(t, 1, i - 1)) = i - 1 - 1 + 1
        /\ \A j \in 1..(i - 1 - 1 + 1) : SubSeq(t, 1, i - 1)[j] = t[1 + j - 1]
    BY <1>1, <2>1, PartIs
  <2>3. c + 1 \in 1..(Len(typed) + 1) /\ p - 1 \in (c + 1 - 1)..Len(typed)
        /\ p - 1 - (c + 1) + 1 = i - 1
    BY <1>7, <1>8, <1>9
  <2>4. /\ SubSeq(typed, c + 1, p - 1) \in Seq(STRING)
        /\ Len(SubSeq(typed, c + 1, p - 1)) = p - 1 - (c + 1) + 1
        /\ \A j \in 1..(p - 1 - (c + 1) + 1) : SubSeq(typed, c + 1, p - 1)[j] = typed[c + 1 + j - 1]
    BY <2>3, PartIs
  <2>5. \A j \in 1..(i - 1) : SubSeq(typed, c + 1, p - 1)[j] = SubSeq(t, 1, i - 1)[j]
    <3>1. TAKE j \in 1..(i - 1)
    <3>2. SubSeq(t, 1, i - 1)[j] = t[1 + j - 1] /\ 1 + j - 1 = j
      BY <2>1, <2>2
    <3>3. SubSeq(typed, c + 1, p - 1)[j] = typed[c + 1 + j - 1] /\ c + 1 + j - 1 = c + j
      BY <2>3, <2>4
    <3>4. j \in 1..(e - c)
      BY <1>9
    <3> QED BY <1>2, <3>2, <3>3, <3>4
  <2>6. Len(SubSeq(t, 1, i - 1)) = i - 1 /\ Len(SubSeq(typed, c + 1, p - 1)) = i - 1
    BY <2>1, <2>2, <2>3, <2>4
  <2>7. SubSeq(typed, c + 1, p - 1) = SubSeq(t, 1, i - 1)
    BY <2>2, <2>4, <2>5, <2>6, SeqEqual
  <2> QED BY <1>4, <2>7 DEF FirstLine
<1>15. Held(typed, AfterLine(t), p, e)
  <2>1. i + 1 \in 1..(Len(t) + 1) /\ Len(t) \in (i + 1 - 1)..Len(t) /\ Len(t) - (i + 1) + 1 = e - p
    BY <1>7, <1>8, <1>9
  <2>2. PICK after : after = SubSeq(t, i + 1, Len(t))
    OBVIOUS
  <2>3. /\ after \in Seq(STRING) /\ Len(after) = Len(t) - (i + 1) + 1
        /\ \A j \in 1..(Len(t) - (i + 1) + 1) : after[j] = t[i + 1 + j - 1]
    <3>1. /\ SubSeq(t, i + 1, Len(t)) \in Seq(STRING)
          /\ Len(SubSeq(t, i + 1, Len(t))) = Len(t) - (i + 1) + 1
          /\ \A j \in 1..(Len(t) - (i + 1) + 1) : SubSeq(t, i + 1, Len(t))[j] = t[i + 1 + j - 1]
      BY <1>1, <2>1, PartIs
    <3> QED BY <2>2, <3>1
  <2>4. ASSUME NEW j \in 1..(e - p)
        PROVE  after[j] = typed[p + j]
    <3>1. PICK m \in 1..(e - c) : m = i + j
      BY <1>7, <1>9
    <3>2. i + 1 + j - 1 = m /\ c + m = p + j
      BY <1>7, <3>1
    <3>3. after[j] = t[m]
      BY <2>1, <2>3, <3>2
    <3> QED BY <1>2, <3>1, <3>2, <3>3
  <2>5. AfterLine(t) = after
    BY <1>4, <2>2 DEF AfterLine
  <2>6. p <= e /\ e <= Len(typed)
    BY <1>8, <1>9
  <2> QED BY <2>1, <2>3, <2>4, <2>5, <2>6 DEF Held
<1>16. c + LineEnd(t) = p
  BY <1>4, <1>7
<1> QED BY <1>12, <1>13, <1>14, <1>15, <1>16

(* What is held up to the end of the text, when no line ends in it, is the *)
(* last line.                                                              *)
LEMMA TakesLast ==
  ASSUME NEW typed \in Seq(STRING), NEW t, NEW c \in Nat, NEW n \in Nat, Held(typed, t, c, Len(typed)),
         Counted(typed, c, n), ~HasLine(t), t # <<>>
  PROVE  /\ n + 1 \in 1..Len(LinesOf(typed)) /\ LinesOf(typed)[n + 1] = t
         /\ Counted(typed, Len(typed), n + 1)
         /\ Held(typed, <<>>, Len(typed), Len(typed))
<1>1. PICK len \in Nat : len = Len(typed)
  OBVIOUS
<1>2. /\ c \in Nat /\ c <= len /\ t \in Seq(STRING) /\ Len(t) = len - c
      /\ \A i \in 1..(len - c) : t[i] = typed[c + i]
      /\ n \in Nat
      /\ c = 0 \/ c = len \/ typed[c] = "nl"
      /\ Cardinality({s \in LineStarts(typed) : s <= c}) = n
  BY <1>1 DEF Held, Counted
<1>3. Len(t) # 0
  BY <1>2
<1>4. c < len /\ (c = 0 \/ typed[c] = "nl")
  BY <1>1, <1>2, <1>3
<1>5. PICK p \in Nat : p = len + 1
  BY <1>1
<1>6. \A j \in (c + 1)..(p - 1) : typed[j] # "nl"
  <2>1. TAKE j \in (c + 1)..(p - 1)
  <2>2. PICK m \in 1..(len - c) : m = j - c
    BY <1>1, <1>2, <1>5
  <2>3. t[m] = typed[c + m] /\ c + m = j /\ t[m] # "nl"
    BY <1>1, <1>2, <2>2 DEF HasLine, Contains
  <2> QED BY <2>3
<1>7. /\ n + 1 \in 1..Len(LinesOf(typed))
      /\ LinesOf(typed)[n + 1] = SubSeq(typed, c + 1, p - 1)
      /\ Cardinality({s \in LineStarts(typed) : s <= len}) = n + 1
  <2>1. c < p /\ p <= Len(typed) + 1 /\ ~(p <= Len(typed)) /\ len <= p /\ len <= Len(typed)
    BY <1>1, <1>4, <1>5
  <2>2. c < Len(typed) /\ len = Len(typed) /\ (len = p \/ len = Len(typed))
    BY <1>1, <1>4
  <2>3. (c = 0 \/ typed[c] = "nl") /\ Cardinality({s \in LineStarts(typed) : s <= c}) = n
    BY <1>2, <1>4
  <2>5. p <= Len(typed) => typed[p] = "nl"
    BY <2>1
  <2>4. c < p /\ c < Len(typed) /\ p <= Len(typed) + 1 /\ (c = 0 \/ typed[c] = "nl")
    BY <2>1, <2>2, <2>3
  <2>6. IsNextLine(typed, c, p, n)
    BY <1>5, <1>6, <2>1, <2>2, <2>3, <2>4, <2>5, NextLine
  <2> QED BY <2>1, <2>2, <2>6 DEF IsNextLine
<1>8. SubSeq(typed, c + 1, p - 1) = t
  <2>1. c + 1 \in 1..(Len(typed) + 1) /\ p - 1 \in (c + 1 - 1)..Len(typed)
        /\ p - 1 - (c + 1) + 1 = len - c
    BY <1>1, <1>2, <1>5
  <2>2. /\ SubSeq(typed, c + 1, p - 1) \in Seq(STRING)
        /\ Len(SubSeq(typed, c + 1, p - 1)) = p - 1 - (c + 1) + 1
        /\ \A j \in 1..(p - 1 - (c + 1) + 1) : SubSeq(typed, c + 1, p - 1)[j] = typed[c + 1 + j - 1]
    BY <2>1, PartIs
  <2>3. \A j \in 1..(len - c) : SubSeq(typed, c + 1, p - 1)[j] = t[j]
    <3>1. TAKE j \in 1..(len - c)
    <3>2. SubSeq(typed, c + 1, p - 1)[j] = typed[c + 1 + j - 1] /\ c + 1 + j - 1 = c + j
      BY <1>1, <1>2, <2>1, <2>2
    <3> QED BY <1>2, <3>2
  <2>4. Len(SubSeq(typed, c + 1, p - 1)) = len - c
    BY <2>1, <2>2
  <2> QED BY <1>2, <2>2, <2>3, <2>4, SeqEqual
<1>9. Counted(typed, Len(typed), n + 1)
  BY <1>1, <1>2, <1>7 DEF Counted
<1>10. Held(typed, <<>>, Len(typed), Len(typed))
  <2>1. <<>> \in Seq(STRING) /\ Len(<<>>) = 0
    OBVIOUS
  <2> QED BY <1>1, <2>1 DEF Held
<1> QED BY <1>7, <1>8, <1>9, <1>10

(* Where the first n chunks end in the text.                               *)
PlaceOf(chunks, n) == Len(Joined(chunks)[n])

(* A chunk is what the text has between two places.                        *)
LEMMA ChunkIsPart ==
  ASSUME NEW chunks \in Seq(Seq(STRING)), NEW typed, typed = Joined(chunks)[Len(chunks)]
  PROVE  /\ typed \in Seq(STRING) /\ PlaceOf(chunks, 0) = 0 /\ PlaceOf(chunks, Len(chunks)) = Len(typed)
         /\ \A k \in 0..Len(chunks) : PlaceOf(chunks, k) \in Nat /\ PlaceOf(chunks, k) <= Len(typed)
         /\ \A k \in 1..Len(chunks) :
              /\ PlaceOf(chunks, k) = PlaceOf(chunks, k - 1) + Len(chunks[k])
              /\ \A i \in 1..Len(chunks[k]) : chunks[k][i] = typed[PlaceOf(chunks, k - 1) + i]
<1>1. PICK n \in Nat : n = Len(chunks)
  OBVIOUS
<1>2. PICK f : f = Joined(chunks)
  OBVIOUS
<1>3. f \in [0..n -> Seq(STRING)] /\ f[0] = <<>> /\ \A k \in 1..n : f[k] = f[k - 1] \o chunks[k]
  BY <1>1, <1>2, JoinedIs
<1>4. \A k \in 0..n : f[k] \in Seq(STRING) /\ Len(f[k]) \in Nat
  BY <1>3
<1>5. typed = f[n] /\ n \in 0..n /\ typed \in Seq(STRING)
  BY <1>1, <1>2, <1>4
<1>6. ASSUME NEW k \in 1..n
      PROVE  /\ Len(f[k]) = Len(f[k - 1]) + Len(chunks[k])
             /\ \A i \in 1..Len(f[k - 1]) : f[k][i] = f[k - 1][i]
             /\ \A i \in 1..Len(chunks[k]) : f[k][Len(f[k - 1]) + i] = chunks[k][i]
             /\ Len(chunks[k]) \in Nat
  <2>1. PICK a, b \in Seq(STRING) : a = f[k - 1] /\ b = chunks[k]
    <3>1. k - 1 \in 0..n /\ chunks[k] \in Seq(STRING)
      BY <1>1, ElementOfSeq
    <3> QED BY <1>4, <3>1
  <2>2. f[k] = a \o b
    BY <1>3, <2>1
  <2>3. Len(a \o b) = Len(a) + Len(b) /\ Len(a) \in Nat /\ Len(b) \in Nat
    BY <2>1, ConcatProperties
  <2>4. \A i \in 1..(Len(a) + Len(b)) :
          (a \o b)[i] = IF i <= Len(a) THEN a[i] ELSE b[i - Len(a)]
    BY <2>1, ConcatProperties
  <2>5. PICK la, lb \in Nat : la = Len(a) /\ lb = Len(b)
    BY <2>3
  <2>6. \A i \in 1..la : (a \o b)[i] = a[i]
    <3>1. TAKE i \in 1..la
    <3>2. i \in 1..(la + lb) /\ i <= la
      OBVIOUS
    <3> QED BY <2>4, <2>5, <3>2
  <2>7. \A i \in 1..lb : (a \o b)[la + i] = b[i]
    <3>1. TAKE i \in 1..lb
    <3>2. PICK m \in 1..(la + lb) : m = la + i
      OBVIOUS
    <3>3. ~(m <= la) /\ m - la = i
      BY <3>2
    <3> QED BY <2>4, <2>5, <3>2, <3>3
  <2> QED BY <2>1, <2>2, <2>3, <2>5, <2>6, <2>7
<1>11. \A k \in 1..n : Len(f[k]) = Len(f[k - 1]) + Len(chunks[k]) /\ Len(chunks[k]) \in Nat
  BY <1>6
<1>12. \A k \in 1..n : \A i \in 1..Len(f[k - 1]) : f[k][i] = f[k - 1][i]
  BY <1>6
<1>13. \A k \in 1..n : \A i \in 1..Len(chunks[k]) : f[k][Len(f[k - 1]) + i] = chunks[k][i]
  BY <1>6
<1>7. \A d \in Nat : d <= n =>
        Len(f[n - d]) <= Len(typed) /\ \A i \in 1..Len(f[n - d]) : typed[i] = f[n - d][i]
  <2> DEFINE S == {d \in Nat : d <= n => Len(f[n - d]) <= Len(typed)
                                        /\ \A i \in 1..Len(f[n - d]) : typed[i] = f[n - d][i]}
  <2>1. 0 \in S
    <3>1. n - 0 = n
      OBVIOUS
    <3>2. Len(f[n - 0]) <= Len(typed)
      BY <1>4, <1>5, <3>1
    <3>3. \A i \in 1..Len(f[n - 0]) : typed[i] = f[n - 0][i]
      BY <1>5, <3>1
    <3> QED BY <3>2, <3>3
  <2>2. ASSUME NEW d \in Nat, d \in S PROVE d + 1 \in S
    <3>1. SUFFICES ASSUME d + 1 <= n
                   PROVE  Len(f[n - (d + 1)]) <= Len(typed)
                          /\ \A i \in 1..Len(f[n - (d + 1)]) : typed[i] = f[n - (d + 1)][i]
      OBVIOUS
    <3>2. PICK k \in 1..n : k = n - d /\ k - 1 = n - (d + 1)
      BY <3>1
    <3>3. Len(f[k]) <= Len(typed) /\ \A i \in 1..Len(f[k]) : typed[i] = f[k][i]
      BY <2>2, <3>1, <3>2
    <3>4. k - 1 \in 0..n /\ k \in 0..n
      BY <3>2
    <3>7. PICK p, q \in Nat : p = Len(f[k - 1]) /\ q = Len(f[k])
      BY <1>4, <3>4
    <3>8. PICK t \in Nat : t = Len(typed)
      BY <1>5
    <3>10. Len(chunks[k]) \in Nat
      BY <1>11, <3>2
    <3>9. PICK w \in Nat : w = Len(chunks[k])
      BY <3>10
    <3>11. q = p + w
      BY <1>11, <3>2, <3>7, <3>9
    <3>5. p <= q /\ q <= t
      <4>1. q <= t
        BY <3>3, <3>7, <3>8
      <4>2. p <= p + w
        OBVIOUS
      <4>3. p <= q
        BY <3>11, <4>2
      <4> QED BY <4>1, <4>3
    <3>6. \A i \in 1..p : typed[i] = f[k - 1][i]
      <4>1. TAKE i \in 1..p
      <4>2. i \in 1..q
        BY <3>5
      <4>3. typed[i] = f[k][i]
        BY <3>3, <3>7, <3>8, <3>10, <4>2
      <4>4. f[k][i] = f[k - 1][i]
        BY <1>11, <1>12, <1>13, <3>7, <3>8, <3>10
      <4> QED BY <4>3, <4>4
    <3> QED BY <3>2, <3>7, <3>8, <3>10, <3>5, <3>6
  <2> HIDE DEF S
  <2>3. Nat \subseteq S
    BY <2>1, <2>2, NatInd
  <2> QED BY <2>3 DEF S
<1>8. \A k \in 0..n : Len(f[k]) <= Len(typed) /\ \A i \in 1..Len(f[k]) : typed[i] = f[k][i]
  <2>1. TAKE k \in 0..n
  <2>2. PICK d \in Nat : d = n - k /\ d <= n /\ n - d = k
    OBVIOUS
  <2> QED BY <1>7, <2>2
<1>9. ASSUME NEW k \in 1..n, NEW i \in 1..Len(chunks[k])
      PROVE  chunks[k][i] = typed[Len(f[k - 1]) + i]
  <2>1. k \in 0..n /\ k - 1 \in 0..n
    OBVIOUS
  <2>2. PICK p, q \in Nat : p = Len(f[k - 1]) /\ q = Len(f[k])
    BY <1>4, <2>1
  <2>7. Len(chunks[k]) \in Nat
    BY <1>9, <1>11
  <2>8. PICK w \in Nat : w = Len(chunks[k])
    BY <2>7
  <2>9. q = p + w
    BY <1>11, <2>2, <2>8
  <2>3. PICK m \in 1..q : m = p + i
    BY <2>8, <2>9
  <2>4. f[k][m] = chunks[k][i]
    BY <1>11, <1>12, <1>13, <2>2, <2>7, <2>3
  <2>5. typed[m] = f[k][m]
    BY <1>8, <2>1, <2>2, <2>7, <2>3
  <2> QED BY <2>2, <2>3, <2>4, <2>5
<1>10. Len(f[0]) = 0 /\ Len(f[n]) = Len(typed)
  <2>1. Len(<<>>) = 0
    OBVIOUS
  <2> QED BY <1>3, <1>5, <2>1
<1> QED BY <1>1, <1>2, <1>4, <1>5, <1>6, <1>8, <1>9, <1>10 DEF PlaceOf

(* Read as text, a chunk that cuts no character is what it was.            *)
LEMMA DecodedIs ==
  ASSUME NEW chunk \in Seq(STRING), ~Contains(Decoded(chunk), "bad")
  PROVE  Decoded(chunk) = chunk
<1>1. PICK d : d = Decoded(chunk)
  OBVIOUS
<1>2. PICK n \in Nat : n = Len(chunk)
  OBVIOUS
<1>3. \E g : d = [i \in 1..n |-> g[i]]
  <2>1. d = [i \in 1..n |-> d[i]]
    BY <1>1, <1>2 DEF Decoded
  <2> QED BY <2>1
<1>4. \A i \in 1..n : d[i] = "bad" \/ d[i] = chunk[i]
  BY <1>1, <1>2 DEF Decoded
<1>5. Len(d) = n
  BY <1>3
<1>6. \A i \in 1..n : d[i] # "bad"
  BY <1>1, <1>5 DEF Contains
<1>7. \A i \in 1..n : d[i] = chunk[i] /\ chunk[i] \in STRING
  BY <1>2, <1>4, <1>6
<1>8. d \in Seq(STRING)
  BY <1>3, <1>7
<1> QED BY <1>1, <1>2, <1>5, <1>7, <1>8, SeqEqual

(* Nothing typed is nothing.                                               *)
LEMMA NothingRubbed == Rubbed(<<>>) = <<>> /\ ~HasLine(<<>>)
<1>1. <<>> \in Seq(STRING) /\ Len(<<>>) = 0
  OBVIOUS
<1>2. Rubs(<<>>)[0] = <<>>
  BY <1>1, RubsIs
<1>3. Rubbed(<<>>) = Rubs(<<>>)[Len(<<>>)]
  BY DEF Rubbed
<1>4. Rubbed(<<>>) = <<>>
  BY <1>1, <1>2, <1>3
<1>5. ~HasLine(<<>>)
  BY <1>1 DEF HasLine, Contains
<1> QED BY <1>4, <1>5

(* Two texts without the end of a line have none together.                 *)
LEMMA LinelessTyped ==
  ASSUME NEW a \in Seq(STRING), NEW b \in Seq(STRING), ~HasLine(a), ~HasLine(b)
  PROVE  ~HasLine(a \o b)
<1>1. PICK la, lb \in Nat : la = Len(a) /\ lb = Len(b)
  <2>1. Len(a) \in Nat /\ Len(b) \in Nat
    OBVIOUS
  <2> QED BY <2>1
<1>2. (\A i \in 1..la : a[i] # "nl") /\ \A i \in 1..lb : b[i] # "nl"
  BY <1>1 DEF HasLine, Contains
<1>3. Len(a \o b) = la + lb
  BY <1>1, ConcatProperties
<1>4. \A i \in 1..(la + lb) : (a \o b)[i] = IF i <= la THEN a[i] ELSE b[i - la]
  <2>1. \A i \in 1..(Len(a) + Len(b)) :
          (a \o b)[i] = IF i <= Len(a) THEN a[i] ELSE b[i - Len(a)]
    BY ConcatProperties
  <2> QED BY <1>1, <2>1
<1>5. \A i \in 1..(la + lb) : (a \o b)[i] # "nl"
  <2>1. TAKE i \in 1..(la + lb)
  <2>2. ~(i <= la) => i - la \in 1..lb
    OBVIOUS
  <2>3. i <= la => i \in 1..la
    OBVIOUS
  <2> QED BY <1>2, <1>4, <2>2, <2>3
<1> QED BY <1>3, <1>5 DEF HasLine, Contains

-----------------------------------------------------------------------------
(* What has been read and what has been answered.                          *)
Chunks == typing.chunks
Arrived(k) ==
  /\ arriving \in Seq(Seq(STRING)) /\ Len(arriving) = Len(Chunks) - k
  /\ \A i \in 1..Len(arriving) : arriving[i] = Chunks[k + i]
Piped(k, c) ==
  /\ Held(Text, pendingInput, c, PlaceOf(Chunks, k)) /\ Counted(Text, c, Len(given))
  /\ \A i \in 1..Len(given) : given[i] = TrimEnd(LinesOf(Text)[i])
  /\ refused => c = Len(Text)
  /\ listening => ~HasLine(pendingInput)
Typed(k, c, keys) ==
  /\ Held(Text, keys, c, PlaceOf(Chunks, k)) /\ Counted(Text, c, Len(given))
  /\ ~HasLine(keys) /\ pendingInput = Rubbed(keys)
  /\ \A i \in 1..Len(given) : given[i] = Rubbed(LinesOf(Text)[i])
  /\ ~refused
PromptFacts(k) ==
  /\ Arrived(k) /\ (stdinEnded => k = Len(Chunks))
  /\ ~typing.tty /\ NoCharacterCut => \E c \in Nat : Piped(k, c)
  /\ typing.tty /\ OneLineAtATime => \E c \in Nat : \E keys : Typed(k, c, keys)
PromptIInv ==
  /\ typing.tty \in BOOLEAN /\ Chunks \in Seq(Seq(STRING))
  /\ listening \in BOOLEAN /\ refused \in BOOLEAN /\ stdinEnded \in BOOLEAN
  /\ \E D : given \in Seq(D)
  /\ \E k \in 0..Len(Chunks) : PromptFacts(k)

(* Nothing was typed, read or answered at first.                           *)
LEMMA PromptStarts == ASSUME PromptInit, PromptAssumption PROVE PromptIInv
<1>1. typing.tty \in BOOLEAN /\ Chunks \in Seq(Seq(STRING))
  BY DEF PromptInit, PromptAssumption, Chunks
<1>2. /\ arriving = Chunks /\ pendingInput = <<>> /\ stdinEnded = FALSE /\ listening = FALSE
      /\ given = <<>> /\ refused = FALSE
  BY DEF PromptInit, Chunks
<1>3. given \in Seq({}) /\ Len(given) = 0
  BY <1>2
<1>4. 0 \in 0..Len(Chunks) /\ Arrived(0)
  BY <1>1, <1>2 DEF Arrived
<1>5. Text \in Seq(STRING) /\ PlaceOf(Chunks, 0) = 0
  BY <1>1, ChunkIsPart DEF Text, Chunks
<1>6. Held(Text, <<>>, 0, PlaceOf(Chunks, 0)) /\ Counted(Text, 0, Len(given))
  BY <1>3, <1>5, NoneCounted
<1>8. Rubbed(<<>>) = <<>> /\ ~HasLine(<<>>)
  BY NothingRubbed
<1>9. Piped(0, 0) /\ Typed(0, 0, <<>>)
  BY <1>2, <1>3, <1>6, <1>8 DEF Piped, Typed
<1>10. PromptFacts(0)
  <2>1. 0 \in Nat
    OBVIOUS
  <2> QED BY <1>2, <1>4, <1>9, <2>1 DEF PromptFacts
<1> QED BY <1>1, <1>2, <1>3, <1>4, <1>10 DEF PromptIInv

(* The answers are what the prompts promise.                               *)
LEMMA AnswersAreLines == PromptIInv => PromptInv
<1> SUFFICES ASSUME PromptIInv
             PROVE  PromptInv
  OBVIOUS
<1>1. PICK k \in 0..Len(Chunks) : PromptFacts(k)
  BY DEF PromptIInv
<1>2. Text \in Seq(STRING)
  BY ChunkIsPart DEF Text, Chunks, PromptIInv
<1>3. ASSUME ~typing.tty, NoCharacterCut
      PROVE  PipedAnswers
  <2>1. PICK c \in Nat : Piped(k, c)
    BY <1>1, <1>3 DEF PromptFacts
  <2>2. Counted(Text, c, Len(given))
    BY <2>1 DEF Piped
  <2>3. Len(given) \in Nat
    BY <2>2 DEF Counted
  <2>4. Len(given) <= Len(LinesOf(Text)) /\ (c = Len(Text) => Len(given) = Len(LinesOf(Text)))
    BY <1>2, <2>2, <2>3, CountedLines
  <2> QED BY <2>1, <2>4 DEF Piped, PipedAnswers
<1>4. ASSUME typing.tty, OneLineAtATime
      PROVE  TypedAnswers
  BY <1>1, <1>4 DEF PromptFacts, Typed, TypedAnswers
<1> QED BY <1>3, <1>4 DEF PromptInv, PipedAnswers, TypedAnswers

(* An answer comes behind those given before.                              *)
LEMMA AnswerAdded ==
  ASSUME NEW D, given \in Seq(D), NEW x, given' = Append(given, x)
  PROVE  /\ Len(given) \in Nat /\ Len(given') = Len(given) + 1
         /\ \A i \in 1..Len(given') : given'[i] = IF i = Len(given) + 1 THEN x ELSE given[i]
         /\ \A i \in 1..Len(given') : i # Len(given) + 1 => i \in 1..Len(given)
         /\ \E E : given' \in Seq(E)
<1>1. PICK E : E = D \cup {x}
  OBVIOUS
<1>2. PICK g \in Seq(E) : g = given
  BY <1>1
<1>3. PICK n \in Nat : n = Len(g)
  OBVIOUS
<1>4. x \in E
  BY <1>1
<1>5. PICK h : h = Append(g, x)
  OBVIOUS
<1>6. h \in Seq(E) /\ Len(h) = n + 1 /\ \A i \in 1..(n + 1) : h[i] = IF i = n + 1 THEN x ELSE g[i]
  BY <1>3, <1>4, <1>5, AppendProperties
<1>7. given' = h /\ Len(given) = n
  BY <1>2, <1>3, <1>5
<1>8. \A i \in 1..(n + 1) : i # n + 1 => i \in 1..n
  OBVIOUS
<1> QED BY <1>2, <1>6, <1>7, <1>8

(* The input stays what it is.                                             *)
LEMMA InputStays ==
  ASSUME typing' = typing
  PROVE  Chunks' = Chunks /\ Text' = Text /\ NoCharacterCut' = NoCharacterCut
         /\ OneLineAtATime' = OneLineAtATime
BY DEF Chunks, Text, NoCharacterCut, OneLineAtATime

(* A line of a pipe answers a prompt.                                      *)
LEMMA LineAnswers ==
  ASSUME NEW D, given \in Seq(D), typing' = typing, Text \in Seq(STRING), NEW k, NEW c \in Nat, NEW t,
         PlaceOf(Chunks, k) \in Nat,
         Held(Text, t, c, PlaceOf(Chunks, k)), Counted(Text, c, Len(given)), HasLine(t),
         \A i \in 1..Len(given) : given[i] = TrimEnd(LinesOf(Text)[i]),
         given' = Append(given, TrimEnd(FirstLine(t))), pendingInput' = AfterLine(t),
         ~refused', ~listening'
  PROVE  \E d \in Nat : Piped(k, d)'
<1>1. PICK n \in Nat : n = Len(given)
  OBVIOUS
<1>2. PICK e \in Nat : e = PlaceOf(Chunks, k)
  OBVIOUS
<1>3. /\ LinesOf(Text)[n + 1] = FirstLine(t)
      /\ Counted(Text, c + LineEnd(t), n + 1) /\ Held(Text, AfterLine(t), c + LineEnd(t), e)
  BY <1>1, <1>2, TakesLine
<1>4. PICK d : d = c + LineEnd(t)
  OBVIOUS
<1>5. d \in Nat
  BY <1>3, <1>4 DEF Counted
<1>6. /\ Len(given') = n + 1
      /\ \A i \in 1..Len(given') : given'[i] = TrimEnd(LinesOf(Text)[i])
  <2>1. /\ Len(given') = n + 1
        /\ \A i \in 1..Len(given') : given'[i] = IF i = n + 1 THEN TrimEnd(FirstLine(t)) ELSE given[i]
        /\ \A i \in 1..Len(given') : i # n + 1 => i \in 1..Len(given)
    BY <1>1, AnswerAdded
  <2> QED BY <1>3, <2>1
<1>7. Held(Text', pendingInput', d, PlaceOf(Chunks', k)) /\ Counted(Text', d, Len(given'))
  BY <1>2, <1>3, <1>4, <1>6, InputStays
<1>8. \A i \in 1..Len(given') : given'[i] = TrimEnd(LinesOf(Text')[i])
  BY <1>6, InputStays
<1> QED BY <1>5, <1>7, <1>8 DEF Piped

(* At its end the text has one line left, or none.                         *)
LEMMA LastAnswers ==
  ASSUME NEW D, given \in Seq(D), typing' = typing, Text \in Seq(STRING), NEW k, NEW c \in Nat,
         PlaceOf(Chunks, k) = Len(Text), Piped(k, c), ~HasLine(pendingInput), LastLine, ~listening'
  PROVE  (\E d \in Nat : Piped(k, d)') /\ \E E : given' \in Seq(E)
<1>1. PICK n \in Nat : n = Len(given)
  OBVIOUS
<1>2. PICK p : p = pendingInput
  OBVIOUS
<1>3. /\ Held(Text, p, c, Len(Text)) /\ Counted(Text, c, n)
      /\ \A i \in 1..Len(given) : given[i] = TrimEnd(LinesOf(Text)[i])
  BY <1>1, <1>2 DEF Piped
<1>4. CASE p = <<>>
  <2>1. given' = given /\ pendingInput' = p
    BY <1>2, <1>4 DEF LastLine
  <2>2. c = Len(Text)
    <3>1. Len(<<>>) = 0
      OBVIOUS
    <3> QED BY <1>3, <1>4, <3>1 DEF Held
  <2>3. Piped(k, c)'
    <3>1. Held(Text', pendingInput', c, PlaceOf(Chunks', k)) /\ Counted(Text', c, Len(given'))
      BY <1>1, <1>3, <2>1, InputStays
    <3>2. \A i \in 1..Len(given') : given'[i] = TrimEnd(LinesOf(Text')[i])
      BY <1>3, <2>1, InputStays
    <3>3. c = Len(Text')
      BY <2>2, InputStays
    <3> QED BY <3>1, <3>2, <3>3 DEF Piped
  <2> QED BY <2>1, <2>3
<1>5. CASE p # <<>>
  <2>1. given' = Append(given, TrimEnd(p)) /\ pendingInput' = <<>>
    BY <1>2, <1>5 DEF LastLine, Gives
  <2>2. PICK d \in Nat : d = Len(Text)
    OBVIOUS
  <2>3. LinesOf(Text)[n + 1] = p /\ Counted(Text, d, n + 1) /\ Held(Text, <<>>, d, d)
    BY <1>2, <1>3, <1>5, <2>2, TakesLast
  <2>4. /\ Len(given') = n + 1 /\ \E E : given' \in Seq(E)
        /\ \A i \in 1..Len(given') : given'[i] = IF i = n + 1 THEN TrimEnd(p) ELSE given[i]
        /\ \A i \in 1..Len(given') : i # n + 1 => i \in 1..Len(given)
    BY <1>1, <2>1, AnswerAdded
  <2>5. \A i \in 1..Len(given') : given'[i] = TrimEnd(LinesOf(Text)[i])
    BY <1>3, <2>3, <2>4
  <2>6. Piped(k, d)'
    <3>1. Held(Text', pendingInput', d, PlaceOf(Chunks', k)) /\ Counted(Text', d, Len(given'))
      BY <2>1, <2>2, <2>3, <2>4, InputStays
    <3>2. \A i \in 1..Len(given') : given'[i] = TrimEnd(LinesOf(Text')[i])
      BY <2>5, InputStays
    <3>3. d = Len(Text')
      BY <2>2, InputStays
    <3> QED BY <3>1, <3>2, <3>3 DEF Piped
  <2> QED BY <2>4, <2>6
<1> QED BY <1>4, <1>5

(* What the next chunk brings.                                             *)
LEMMA NextChunk ==
  ASSUME Chunks \in Seq(Seq(STRING)), NEW k \in 0..Len(Chunks), Arrived(k), arriving # <<>>,
         arriving' = Tail(arriving), typing' = typing
  PROVE  \E m \in 1..Len(Chunks) :
           /\ m = k + 1 /\ Head(arriving) = Chunks[m] /\ Chunks[m] \in Seq(STRING)
           /\ Arrived(m)'
           /\ PlaceOf(Chunks, m) = PlaceOf(Chunks, k) + Len(Chunks[m])
           /\ PlaceOf(Chunks, m) \in Nat /\ PlaceOf(Chunks, k) \in Nat
           /\ PlaceOf(Chunks, m) <= Len(Text)
           /\ \A i \in 1..Len(Chunks[m]) : Chunks[m][i] = Text[PlaceOf(Chunks, k) + i]
<1>1. PICK a \in Seq(Seq(STRING)) : a = arriving
  BY DEF Arrived
<1>2. PICK n, all \in Nat : n = Len(a) /\ all = Len(Chunks)
  OBVIOUS
<1>3. n = all - k /\ n # 0 /\ \A i \in 1..n : a[i] = Chunks[k + i]
  BY <1>1, <1>2, EmptySeq DEF Arrived
<1>4. PICK m \in 1..all : m = k + 1 /\ m - 1 = k
  <2>1. k \in 0..all /\ k < all
    BY <1>2, <1>3
  <2>2. k + 1 \in 1..all /\ k + 1 - 1 = k
    BY <2>1
  <2> QED BY <2>2
<1>5. Head(a) = Chunks[m]
  <2>1. 1 \in 1..n /\ Head(a) = a[1]
    BY <1>2, <1>3
  <2> QED BY <1>3, <1>4, <2>1
<1>6. Chunks[m] \in Seq(STRING)
  BY <1>2, ElementOfSeq
<1>7. Arrived(m)'
  <2>1. PICK b : b = Tail(a)
    OBVIOUS
  <2>2. b \in Seq(Seq(STRING)) /\ Len(b) = n - 1 /\ \A i \in 1..(n - 1) : b[i] = a[i + 1]
    <3>1. a # <<>>
      BY <1>1
    <3>2. /\ Tail(a) \in Seq(Seq(STRING)) /\ Len(Tail(a)) = Len(a) - 1
          /\ \A i \in 1..Len(Tail(a)) : Tail(a)[i] = a[i + 1]
      BY <3>1, HeadTailProperties
    <3> QED BY <1>2, <2>1, <3>2
  <2>3. n - 1 = all - m
    BY <1>2, <1>3, <1>4
  <2>4. \A i \in 1..(n - 1) : b[i] = Chunks[m + i]
    <3>1. TAKE i \in 1..(n - 1)
    <3>2. i + 1 \in 1..n /\ k + (i + 1) = m + i
      BY <1>4
    <3> QED BY <1>3, <2>2, <3>2
  <2>5. arriving' = b /\ Len(Chunks') = all /\ Chunks' = Chunks
    BY <1>1, <1>2, <2>1, InputStays
  <2> QED BY <2>2, <2>3, <2>4, <2>5 DEF Arrived
<1>8. /\ PlaceOf(Chunks, m) = PlaceOf(Chunks, k) + Len(Chunks[m])
      /\ PlaceOf(Chunks, m) \in Nat /\ PlaceOf(Chunks, k) \in Nat
      /\ PlaceOf(Chunks, m) <= Len(Text)
      /\ \A i \in 1..Len(Chunks[m]) : Chunks[m][i] = Text[PlaceOf(Chunks, k) + i]
  <2>1. Text = Joined(Chunks)[Len(Chunks)]
    BY DEF Text, Chunks
  <2>2. m \in 1..Len(Chunks) /\ m \in 0..Len(Chunks) /\ k \in 0..Len(Chunks)
    BY <1>2
  <2>3. PICK typed : typed = Text
    OBVIOUS
  <2>4. /\ \A j \in 0..Len(Chunks) : PlaceOf(Chunks, j) \in Nat /\ PlaceOf(Chunks, j) <= Len(typed)
        /\ \A j \in 1..Len(Chunks) :
              /\ PlaceOf(Chunks, j) = PlaceOf(Chunks, j - 1) + Len(Chunks[j])
              /\ \A i \in 1..Len(Chunks[j]) : Chunks[j][i] = typed[PlaceOf(Chunks, j - 1) + i]
    BY <2>1, <2>3, ChunkIsPart
  <2> QED BY <1>4, <2>2, <2>3, <2>4
<1> QED BY <1>1, <1>2, <1>4, <1>5, <1>6, <1>7, <1>8

(* The line that ends with the keys just typed.                            *)
LEMMA LineTyped ==
  ASSUME NEW a \in Seq(STRING), NEW b \in Seq(STRING), ~HasLine(a), HasLine(b), LineEnd(b) = Len(b)
  PROVE  /\ HasLine(a \o b) /\ LineEnd(a \o b) = Len(a \o b)
         /\ FirstLine(a \o b) = a \o FirstLine(b) /\ FirstLine(b) \in Seq(STRING)
<1>1. PICK la, lb \in Nat : la = Len(a) /\ lb = Len(b)
  <2>1. Len(a) \in Nat /\ Len(b) \in Nat
    OBVIOUS
  <2> QED BY <2>1
<1>2. PICK t : t = a \o b
  OBVIOUS
<1>3. t \in Seq(STRING) /\ Len(t) = la + lb
  BY <1>1, <1>2, ConcatProperties
<1>4. \A i \in 1..(la + lb) : t[i] = IF i <= la THEN a[i] ELSE b[i - la]
  <2>1. \A i \in 1..(Len(a) + Len(b)) :
          (a \o b)[i] = IF i <= Len(a) THEN a[i] ELSE b[i - Len(a)]
    BY ConcatProperties
  <2> QED BY <1>1, <1>2, <2>1
<1>5. lb \in 1..lb /\ b[lb] = "nl" /\ \A j \in 1..(lb - 1) : b[j] # "nl"
  <2>1. LineEnd(b) \in 1..Len(b) /\ b[LineEnd(b)] = "nl"
        /\ \A j \in 1..(LineEnd(b) - 1) : b[j] # "nl"
    BY HasFirstEnd
  <2> QED BY <1>1, <2>1
<1>6. \A i \in 1..la : a[i] # "nl"
  BY <1>1 DEF HasLine, Contains
<1>7. PICK p \in 1..Len(t) : p = la + lb
  BY <1>3, <1>5
<1>8. t[p] = "nl"
  <2>1. p \in 1..(la + lb) /\ ~(p <= la) /\ p - la = lb
    BY <1>5, <1>7
  <2> QED BY <1>4, <1>5, <2>1
<1>9. \A j \in 1..(p - 1) : t[j] # "nl"
  <2>1. TAKE j \in 1..(p - 1)
  <2>2. j \in 1..(la + lb)
    BY <1>7
  <2>3. CASE j <= la
    BY <1>4, <1>6, <2>2, <2>3
  <2>4. CASE ~(j <= la)
    <3>1. j - la \in 1..(lb - 1)
      BY <1>7, <2>4
    <3> QED BY <1>4, <1>5, <2>2, <2>4, <3>1
  <2> QED BY <2>3, <2>4
<1>10. HasLine(t) /\ LineEnd(t) = p
  BY <1>3, <1>7, <1>8, <1>9, LineEndIs
<1>11. PICK g : g = SubSeq(b, 1, lb - 1)
  OBVIOUS
<1>12. g \in Seq(STRING) /\ Len(g) = lb - 1 /\ \A i \in 1..(lb - 1) : g[i] = b[i]
  <2>1. 1 \in 1..(Len(b) + 1) /\ lb - 1 \in (1 - 1)..Len(b) /\ lb - 1 - 1 + 1 = lb - 1
    BY <1>1, <1>5
  <2>2. /\ SubSeq(b, 1, lb - 1) \in Seq(STRING) /\ Len(SubSeq(b, 1, lb - 1)) = lb - 1 - 1 + 1
        /\ \A j \in 1..(lb - 1 - 1 + 1) : SubSeq(b, 1, lb - 1)[j] = b[1 + j - 1]
    BY <2>1, PartIs
  <2>3. \A j \in 1..(lb - 1) : 1 + j - 1 = j
    OBVIOUS
  <2> QED BY <1>11, <2>1, <2>2, <2>3
<1>13. PICK h : h = SubSeq(t, 1, p - 1)
  OBVIOUS
<1>14. h \in Seq(STRING) /\ Len(h) = p - 1 /\ \A i \in 1..(p - 1) : h[i] = t[i]
  <2>1. 1 \in 1..(Len(t) + 1) /\ p - 1 \in (1 - 1)..Len(t) /\ p - 1 - 1 + 1 = p - 1
    BY <1>3, <1>7
  <2>2. /\ SubSeq(t, 1, p - 1) \in Seq(STRING) /\ Len(SubSeq(t, 1, p - 1)) = p - 1 - 1 + 1
        /\ \A j \in 1..(p - 1 - 1 + 1) : SubSeq(t, 1, p - 1)[j] = t[1 + j - 1]
    BY <1>3, <2>1, PartIs
  <2>3. \A j \in 1..(p - 1) : 1 + j - 1 = j
    OBVIOUS
  <2> QED BY <1>13, <2>1, <2>2, <2>3
<1>15. PICK f : f = a \o g
  OBVIOUS
<1>16. f \in Seq(STRING) /\ Len(f) = la + (lb - 1)
       /\ \A i \in 1..(la + (lb - 1)) : f[i] = IF i <= la THEN a[i] ELSE g[i - la]
  <2>3. g \in Seq(STRING)
    BY <1>12
  <2>1. a \o g \in Seq(STRING) /\ Len(a \o g) = Len(a) + Len(g)
    BY <2>3, ConcatProperties
  <2>2. \A i \in 1..(Len(a) + Len(g)) :
          (a \o g)[i] = IF i <= Len(a) THEN a[i] ELSE g[i - Len(a)]
    BY <2>3, ConcatProperties
  <2> QED BY <1>1, <1>12, <1>15, <2>1, <2>2
<1>17. h = f
  <2>1. Len(h) = Len(f) /\ Len(h) = p - 1
    BY <1>7, <1>14, <1>16
  <2>2. \A i \in 1..(p - 1) : h[i] = f[i]
    <3>1. TAKE i \in 1..(p - 1)
    <3>2. i \in 1..(la + lb) /\ i \in 1..(la + (lb - 1))
      BY <1>7
    <3>3. CASE i <= la
      BY <1>4, <1>14, <1>16, <3>2, <3>3
    <3>4. CASE ~(i <= la)
      <4>1. i - la \in 1..(lb - 1)
        BY <3>2, <3>4
      <4> QED BY <1>4, <1>12, <1>14, <1>16, <3>2, <3>4, <4>1
    <3> QED BY <3>3, <3>4
  <2> QED BY <1>14, <1>16, <2>1, <2>2, SeqEqual
<1>18. FirstLine(t) = h /\ FirstLine(b) = g
  BY <1>1, <1>10, <1>11, <1>13 DEF FirstLine
<1> QED BY <1>2, <1>3, <1>7, <1>10, <1>12, <1>15, <1>17, <1>18

(* Keys edit the answer they belong to and no other one.                   *)
LEMMA KeysTyped ==
  ASSUME NEW D, given \in Seq(D), TypeKeys, Text \in Seq(STRING), NEW k, NEW m, NEW c \in Nat, NEW raw,
         Typed(k, c, raw), NEW keys \in Seq(STRING), keys = Head(arriving),
         HasLine(keys) => LineEnd(keys) = Len(keys),
         PlaceOf(Chunks, k) \in Nat, PlaceOf(Chunks, m) = PlaceOf(Chunks, k) + Len(keys),
         PlaceOf(Chunks, m) <= Len(Text),
         \A i \in 1..Len(keys) : keys[i] = Text[PlaceOf(Chunks, k) + i]
  PROVE  (\E d \in Nat : \E next : Typed(m, d, next)') /\ \E E : given' \in Seq(E)
<1>1. PICK n, e, u \in Nat : n = Len(given) /\ e = PlaceOf(Chunks, k) /\ u = PlaceOf(Chunks, m)
  OBVIOUS
<1>2. /\ Held(Text, raw, c, e) /\ Counted(Text, c, n) /\ ~HasLine(raw) /\ pendingInput = Rubbed(raw)
      /\ \A i \in 1..n : given[i] = Rubbed(LinesOf(Text)[i])
      /\ ~refused /\ raw \in Seq(STRING)
  BY <1>1 DEF Typed, Held
<1>3. PICK t : t = raw \o keys
  OBVIOUS
<1>4. Held(Text, t, c, u) /\ t \in Seq(STRING)
  <2>1. e + Len(keys) = u /\ e + Len(keys) <= Len(Text)
    BY <1>1
  <2>2. Held(Text, raw \o keys, c, e + Len(keys))
    BY <1>1, <1>2, <2>1, HeldGrows
  <2> QED BY <1>3, <2>1, <2>2 DEF Held
<1>5. typing' = typing /\ ~refused'
  BY <1>2 DEF TypeKeys
<1>6. CASE HasLine(keys)
  <2>1. /\ HasLine(t) /\ LineEnd(t) = Len(t)
        /\ FirstLine(t) = raw \o FirstLine(keys) /\ FirstLine(keys) \in Seq(STRING)
    BY <1>2, <1>3, <1>6, LineTyped
  <2>2. given' = Append(given, Rubbed(FirstLine(t))) /\ pendingInput' = <<>>
    <3>1. Rubbed(pendingInput \o FirstLine(keys)) = Rubbed(FirstLine(t))
      BY <1>2, <2>1, RubbedTwice
    <3> QED BY <1>6, <3>1 DEF TypeKeys, Gives
  <2>3. /\ LinesOf(Text)[n + 1] = FirstLine(t)
        /\ Counted(Text, c + LineEnd(t), n + 1) /\ Held(Text, AfterLine(t), c + LineEnd(t), u)
    <3>1. Counted(Text, c, n) /\ Held(Text, t, c, u) /\ HasLine(t) /\ n \in Nat /\ u \in Nat
      BY <1>1, <1>2, <1>4, <2>1
    <3> QED BY <3>1, TakesLine
  <2>4. PICK d : d = c + LineEnd(t)
    OBVIOUS
  <2>5. d \in Nat /\ d = u
    <3>1. Len(t) = u - c /\ c <= u
      BY <1>4 DEF Held
    <3> QED BY <1>1, <2>1, <2>4, <3>1
  <2>6. AfterLine(t) = <<>>
    <3>1. AfterLine(t) \in Seq(STRING) /\ Len(AfterLine(t)) = u - d
      BY <2>3, <2>4 DEF Held
    <3>2. Len(AfterLine(t)) = 0
      BY <1>1, <2>5, <3>1
    <3> QED BY <3>1, <3>2, EmptySeq
  <2>7. /\ Len(given') = n + 1 /\ \E E : given' \in Seq(E)
        /\ \A i \in 1..Len(given') : given'[i] = IF i = n + 1 THEN Rubbed(FirstLine(t)) ELSE given[i]
        /\ \A i \in 1..Len(given') : i # n + 1 => i \in 1..n
    BY <1>1, <2>2, AnswerAdded
  <2>8. \A i \in 1..Len(given') : given'[i] = Rubbed(LinesOf(Text)[i])
    BY <1>2, <2>3, <2>7
  <2>9. Rubbed(<<>>) = <<>> /\ ~HasLine(<<>>)
    BY NothingRubbed
  <2>10. Held(Text', <<>>, d, PlaceOf(Chunks', m)) /\ Counted(Text', d, Len(given'))
    BY <1>1, <1>5, <2>3, <2>4, <2>6, <2>7, InputStays
  <2>11. \A i \in 1..Len(given') : given'[i] = Rubbed(LinesOf(Text')[i])
    BY <1>5, <2>8, InputStays
  <2>12. Typed(m, d, <<>>)'
    BY <1>5, <2>2, <2>9, <2>10, <2>11 DEF Typed
  <2> QED BY <2>5, <2>7, <2>12
<1>7. CASE ~HasLine(keys)
  <2>1. given' = given /\ pendingInput' = Rubbed(t)
    <3>1. Rubbed(pendingInput \o keys) = Rubbed(t)
      BY <1>2, <1>3, RubbedTwice
    <3> QED BY <1>7, <3>1 DEF TypeKeys
  <2>2. ~HasLine(t)
    BY <1>2, <1>3, <1>7, LinelessTyped
  <2>3. Held(Text', t, c, PlaceOf(Chunks', m)) /\ Counted(Text', c, Len(given'))
    BY <1>1, <1>2, <1>4, <1>5, <2>1, InputStays
  <2>4. \A i \in 1..Len(given') : given'[i] = Rubbed(LinesOf(Text')[i])
    BY <1>1, <1>2, <1>5, <2>1, InputStays
  <2>5. Typed(m, c, t)'
    BY <1>5, <2>1, <2>2, <2>3, <2>4 DEF Typed
  <2> QED BY <2>1, <2>5
<1> QED BY <1>6, <1>7

(* A prompt is asked.                                                      *)
LEMMA PromptKeeps == ASSUME PromptIInv, Prompt PROVE PromptIInv'
<1>1. typing' = typing /\ arriving' = arriving /\ stdinEnded' = stdinEnded /\ ~listening /\ ~refused
  BY DEF Prompt
<1>2. PICK k \in 0..Len(Chunks) : PromptFacts(k)
  BY DEF PromptIInv
<1>3. PICK D : given \in Seq(D)
  BY DEF PromptIInv
<1>4. Text \in Seq(STRING) /\ PlaceOf(Chunks, Len(Chunks)) = Len(Text) /\ PlaceOf(Chunks, k) \in Nat
  BY <1>2, ChunkIsPart DEF Text, Chunks, PromptIInv
<1>5. Arrived(k)' /\ (stdinEnded' => k = Len(Chunks'))
  BY <1>1, <1>2, InputStays DEF PromptFacts, Arrived
<1>6. typing'.tty \in BOOLEAN /\ Chunks' \in Seq(Seq(STRING)) /\ stdinEnded' \in BOOLEAN
      /\ k \in 0..Len(Chunks')
  BY <1>1, <1>2, InputStays DEF PromptIInv
<1>7. CASE ~typing.tty /\ HasLine(pendingInput)
  <2>1. /\ given' = Append(given, TrimEnd(FirstLine(pendingInput)))
        /\ pendingInput' = AfterLine(pendingInput) /\ ~listening' /\ ~refused'
        /\ listening' \in BOOLEAN /\ refused' \in BOOLEAN
    BY <1>1, <1>7 DEF Prompt, Gives, PromptIInv
  <2>2. \E E : given' \in Seq(E)
    BY <1>3, <2>1, AnswerAdded
  <2>3. NoCharacterCut' => \E d \in Nat : Piped(k, d)'
    <3>1. SUFFICES ASSUME NoCharacterCut
                   PROVE  \E d \in Nat : Piped(k, d)'
      BY <1>1, InputStays
    <3>2. PICK c \in Nat : Piped(k, c)
      BY <1>2, <1>7, <3>1 DEF PromptFacts
    <3>3. /\ Held(Text, pendingInput, c, PlaceOf(Chunks, k)) /\ Counted(Text, c, Len(given))
          /\ \A i \in 1..Len(given) : given[i] = TrimEnd(LinesOf(Text)[i])
      BY <3>2 DEF Piped
    <3> QED BY <1>1, <1>3, <1>4, <1>7, <2>1, <3>3, LineAnswers
  <2>4. PromptFacts(k)'
    BY <1>1, <1>5, <1>7, <2>3 DEF PromptFacts
  <2> QED BY <1>6, <2>1, <2>2, <2>4 DEF PromptIInv
<1>8. CASE ~typing.tty /\ ~HasLine(pendingInput) /\ stdinEnded
  <2>1. LastLine /\ listening' = listening
    BY <1>8 DEF Prompt
  <2>2. refused' \in BOOLEAN /\ listening' \in BOOLEAN
    BY <1>1, <2>1 DEF LastLine, PromptIInv
  <2>3. \E E : given' \in Seq(E)
    BY <1>3, <2>1, AnswerAdded DEF LastLine, Gives
  <2>4. NoCharacterCut' => \E d \in Nat : Piped(k, d)'
    <3>1. SUFFICES ASSUME NoCharacterCut
                   PROVE  \E d \in Nat : Piped(k, d)'
      BY <1>1, InputStays
    <3>2. PICK c \in Nat : Piped(k, c)
      BY <1>2, <1>8, <3>1 DEF PromptFacts
    <3>3. PlaceOf(Chunks, k) = Len(Text)
      BY <1>2, <1>4, <1>8 DEF PromptFacts
    <3> QED BY <1>1, <1>3, <1>4, <1>8, <2>1, <3>2, <3>3, LastAnswers
  <2>5. PromptFacts(k)'
    BY <1>1, <1>5, <1>8, <2>4 DEF PromptFacts
  <2> QED BY <1>6, <2>2, <2>3, <2>5 DEF PromptIInv
<1>9. CASE ~(~typing.tty /\ HasLine(pendingInput))
           /\ ~(~typing.tty /\ ~HasLine(pendingInput) /\ stdinEnded)
  <2>1. listening' = TRUE /\ given' = given /\ pendingInput' = pendingInput /\ refused' = refused
    BY <1>9 DEF Prompt
  <2>2. ASSUME NEW c \in Nat, Piped(k, c), ~typing.tty
        PROVE  Piped(k, c)'
    BY <1>1, <1>9, <2>1, <2>2, InputStays DEF Piped
  <2>3. ASSUME NEW c \in Nat, NEW keys, Typed(k, c, keys)
        PROVE  Typed(k, c, keys)'
    BY <1>1, <2>1, <2>3, InputStays DEF Typed
  <2>4. NoCharacterCut' = NoCharacterCut /\ OneLineAtATime' = OneLineAtATime
    BY <1>1, InputStays
  <2>5. PromptFacts(k)'
    BY <1>1, <1>2, <1>5, <2>2, <2>3, <2>4 DEF PromptFacts
  <2> QED BY <1>1, <1>3, <1>6, <2>1, <2>5 DEF PromptIInv
<1> QED BY <1>7, <1>8, <1>9

(* A chunk arrives through the pipe.                                       *)
LEMMA DataKeeps == ASSUME PromptIInv, PipeData PROVE PromptIInv'
<1>1. /\ typing' = typing /\ stdinEnded' = stdinEnded /\ refused' = refused
      /\ ~typing.tty /\ listening /\ arriving # <<>> /\ arriving' = Tail(arriving)
  BY DEF PipeData
<1>2. PICK k \in 0..Len(Chunks) : PromptFacts(k)
  BY DEF PromptIInv
<1>3. PICK D : given \in Seq(D)
  BY DEF PromptIInv
<1>4. Text \in Seq(STRING)
  BY ChunkIsPart DEF Text, Chunks, PromptIInv
<1>5. PICK m \in 1..Len(Chunks) :
           /\ m = k + 1 /\ Head(arriving) = Chunks[m] /\ Chunks[m] \in Seq(STRING)
           /\ Arrived(m)'
           /\ PlaceOf(Chunks, m) = PlaceOf(Chunks, k) + Len(Chunks[m])
           /\ PlaceOf(Chunks, m) \in Nat /\ PlaceOf(Chunks, k) \in Nat
           /\ PlaceOf(Chunks, m) <= Len(Text)
           /\ \A i \in 1..Len(Chunks[m]) : Chunks[m][i] = Text[PlaceOf(Chunks, k) + i]
  BY <1>1, <1>2, NextChunk DEF PromptFacts, PromptIInv
<1>6. PICK t : t = pendingInput \o Decoded(Head(arriving))
  OBVIOUS
<1>7. /\ pendingInput' = IF HasLine(t) THEN AfterLine(t) ELSE t
      /\ listening' = ~HasLine(t)
      /\ IF HasLine(t) THEN Gives(TrimEnd(FirstLine(t))) ELSE UNCHANGED given
  BY <1>6 DEF PipeData
<1>8. \E E : given' \in Seq(E)
  BY <1>3, <1>7, AnswerAdded DEF Gives
<1>9. stdinEnded' => m = Len(Chunks')
  <2>1. stdinEnded => k = Len(Chunks)
    BY <1>2 DEF PromptFacts
  <2>2. m \in 1..Len(Chunks) /\ m = k + 1 /\ k \in 0..Len(Chunks) /\ Len(Chunks) \in Nat
    BY <1>2, <1>5 DEF PromptIInv
  <2> QED BY <1>1, <2>1, <2>2
<1>10. NoCharacterCut' => \E d \in Nat : Piped(m, d)'
  <2>1. SUFFICES ASSUME NoCharacterCut
                 PROVE  \E d \in Nat : Piped(m, d)'
    BY <1>1, InputStays
  <2>2. PICK c \in Nat : Piped(k, c)
    BY <1>1, <1>2, <2>1 DEF PromptFacts
  <2>3. PICK chunk \in Seq(STRING) : chunk = Chunks[m]
    BY <1>5
  <2>4. Decoded(chunk) = chunk
    <3>1. ~Contains(Decoded(chunk), "bad")
      BY <1>5, <2>1, <2>3 DEF NoCharacterCut, Chunks
    <3> QED BY <3>1, DecodedIs
  <2>5. PICK e, u \in Nat : e = PlaceOf(Chunks, k) /\ u = PlaceOf(Chunks, m)
    BY <1>5
  <2>6. e + Len(chunk) = u /\ u <= Len(Text) /\ \A i \in 1..Len(chunk) : chunk[i] = Text[e + i]
    BY <1>5, <2>3, <2>5
  <2>7. /\ Held(Text, pendingInput, c, e) /\ Counted(Text, c, Len(given))
        /\ \A i \in 1..Len(given) : given[i] = TrimEnd(LinesOf(Text)[i])
        /\ refused => c = Len(Text)
    BY <2>2, <2>5 DEF Piped
  <2>8. Held(Text, t, c, u)
    <3>1. t = pendingInput \o chunk
      BY <1>5, <1>6, <2>3, <2>4
    <3>2. Held(Text, pendingInput \o chunk, c, e + Len(chunk))
      BY <1>4, <2>6, <2>7, HeldGrows
    <3> QED BY <2>6, <3>1, <3>2
  <2>9. CASE HasLine(t)
    <3>1. /\ given' = Append(given, TrimEnd(FirstLine(t))) /\ pendingInput' = AfterLine(t)
          /\ ~listening'
      BY <1>7, <2>9 DEF Gives
    <3>2. ~refused
      <4>1. SUFFICES ASSUME refused
                     PROVE  FALSE
        OBVIOUS
      <4>2. c = Len(Text) /\ t \in Seq(STRING) /\ Len(t) = u - c
        BY <2>7, <2>8, <4>1 DEF Held
      <4>3. Len(t) = 0
        BY <2>6, <2>8, <4>2 DEF Held
      <4> QED BY <2>9, <4>3 DEF HasLine, Contains
    <3>3. Held(Text, t, c, PlaceOf(Chunks, m)) /\ PlaceOf(Chunks, m) \in Nat
      BY <2>5, <2>8
    <3> QED BY <1>1, <1>3, <1>4, <2>7, <2>9, <3>1, <3>2, <3>3, LineAnswers
  <2>10. CASE ~HasLine(t)
    <3>1. given' = given /\ pendingInput' = t
      BY <1>7, <2>10
    <3>2. Held(Text', pendingInput', c, PlaceOf(Chunks', m)) /\ Counted(Text', c, Len(given'))
      BY <1>1, <2>5, <2>7, <2>8, <3>1, InputStays
    <3>3. \A i \in 1..Len(given') : given'[i] = TrimEnd(LinesOf(Text')[i])
      BY <1>1, <2>7, <3>1, InputStays
    <3>4. refused' => c = Len(Text')
      BY <1>1, <2>7, InputStays
    <3> QED BY <2>10, <3>1, <3>2, <3>3, <3>4 DEF Piped
  <2> QED BY <2>9, <2>10
<1>11. PromptFacts(m)'
  BY <1>1, <1>5, <1>9, <1>10 DEF PromptFacts
<1>12. typing'.tty \in BOOLEAN /\ Chunks' \in Seq(Seq(STRING)) /\ m \in 0..Len(Chunks')
       /\ stdinEnded' \in BOOLEAN /\ refused' \in BOOLEAN /\ listening' \in BOOLEAN
  BY <1>1, <1>5, <1>7, InputStays DEF PromptIInv
<1> QED BY <1>8, <1>11, <1>12 DEF PromptIInv

(* The pipe ends.                                                          *)
LEMMA InputEndKeeps == ASSUME PromptIInv, PipeEnds PROVE PromptIInv'
<1>1. /\ typing' = typing /\ arriving' = arriving /\ arriving = <<>>
      /\ ~typing.tty /\ listening /\ stdinEnded' = TRUE /\ ~listening' /\ LastLine
      /\ listening' \in BOOLEAN
  BY DEF PipeEnds
<1>2. PICK k \in 0..Len(Chunks) : PromptFacts(k)
  BY DEF PromptIInv
<1>3. PICK D : given \in Seq(D)
  BY DEF PromptIInv
<1>4. Text \in Seq(STRING) /\ PlaceOf(Chunks, Len(Chunks)) = Len(Text)
  BY ChunkIsPart DEF Text, Chunks, PromptIInv
<1>5. k = Len(Chunks)
  <2>1. Len(arriving) = Len(Chunks) - k /\ Len(arriving) = 0
    BY <1>1, <1>2 DEF PromptFacts, Arrived
  <2>2. Len(Chunks) \in Nat /\ k \in Nat
    BY <1>2 DEF PromptIInv
  <2> QED BY <2>1, <2>2
<1>6. Arrived(k)' /\ k = Len(Chunks')
  BY <1>1, <1>2, <1>5, InputStays DEF PromptFacts, Arrived
<1>7. refused' \in BOOLEAN /\ \E E : given' \in Seq(E)
  BY <1>1, <1>3, AnswerAdded DEF LastLine, Gives, PromptIInv
<1>8. NoCharacterCut' => \E d \in Nat : Piped(k, d)'
  <2>1. SUFFICES ASSUME NoCharacterCut
                 PROVE  \E d \in Nat : Piped(k, d)'
    BY <1>1, InputStays
  <2>2. PICK c \in Nat : Piped(k, c)
    BY <1>1, <1>2, <2>1 DEF PromptFacts
  <2>3. ~HasLine(pendingInput)
    BY <1>1, <2>2 DEF Piped
  <2> QED BY <1>1, <1>3, <1>4, <1>5, <2>2, <2>3, LastAnswers
<1>9. PromptFacts(k)'
  BY <1>1, <1>6, <1>8 DEF PromptFacts
<1>10. typing'.tty \in BOOLEAN /\ Chunks' \in Seq(Seq(STRING)) /\ k \in 0..Len(Chunks')
       /\ stdinEnded' \in BOOLEAN
  BY <1>1, <1>2, InputStays DEF PromptIInv
<1> QED BY <1>1, <1>7, <1>9, <1>10 DEF PromptIInv

(* Keys are typed on the terminal.                                         *)
LEMMA KeysKeep == ASSUME PromptIInv, TypeKeys PROVE PromptIInv'
<1>1. /\ typing' = typing /\ stdinEnded' = stdinEnded /\ refused' = refused
      /\ typing.tty /\ arriving # <<>> /\ arriving' = Tail(arriving)
      /\ listening' \in BOOLEAN
  BY DEF TypeKeys
<1>2. PICK k \in 0..Len(Chunks) : PromptFacts(k)
  BY DEF PromptIInv
<1>3. PICK D : given \in Seq(D)
  BY DEF PromptIInv
<1>4. Text \in Seq(STRING)
  BY ChunkIsPart DEF Text, Chunks, PromptIInv
<1>5. PICK m \in 1..Len(Chunks) :
           /\ m = k + 1 /\ Head(arriving) = Chunks[m] /\ Chunks[m] \in Seq(STRING)
           /\ Arrived(m)'
           /\ PlaceOf(Chunks, m) = PlaceOf(Chunks, k) + Len(Chunks[m])
           /\ PlaceOf(Chunks, m) \in Nat /\ PlaceOf(Chunks, k) \in Nat
           /\ PlaceOf(Chunks, m) <= Len(Text)
           /\ \A i \in 1..Len(Chunks[m]) : Chunks[m][i] = Text[PlaceOf(Chunks, k) + i]
  BY <1>1, <1>2, NextChunk DEF PromptFacts, PromptIInv
<1>6. PICK keys \in Seq(STRING) : keys = Chunks[m]
  BY <1>5
<1>7. \E E : given' \in Seq(E)
  <2>1. given' = given \/ \E x : given' = Append(given, x)
    BY DEF TypeKeys, Gives
  <2> QED BY <1>3, <2>1, AnswerAdded
<1>8. stdinEnded' => m = Len(Chunks')
  <2>1. stdinEnded => k = Len(Chunks)
    BY <1>2 DEF PromptFacts
  <2>2. m \in 1..Len(Chunks) /\ m = k + 1 /\ k \in 0..Len(Chunks) /\ Len(Chunks) \in Nat
    BY <1>2, <1>5 DEF PromptIInv
  <2> QED BY <1>1, <2>1, <2>2
<1>9. OneLineAtATime' => \E d \in Nat : \E next : Typed(m, d, next)'
  <2>1. SUFFICES ASSUME OneLineAtATime
                 PROVE  \E d \in Nat : \E next : Typed(m, d, next)'
    BY <1>1, InputStays
  <2>2. PICK c \in Nat : \E raw : Typed(k, c, raw)
    BY <1>1, <1>2, <2>1 DEF PromptFacts
  <2>3. PICK raw : Typed(k, c, raw)
    BY <2>2
  <2>4. HasLine(keys) => LineEnd(keys) = Len(keys)
    BY <1>5, <1>6, <2>1 DEF OneLineAtATime, Chunks
  <2>5. /\ keys = Head(arriving)
        /\ PlaceOf(Chunks, k) \in Nat /\ PlaceOf(Chunks, m) = PlaceOf(Chunks, k) + Len(keys)
        /\ PlaceOf(Chunks, m) <= Len(Text)
        /\ \A i \in 1..Len(keys) : keys[i] = Text[PlaceOf(Chunks, k) + i]
    BY <1>5, <1>6
  <2> QED BY <1>3, <1>4, <2>3, <2>4, <2>5, KeysTyped
<1>10. PromptFacts(m)'
  BY <1>1, <1>5, <1>8, <1>9 DEF PromptFacts
<1>11. typing'.tty \in BOOLEAN /\ Chunks' \in Seq(Seq(STRING)) /\ m \in 0..Len(Chunks')
       /\ stdinEnded' \in BOOLEAN /\ refused' \in BOOLEAN
  <2>1. Chunks' = Chunks /\ m \in 0..Len(Chunks)
    BY <1>1, <1>5, InputStays
  <2> QED BY <1>1, <2>1 DEF PromptIInv
<1> QED BY <1>1, <1>7, <1>10, <1>11 DEF PromptIInv

(* Every step keeps it.                                                    *)
LEMMA PromptStep == PromptIInv /\ [PromptNext]_promptVars => PromptIInv'
<1>1. ASSUME PromptIInv, UNCHANGED promptVars
      PROVE  PromptIInv'
  <2>1. /\ typing' = typing /\ arriving' = arriving /\ pendingInput' = pendingInput
        /\ stdinEnded' = stdinEnded /\ listening' = listening /\ given' = given
        /\ refused' = refused
    BY <1>1 DEF promptVars
  <2>2. /\ Chunks' = Chunks /\ Text' = Text /\ NoCharacterCut' = NoCharacterCut
        /\ OneLineAtATime' = OneLineAtATime
    BY <2>1, InputStays
  <2>3. PICK k \in 0..Len(Chunks) : PromptFacts(k)
    BY <1>1 DEF PromptIInv
  <2>4. ASSUME NEW c
        PROVE  Piped(k, c)' <=> Piped(k, c)
    BY <2>1, <2>2 DEF Piped
  <2>5. ASSUME NEW c, NEW keys
        PROVE  Typed(k, c, keys)' <=> Typed(k, c, keys)
    BY <2>1, <2>2 DEF Typed
  <2>6. Arrived(k)'
    BY <2>1, <2>2, <2>3 DEF PromptFacts, Arrived
  <2>7. PromptFacts(k)'
    BY <2>1, <2>2, <2>3, <2>4, <2>5, <2>6 DEF PromptFacts
  <2> QED BY <1>1, <2>1, <2>2, <2>3, <2>7 DEF PromptIInv
<1> QED BY <1>1, PromptKeeps, DataKeeps, InputEndKeeps, KeysKeep DEF PromptNext

(* However an input is cut into chunks, and whatever is left when a prompt *)
(* is answered, the next prompt gets the next line, and none is refused    *)
(* while there is one.                                                     *)
THEOREM PromptsGetLines == PromptInit /\ [][PromptNext]_promptVars => []PromptInv
<1>1. PromptInit => PromptIInv
  BY PromptAssumption, PromptStarts
<1>2. PromptIInv /\ [PromptNext]_promptVars => PromptIInv'
  BY PromptStep
<1>3. PromptIInv => PromptInv
  BY AnswersAreLines
<1>. QED
  BY <1>1, <1>2, <1>3, PTL

-----------------------------------------------------------------------------
(* What a model's text is taken for: for any two calls, whose values may   *)
(* be of any length and hold any quotes, commas and braces.                *)

IsJoin(s, a, b) ==
  /\ Len(s) = Len(a) + Len(b)
  /\ \A i \in 1..Len(a) : s[i] = a[i]
  /\ \A i \in 1..Len(b) : s[Len(a) + i] = b[i]

(* Two sequences, one behind the other.                                    *)
LEMMA JoinIs ==
  ASSUME NEW K, NEW a \in Seq(K), NEW b \in Seq(K)
  PROVE  a \o b \in Seq(K) /\ IsJoin(a \o b, a, b)
<1>1. a \o b \in Seq(K) /\ Len(a \o b) = Len(a) + Len(b)
  BY ConcatProperties
<1>2. \A i \in 1..(Len(a) + Len(b)) : (a \o b)[i] = IF i <= Len(a) THEN a[i] ELSE b[i - Len(a)]
  BY ConcatProperties
<1>3. PICK la, lb \in Nat : la = Len(a) /\ lb = Len(b)
  <2>1. Len(a) \in Nat /\ Len(b) \in Nat
    OBVIOUS
  <2> QED BY <2>1
<1>4. \A i \in 1..la : (a \o b)[i] = a[i]
  <2>1. TAKE i \in 1..la
  <2>2. i \in 1..(la + lb) /\ i <= la
    OBVIOUS
  <2> QED BY <1>2, <1>3, <2>2
<1>5. \A i \in 1..lb : (a \o b)[la + i] = b[i]
  <2>1. TAKE i \in 1..lb
  <2>2. PICK m \in 1..(la + lb) : m = la + i
    OBVIOUS
  <2>3. ~(m <= la) /\ m - la = i
    BY <2>2
  <2> QED BY <1>2, <1>3, <2>2, <2>3
<1> QED BY <1>1, <1>3, <1>4, <1>5 DEF IsJoin

(* The tokens of a block, and of what is between its marks.                *)
IsBlock(s, x, u, y, w) ==
  /\ s \in Seq(TextTokens) /\ Len(s) = Len(u) + Len(w) + 9
  /\ s[1] = "open" /\ s[2] = "tool" /\ s[3] = x
  /\ \A i \in 1..Len(u) : s[3 + i] = u[i]
  /\ s[4 + Len(u)] = "q" /\ s[5 + Len(u)] = "comma" /\ s[6 + Len(u)] = y
  /\ \A i \in 1..Len(w) : s[6 + Len(u) + i] = w[i]
  /\ s[7 + Len(u) + Len(w)] = "q" /\ s[8 + Len(u) + Len(w)] = "brace"
  /\ s[9 + Len(u) + Len(w)] = "close"
IsCallBody(s, x, u, y, w) ==
  /\ s \in Seq(TextTokens) /\ Len(s) = Len(u) + Len(w) + 7
  /\ s[1] = "tool" /\ s[2] = x
  /\ \A i \in 1..Len(u) : s[2 + i] = u[i]
  /\ s[3 + Len(u)] = "q" /\ s[4 + Len(u)] = "comma" /\ s[5 + Len(u)] = y
  /\ \A i \in 1..Len(w) : s[5 + Len(u) + i] = w[i]
  /\ s[6 + Len(u) + Len(w)] = "q" /\ s[7 + Len(u) + Len(w)] = "brace"

IsField(f, x, u) ==
  /\ f \in Seq(TextTokens) /\ Len(f) = Len(u) + 2 /\ f[1] = x /\ f[2 + Len(u)] = "q"
  /\ \A i \in 1..Len(u) : f[1 + i] = u[i]

(* A field is its name, its value and a quote.                             *)
LEMMA FieldIs ==
  ASSUME NEW x \in TextTokens, NEW u \in Seq(TextTokens), NEW f, f = <<x>> \o u \o <<"q">>
  PROVE  IsField(f, x, u)
<1>1. PICK n \in Nat : n = Len(u)
  OBVIOUS
<1>2. PICK o, q : o = <<x>> /\ q = <<"q">>
  OBVIOUS
<1>3. o \in Seq(TextTokens) /\ q \in Seq(TextTokens)
  <2>1. <<x>> \in Seq(TextTokens)
    OBVIOUS
  <2>2. <<"q">> \in Seq(TextTokens)
    BY DEF TextTokens
  <2> QED BY <1>2, <2>1, <2>2
<1>4. Len(o) = 1 /\ o[1] = x /\ Len(q) = 1 /\ q[1] = "q"
  BY <1>2
<1>5. PICK g : g = o \o u
  OBVIOUS
<1>6. g \in Seq(TextTokens) /\ IsJoin(g, o, u)
  BY <1>3, <1>5, JoinIs
<1>7. f = g \o q
  BY <1>2, <1>5
<1>8. f \in Seq(TextTokens) /\ IsJoin(f, g, q)
  BY <1>3, <1>6, <1>7, JoinIs
<1>13. Len(g) = 1 + n /\ \A i \in 1..n : g[1 + i] = u[i]
  BY <1>1, <1>4, <1>6 DEF IsJoin
<1>14. g[1] = x
  <2>1. 1 \in 1..Len(o)
    BY <1>4
  <2> QED BY <1>4, <1>6, <2>1 DEF IsJoin
<1>15. Len(f) = n + 2 /\ f[1 + n + 1] = "q"
  <2>1. 1 \in 1..Len(q)
    BY <1>4
  <2>2. Len(f) = Len(g) + Len(q) /\ f[Len(g) + 1] = q[1]
    BY <1>8, <2>1 DEF IsJoin
  <2> QED BY <1>4, <1>13, <2>2
<1>16. \A i \in 1..(1 + n) : f[i] = g[i]
  BY <1>8, <1>13 DEF IsJoin
<1>9. f[1] = x
  <2>1. 1 \in 1..(1 + n)
    OBVIOUS
  <2> QED BY <1>14, <1>16, <2>1
<1>10. \A i \in 1..n : f[1 + i] = u[i]
  <2>1. TAKE i \in 1..n
  <2>2. PICK m \in 1..(1 + n) : m = 1 + i
    OBVIOUS
  <2> QED BY <1>13, <1>16, <2>2
<1>11. f[2 + n] = "q"
  <2>1. 1 + n + 1 = 2 + n
    OBVIOUS
  <2> QED BY <1>15, <2>1
<1> QED BY <1>1, <1>8, <1>9, <1>10, <1>11, <1>15 DEF IsField

(* A block is two fields between its marks.                                *)
LEMMA BlockIs ==
  ASSUME NEW x \in TextTokens, NEW u \in Seq(TextTokens), NEW y \in TextTokens, NEW w \in Seq(TextTokens), NEW s,
         s = <<"open", "tool">>
               \o ((<<x>> \o u \o <<"q">>) \o <<"comma">> \o (<<y>> \o w \o <<"q">>))
               \o <<"brace", "close">>
  PROVE  IsBlock(s, x, u, y, w)
<1>1. PICK a, b \in Nat : a = Len(u) /\ b = Len(w)
  <2>1. Len(u) \in Nat /\ Len(w) \in Nat
    OBVIOUS
  <2> QED BY <2>1
<1>2. PICK f, g : f = <<x>> \o u \o <<"q">> /\ g = <<y>> \o w \o <<"q">>
  OBVIOUS
<1>3. /\ f \in Seq(TextTokens) /\ Len(f) = a + 2 /\ f[1] = x
      /\ \A i \in 1..a : f[1 + i] = u[i]
      /\ f[2 + a] = "q"
  <2>1. IsField(f, x, u)
    BY <1>2, FieldIs
  <2> QED BY <1>1, <2>1 DEF IsField
<1>4. /\ g \in Seq(TextTokens) /\ Len(g) = b + 2 /\ g[1] = y
      /\ \A i \in 1..b : g[1 + i] = w[i]
      /\ g[2 + b] = "q"
  <2>1. IsField(g, y, w)
    BY <1>2, FieldIs
  <2> QED BY <1>1, <2>1 DEF IsField
<1>5. PICK k, o, e : k = <<"comma">> /\ o = <<"open", "tool">> /\ e = <<"brace", "close">>
  OBVIOUS
<1>6. Len(k) = 1 /\ k[1] = "comma"
  BY <1>5
<1>23. Len(o) = 2 /\ o[1] = "open" /\ o[2] = "tool"
  BY <1>5
<1>24. Len(e) = 2 /\ e[1] = "brace" /\ e[2] = "close"
  BY <1>5
<1>25. k \in Seq(TextTokens) /\ o \in Seq(TextTokens) /\ e \in Seq(TextTokens)
  <2>1. <<"comma">> \in Seq(TextTokens)
    BY DEF TextTokens
  <2>2. <<"open", "tool">> \in Seq(TextTokens)
    BY DEF TextTokens
  <2>3. <<"brace", "close">> \in Seq(TextTokens)
    BY DEF TextTokens
  <2> QED BY <1>5, <2>1, <2>2, <2>3
<1>7. PICK h : h = f \o k
  OBVIOUS
<1>26. h \in Seq(TextTokens) /\ IsJoin(h, f, k)
  BY <1>3, <1>7, <1>25, JoinIs
<1>8. /\ Len(h) = a + 3
      /\ \A i \in 1..Len(f) : h[i] = f[i]
      /\ \A i \in 1..Len(k) : h[Len(f) + i] = k[i]
  BY <1>3, <1>6, <1>26 DEF IsJoin
<1>9. PICK m : m = h \o g
  OBVIOUS
<1>27. m \in Seq(TextTokens) /\ IsJoin(m, h, g)
  BY <1>4, <1>9, <1>26, JoinIs
<1>10. /\ Len(m) = a + b + 5
       /\ \A i \in 1..Len(h) : m[i] = h[i]
       /\ \A i \in 1..Len(g) : m[Len(h) + i] = g[i]
  BY <1>4, <1>8, <1>27 DEF IsJoin
<1>11. PICK p : p = o \o m
  OBVIOUS
<1>28. p \in Seq(TextTokens) /\ IsJoin(p, o, m)
  BY <1>11, <1>25, <1>27, JoinIs
<1>12. /\ Len(p) = a + b + 7
       /\ \A i \in 1..Len(o) : p[i] = o[i]
       /\ \A i \in 1..Len(m) : p[Len(o) + i] = m[i]
  BY <1>10, <1>23, <1>28 DEF IsJoin
<1>13. s = p \o e
  BY <1>2, <1>5, <1>7, <1>9, <1>11
<1>29. s \in Seq(TextTokens) /\ IsJoin(s, p, e)
  BY <1>13, <1>25, <1>28, JoinIs
<1>14. /\ Len(s) = a + b + 9
       /\ \A i \in 1..Len(p) : s[i] = p[i]
       /\ \A i \in 1..Len(e) : s[Len(p) + i] = e[i]
  BY <1>1, <1>12, <1>24, <1>29 DEF IsJoin
<1>15. /\ \A i \in 1..2 : s[i] = o[i]
       /\ \A i \in 1..(a + b + 5) : s[2 + i] = m[i]
  <2>1. \A i \in 1..2 : i \in 1..Len(p) /\ i \in 1..Len(o)
    BY <1>12, <1>23
  <2>2. ASSUME NEW i \in 1..(a + b + 5)
        PROVE  s[2 + i] = m[i]
    <3>1. PICK j \in 1..Len(p) : j = 2 + i
      BY <1>12
    <3>2. s[j] = p[j]
      BY <1>14
    <3>3. p[2 + i] = m[i]
      BY <1>10, <1>12, <1>23
    <3> QED BY <3>1, <3>2, <3>3
  <2> QED BY <1>12, <1>14, <2>1, <2>2
<1>16. \A i \in 1..(a + 2) : s[2 + i] = f[i]
  <2>1. TAKE i \in 1..(a + 2)
  <2>2. i \in 1..(a + b + 5) /\ i \in 1..Len(h) /\ i \in 1..Len(f)
    BY <1>3, <1>8
  <2> QED BY <1>8, <1>10, <1>15, <2>2
<1>17. s[5 + a] = "comma"
  <2>1. PICK j \in 1..(a + b + 5) : j = a + 3
    OBVIOUS
  <2>4. 1 \in 1..Len(k) /\ Len(f) + 1 = j /\ j \in 1..Len(h)
    BY <1>3, <1>6, <1>8, <2>1
  <2>2. h[j] = "comma"
    BY <1>6, <1>8, <2>4
  <2>3. s[2 + j] = "comma" /\ 2 + j = 5 + a
    BY <1>1, <1>10, <1>15, <2>1, <2>2, <2>4
  <2> QED BY <2>3
<1>18. \A i \in 1..(b + 2) : s[5 + a + i] = g[i]
  <2>1. TAKE i \in 1..(b + 2)
  <2>2. PICK j \in 1..(a + b + 5) : j = a + 3 + i
    OBVIOUS
  <2>5. i \in 1..Len(g) /\ Len(h) + i = j
    BY <1>4, <1>8, <2>2
  <2>3. m[Len(h) + i] = g[i]
    BY <1>10, <2>5
  <2>6. 2 + j = 5 + a + i
    BY <2>2
  <2>4. s[2 + j] = m[j]
    BY <1>15, <2>2
  <2> QED BY <2>3, <2>4, <2>5, <2>6
<1>19. s[8 + a + b] = "brace" /\ s[9 + a + b] = "close"
  <2>1. 1 \in 1..Len(e) /\ 2 \in 1..Len(e) /\ Len(p) + 1 = 8 + a + b /\ Len(p) + 2 = 9 + a + b
    BY <1>12, <1>24
  <2> QED BY <1>14, <1>24, <2>1
<1>20. s[1] = "open" /\ s[2] = "tool"
  <2>1. 1 \in 1..2 /\ 2 \in 1..2
    OBVIOUS
  <2> QED BY <1>15, <1>23, <2>1
<1>21. s[3] = x /\ (\A i \in 1..a : s[3 + i] = u[i]) /\ s[4 + a] = "q"
  <2>1. 1 \in 1..(a + 2) /\ 2 + 1 = 3 /\ 2 + a \in 1..(a + 2) /\ 2 + (2 + a) = 4 + a
    OBVIOUS
  <2>2. ASSUME NEW i \in 1..a
        PROVE  s[3 + i] = u[i]
    <3>1. PICK j \in 1..(a + 2) : j = 1 + i /\ 2 + j = 3 + i
      OBVIOUS
    <3> QED BY <1>3, <1>16, <3>1
  <2> QED BY <1>3, <1>16, <2>1, <2>2
<1>22. s[6 + a] = y /\ (\A i \in 1..b : s[6 + a + i] = w[i]) /\ s[7 + a + b] = "q"
  <2>1. 1 \in 1..(b + 2) /\ 5 + a + 1 = 6 + a /\ 2 + b \in 1..(b + 2) /\ 5 + a + (2 + b) = 7 + a + b
    OBVIOUS
  <2>2. ASSUME NEW i \in 1..b
        PROVE  s[6 + a + i] = w[i]
    <3>1. PICK j \in 1..(b + 2) : j = 1 + i /\ 5 + a + j = 6 + a + i
      OBVIOUS
    <3> QED BY <1>4, <1>18, <3>1
  <2> QED BY <1>4, <1>18, <2>1, <2>2
<1> QED BY <1>1, <1>14, <1>29, <1>17, <1>19, <1>20, <1>21, <1>22 DEF IsBlock

(* What is between the marks of a block of a longer text.                  *)
LEMMA BodyOf ==
  ASSUME NEW s, NEW x, NEW u \in Seq(TextTokens), NEW y, NEW w \in Seq(TextTokens), IsBlock(s, x, u, y, w),
         NEW t \in Seq(TextTokens), NEW o \in Nat, NEW e \in Nat, e = o + Len(s) - 1, 1 <= o, e <= Len(t),
         \A i \in 1..Len(s) : t[o - 1 + i] = s[i]
  PROVE  IsCallBody(SubSeq(t, o + 1, e - 1), x, u, y, w)
<1>1. PICK a, b \in Nat : a = Len(u) /\ b = Len(w)
  <2>1. Len(u) \in Nat /\ Len(w) \in Nat
    OBVIOUS
  <2> QED BY <2>1
<1>2. Len(s) = a + b + 9 /\ e = o + (a + b + 8)
  BY <1>1 DEF IsBlock
<1>3. PICK body : body = SubSeq(t, o + 1, e - 1)
  OBVIOUS
<1>4. o + 1 \in 1..(Len(t) + 1) /\ e - 1 \in (o + 1 - 1)..Len(t) /\ e - 1 - (o + 1) + 1 = a + b + 7
  <2>1. Len(t) \in Nat
    OBVIOUS
  <2> QED BY <1>1, <1>2, <2>1
<1>5. /\ SubSeq(t, o + 1, e - 1) \in Seq(TextTokens)
      /\ Len(SubSeq(t, o + 1, e - 1)) = e - 1 - (o + 1) + 1
      /\ \A i \in 1..(e - 1 - (o + 1) + 1) : SubSeq(t, o + 1, e - 1)[i] = t[o + 1 + i - 1]
  BY <1>4, PartIs
<1>6. body \in Seq(TextTokens) /\ Len(body) = a + b + 7
  BY <1>3, <1>4, <1>5
<1>7. \A i \in 1..(a + b + 7) : body[i] = s[i + 1]
  <2>1. TAKE i \in 1..(a + b + 7)
  <2>2. body[i] = t[o + 1 + i - 1]
    BY <1>3, <1>4, <1>5
  <2>3. PICK m \in 1..(a + b + 9) : m = i + 1
    BY <1>1
  <2>4. o + 1 + i - 1 = o - 1 + m
    BY <2>3
  <2>5. t[o - 1 + m] = s[m]
    BY <1>2, <2>3
  <2> QED BY <2>2, <2>3, <2>4, <2>5
<1>8. body[1] = "tool" /\ body[2] = x
  <2>1. 1 \in 1..(a + b + 7) /\ 2 \in 1..(a + b + 7) /\ 1 + 1 = 2 /\ 2 + 1 = 3
    BY <1>1
  <2>2. body[1] = s[2] /\ body[2] = s[3]
    BY <1>7, <2>1
  <2> QED BY <2>2 DEF IsBlock
<1>9. body[3 + a] = "q" /\ body[4 + a] = "comma" /\ body[5 + a] = y
  <2>1. /\ 3 + a \in 1..(a + b + 7) /\ 4 + a \in 1..(a + b + 7) /\ 5 + a \in 1..(a + b + 7)
        /\ 3 + a + 1 = 4 + a /\ 4 + a + 1 = 5 + a /\ 5 + a + 1 = 6 + a
    BY <1>1
  <2>2. body[3 + a] = s[4 + a] /\ body[4 + a] = s[5 + a] /\ body[5 + a] = s[6 + a]
    BY <1>7, <2>1
  <2> QED BY <1>1, <2>2 DEF IsBlock
<1>10. body[6 + a + b] = "q" /\ body[7 + a + b] = "brace"
  <2>1. /\ 6 + a + b \in 1..(a + b + 7) /\ 7 + a + b \in 1..(a + b + 7)
        /\ 6 + a + b + 1 = 7 + a + b /\ 7 + a + b + 1 = 8 + a + b
    BY <1>1
  <2>2. body[6 + a + b] = s[7 + a + b] /\ body[7 + a + b] = s[8 + a + b]
    BY <1>7, <2>1
  <2> QED BY <1>1, <2>2 DEF IsBlock
<1>11. \A i \in 1..a : body[2 + i] = u[i]
  <2>1. TAKE i \in 1..a
  <2>2. 2 + i \in 1..(a + b + 7) /\ 2 + i + 1 = 3 + i
    BY <1>1
  <2>3. body[2 + i] = s[3 + i]
    BY <1>7, <2>2
  <2> QED BY <1>1, <2>3 DEF IsBlock
<1>12. \A i \in 1..b : body[5 + a + i] = w[i]
  <2>1. TAKE i \in 1..b
  <2>2. 5 + a + i \in 1..(a + b + 7) /\ 5 + a + i + 1 = 6 + a + i
    BY <1>1
  <2>3. body[5 + a + i] = s[6 + a + i]
    BY <1>7, <2>2
  <2> QED BY <1>1, <2>3 DEF IsBlock
<1> QED BY <1>1, <1>3, <1>6, <1>8, <1>9, <1>10, <1>11, <1>12 DEF IsCallBody

-----------------------------------------------------------------------------
(* JSON.parse of such a body.                                              *)
(* The states of the parser, token by token.                               *)
LEMMA JsonsAre ==
  ASSUME NEW body \in Seq(TextTokens), body # <<>>
  PROVE  /\ Jsons(body)[1] = JsonAt("name", "path:", <<>>, NoArgs)
         /\ \A n \in 2..Len(body) : Jsons(body)[n] = JsonStep(Jsons(body)[n - 1], body[n])
<1>1. PICK len \in Nat : len = Len(body) /\ 1 <= len
  <2>1. Len(body) \in Nat /\ Len(body) # 0
    BY EmptySeq
  <2> QED BY <2>1
<1>2. PICK b : b = JsonAt("name", "path:", <<>>, NoArgs)
  OBVIOUS
<1> DEFINE S == {m \in Nat : \E f : f = [n \in 1..(m + 1) |->
                   IF n = 1 THEN b ELSE JsonStep(f[n - 1], body[n])]}
<1>3. 0 \in S
  <2>1. PICK f : f = [n \in 1..1 |-> b]
    OBVIOUS
  <2>2. \A n \in 1..1 : n = 1
    OBVIOUS
  <2>3. f = [n \in 1..1 |-> IF n = 1 THEN b ELSE JsonStep(f[n - 1], body[n])]
    BY <2>1, <2>2
  <2>4. 0 + 1 = 1
    OBVIOUS
  <2> QED BY <2>3, <2>4
<1>4. ASSUME NEW m \in Nat, m \in S PROVE m + 1 \in S
  <2>1. PICK k \in Nat : k = m + 1 /\ 1 <= k
    OBVIOUS
  <2>2. PICK f : f = [n \in 1..k |-> IF n = 1 THEN b ELSE JsonStep(f[n - 1], body[n])]
    BY <1>4, <2>1
  <2>3. PICK z : z = JsonStep(f[k], body[k + 1])
    OBVIOUS
  <2>4. PICK g : g = [n \in 1..(k + 1) |-> IF n = k + 1 THEN z ELSE f[n]]
    OBVIOUS
  <2>5. \A n \in 1..k : n \in 1..(k + 1) /\ n # k + 1
    OBVIOUS
  <2>6. \A n \in 1..k : g[n] = f[n]
    BY <2>4, <2>5
  <2>7. ASSUME NEW n \in 1..(k + 1)
        PROVE  g[n] = IF n = 1 THEN b ELSE JsonStep(g[n - 1], body[n])
    <3>1. CASE n = k + 1
      <4>1. n - 1 = k /\ k \in 1..k /\ n # 1
        BY <2>1, <3>1
      <4>2. g[n - 1] = f[k]
        BY <2>6, <4>1
      <4> QED BY <2>3, <2>4, <3>1, <4>1, <4>2
    <3>2. CASE n = 1
      <4>1. n \in 1..k
        BY <2>1, <3>2
      <4> QED BY <2>2, <2>6, <3>2, <4>1
    <3>3. CASE n # 1 /\ n # k + 1
      <4>1. n \in 1..k /\ n - 1 \in 1..k
        BY <2>1, <3>3
      <4>2. f[n] = JsonStep(f[n - 1], body[n])
        BY <2>2, <3>3, <4>1
      <4>3. g[n] = f[n] /\ g[n - 1] = f[n - 1]
        BY <2>6, <4>1
      <4> QED BY <3>3, <4>2, <4>3
    <3> QED BY <3>1, <3>2, <3>3
  <2>8. g = [n \in 1..(k + 1) |-> IF n = 1 THEN b ELSE JsonStep(g[n - 1], body[n])]
    BY <2>4, <2>7
  <2>9. k + 1 = m + 1 + 1
    BY <2>1
  <2> QED BY <2>8, <2>9
<1> HIDE DEF S
<1>5. Nat \subseteq S
  BY <1>3, <1>4, NatInd
<1>6. PICK m \in Nat : m = len - 1 /\ m + 1 = len
  BY <1>1
<1>14. m \in S
  BY <1>5, <1>6
<1>15. \E f : f = [n \in 1..(m + 1) |-> IF n = 1 THEN b ELSE JsonStep(f[n - 1], body[n])]
  BY <1>14 DEF S
<1>7. PICK f : f = [n \in 1..len |-> IF n = 1 THEN b ELSE JsonStep(f[n - 1], body[n])]
  BY <1>6, <1>15
<1>8. PICK g : g = CHOOSE j : j = [n \in 1..len |-> IF n = 1 THEN b ELSE JsonStep(j[n - 1], body[n])]
  OBVIOUS
<1>9. g = [n \in 1..len |-> IF n = 1 THEN b ELSE JsonStep(g[n - 1], body[n])]
  BY <1>7, <1>8
<1>10. Jsons(body) = g
  BY <1>1, <1>2, <1>8 DEF Jsons
<1>11. 1 \in 1..len /\ \A n \in 2..len : n \in 1..len /\ n # 1
  BY <1>1
<1>12. g[1] = b
  BY <1>9, <1>11
<1>13. \A n \in 2..len : g[n] = JsonStep(g[n - 1], body[n])
  BY <1>9, <1>11
<1> QED BY <1>1, <1>2, <1>10, <1>12, <1>13

(* What a token does to the parser.                                        *)
LEMMA StepsOfJson ==
  ASSUME NEW mark, NEW value, NEW args
  PROVE  /\ \A token \in FieldMarks :
              JsonStep(JsonAt("name", mark, value, args), token) = JsonAt("value", token, <<>>, args)
         /\ JsonStep(JsonAt("value", mark, value, args), "q") =
              JsonAt("behind", mark, <<>>, SetField(args, mark, value))
         /\ JsonStep(JsonAt("behind", mark, value, args), "comma") =
              JsonAt("name", mark, value, args)
         /\ JsonStep(JsonAt("behind", mark, value, args), "brace") =
              JsonAt("end", mark, value, args)
<1>1. "q" \notin FieldMarks
  BY DEF FieldMarks
<1>2. ASSUME NEW token \in FieldMarks
      PROVE  JsonStep(JsonAt("name", mark, value, args), token) = JsonAt("value", token, <<>>, args)
  BY DEF JsonStep, JsonAt
<1>3. JsonStep(JsonAt("value", mark, value, args), "q") =
        JsonAt("behind", mark, <<>>, SetField(args, mark, value))
  <2>1. PICK s : s = JsonAt("value", mark, value, args)
    OBVIOUS
  <2>2. s.at = "value" /\ s.mark = mark /\ s.value = value /\ s.args = args
    BY <2>1 DEF JsonAt
  <2>3. JsonStep(s, "q") = JsonAt("behind", s.mark, <<>>, SetField(s.args, s.mark, s.value))
    BY <1>1, <2>2 DEF JsonStep
  <2> QED BY <2>1, <2>2, <2>3
<1>5. JsonStep(JsonAt("behind", mark, value, args), "comma") = JsonAt("name", mark, value, args)
  BY DEF JsonStep, JsonAt
<1>6. JsonStep(JsonAt("behind", mark, value, args), "brace") = JsonAt("end", mark, value, args)
  BY DEF JsonStep, JsonAt
<1> QED BY <1>2, <1>3, <1>5, <1>6

(* A token that is neither a field's name nor a quote makes a value longer. *)
LEMMA ValueGrows ==
  ASSUME NEW mark, NEW value, NEW args, NEW token, token \notin FieldMarks, token # "q"
  PROVE  JsonStep(JsonAt("value", mark, value, args), token) =
           JsonAt("value", mark, Append(value, token), args)
BY DEF JsonStep, JsonAt

(* A parser that is behind a value, or has met what it cannot read.        *)
Stray(s) ==
  \E at \in {"behind", "name", "end", "broken"} :
    \E mark, value, args : s = JsonAt(at, mark, value, args)
Broken(s) == \E mark, value, args : s = JsonAt("broken", mark, value, args)

(* Without a field's name it stays so, and a quote breaks it; what is      *)
(* broken stays broken.                                                    *)
LEMMA StraySteps ==
  ASSUME NEW s, NEW token
  PROVE  /\ Stray(s) /\ token \notin FieldMarks => Stray(JsonStep(s, token))
         /\ Stray(s) /\ token = "q" => Broken(JsonStep(s, token))
         /\ Broken(s) => Broken(JsonStep(s, token))
<1>1. "q" \notin FieldMarks
  BY DEF FieldMarks
<1>2. ASSUME NEW mark, NEW value, NEW args
      PROVE  /\ JsonStep(JsonAt("broken", mark, value, args), token) =
                  JsonAt("broken", mark, value, args)
             /\ JsonStep(JsonAt("end", mark, value, args), token) = JsonAt("broken", mark, value, args)
             /\ token \notin FieldMarks =>
                  JsonStep(JsonAt("name", mark, value, args), token) =
                    JsonAt("broken", mark, value, args)
             /\ token \notin {"comma", "brace"} =>
                  JsonStep(JsonAt("behind", mark, value, args), token) =
                    JsonAt("broken", mark, value, args)
  <2>1. JsonStep(JsonAt("broken", mark, value, args), token) = JsonAt("broken", mark, value, args)
    BY DEF JsonStep, JsonAt
  <2>2. JsonStep(JsonAt("end", mark, value, args), token) = JsonAt("broken", mark, value, args)
    BY DEF JsonStep, JsonAt
  <2>3. ASSUME token \notin FieldMarks
        PROVE  JsonStep(JsonAt("name", mark, value, args), token) =
                 JsonAt("broken", mark, value, args)
    BY <2>3 DEF JsonStep, JsonAt
  <2>4. ASSUME token \notin {"comma", "brace"}
        PROVE  JsonStep(JsonAt("behind", mark, value, args), token) =
                 JsonAt("broken", mark, value, args)
    BY <2>4 DEF JsonStep, JsonAt
  <2> QED BY <2>1, <2>2, <2>3, <2>4
<1>3. ASSUME NEW mark, NEW value, NEW args
      PROVE  /\ Broken(JsonAt("broken", mark, value, args))
             /\ Stray(JsonAt("broken", mark, value, args))
             /\ Stray(JsonAt("name", mark, value, args))
             /\ Stray(JsonAt("end", mark, value, args))
  BY DEF Broken, Stray
<1>4. ASSUME Broken(s) PROVE Broken(JsonStep(s, token))
  <2>1. PICK mark, value, args : s = JsonAt("broken", mark, value, args)
    BY <1>4 DEF Broken
  <2> QED BY <1>2, <1>3, <2>1
<1>5. ASSUME Stray(s) PROVE /\ token \notin FieldMarks => Stray(JsonStep(s, token))
                            /\ token = "q" => Broken(JsonStep(s, token))
  <2>6. PICK at \in {"behind", "name", "end", "broken"} :
          \E mark, value, args : s = JsonAt(at, mark, value, args)
    BY <1>5 DEF Stray
  <2>1. PICK mark, value, args : s = JsonAt(at, mark, value, args)
    BY <2>6
  <2>2. CASE at = "broken"
    BY <1>2, <1>3, <2>1, <2>2
  <2>3. CASE at = "end"
    BY <1>2, <1>3, <2>1, <2>3
  <2>4. CASE at = "name"
    BY <1>1, <1>2, <1>3, <2>1, <2>4
  <2>5. CASE at = "behind"
    <3>1. CASE token = "comma"
      BY <1>3, <2>1, <2>5, <3>1, StepsOfJson
    <3>2. CASE token = "brace"
      BY <1>3, <2>1, <2>5, <3>2, StepsOfJson
    <3>3. CASE token \notin {"comma", "brace"}
      BY <1>2, <1>3, <2>1, <2>5, <3>3
    <3> QED BY <3>1, <3>2, <3>3
  <2> QED BY <2>1, <2>2, <2>3, <2>4, <2>5
<1> QED BY <1>4, <1>5

(* What is broken is broken at the end.                                    *)
LEMMA BrokenStays ==
  ASSUME NEW body \in Seq(TextTokens), NEW p \in Nat, 1 <= p, p <= Len(body), Broken(Jsons(body)[p])
  PROVE  Broken(Jsons(body)[Len(body)])
<1>1. PICK len \in Nat : len = Len(body)
  OBVIOUS
<1>2. PICK g : g = Jsons(body)
  OBVIOUS
<1>3. \A n \in 2..len : g[n] = JsonStep(g[n - 1], body[n])
  <2>1. body # <<>>
    <3>1. Len(body) # 0
      OBVIOUS
    <3> QED BY <3>1
  <2> QED BY <1>1, <1>2, <2>1, JsonsAre
<1> DEFINE S == {m \in Nat : p + m <= len => Broken(g[p + m])}
<1>4. 0 \in S
  <2>1. p + 0 = p
    OBVIOUS
  <2> QED BY <1>2, <2>1
<1>5. ASSUME NEW m \in Nat, m \in S PROVE m + 1 \in S
  <2>1. CASE p + (m + 1) <= len
    <3>1. PICK n \in 2..len : n = p + (m + 1) /\ n - 1 = p + m
      BY <2>1
    <3>2. Broken(g[n - 1])
      BY <1>5, <3>1
    <3>3. Broken(g[n])
      BY <1>3, <3>2, StraySteps
    <3> QED BY <3>1, <3>3
  <2>2. CASE ~(p + (m + 1) <= len)
    BY <2>2
  <2> QED BY <2>1, <2>2
<1> HIDE DEF S
<1>6. Nat \subseteq S
  BY <1>4, <1>5, NatInd
<1>7. PICK m \in Nat : p + m = len
  <2>1. len - p \in Nat /\ p + (len - p) = len
    BY <1>1
  <2> QED BY <2>1
<1>8. m \in S
  BY <1>6
<1> QED BY <1>1, <1>2, <1>7, <1>8 DEF S

IsBeginning(value, v, n) ==
  value \in Seq(TextTokens) /\ Len(value) = n /\ \A i \in 1..n : value[i] = v[i]

HasValue(body, p, v) ==
  \A i \in 1..Len(v) : body[p + i] = v[i] /\ v[i] \notin FieldMarks

(* A value that names no field is read up to the quote behind it, or       *)
(* breaks the text.                                                        *)
LEMMA ValueRead ==
  ASSUME NEW body \in Seq(TextTokens), NEW p \in Nat, 1 <= p,
         NEW v \in Seq(TextTokens), p + Len(v) + 1 <= Len(body),
         HasValue(body, p, v), body[p + Len(v) + 1] = "q",
         NEW mark, NEW args, Jsons(body)[p] = JsonAt("value", mark, <<>>, args)
  PROVE  \/ Jsons(body)[p + Len(v) + 1] = JsonAt("behind", mark, <<>>, SetField(args, mark, v))
         \/ Broken(Jsons(body)[p + Len(v) + 1])
<1>1. PICK len, k \in Nat : len = Len(body) /\ k = Len(v)
  <2>1. Len(body) \in Nat /\ Len(v) \in Nat
    OBVIOUS
  <2> QED BY <2>1
<1>2. PICK g : g = Jsons(body)
  OBVIOUS
<1>3. \A n \in 2..len : g[n] = JsonStep(g[n - 1], body[n])
  <2>1. body # <<>>
    <3>1. Len(body) # 0
      BY <1>1
    <3> QED BY <3>1
  <2> QED BY <1>1, <1>2, <2>1, JsonsAre
<1> DEFINE Reads(m) == \E value : /\ IsBeginning(value, v, m)
                                  /\ g[p + m] = JsonAt("value", mark, value, args)
           S == {m \in Nat : m <= k => (Reads(m) \/ Stray(g[p + m]))}
<1>4. 0 \in S
  <2>1. p + 0 = p
    OBVIOUS
  <2>2. <<>> \in Seq(TextTokens) /\ Len(<<>>) = 0
    OBVIOUS
  <2>3. IsBeginning(<<>>, v, 0)
    BY <2>2 DEF IsBeginning
  <2> QED BY <1>2, <2>1, <2>3
<1>5. ASSUME NEW m \in Nat, m \in S PROVE m + 1 \in S
  <2>1. SUFFICES ASSUME m + 1 <= k
                 PROVE  Reads(m + 1) \/ Stray(g[p + (m + 1)])
    OBVIOUS
  <2>2. PICK j \in 1..k : j = m + 1 /\ j - 1 = m
    BY <2>1
  <2>3. PICK n \in 2..len : n = p + j /\ n - 1 = p + m
    BY <1>1, <2>2
  <2>4. body[n] = v[j] /\ v[j] \notin FieldMarks /\ v[j] \in TextTokens
    BY <1>1, <2>2, <2>3 DEF HasValue
  <2>5. g[n] = JsonStep(g[n - 1], v[j])
    BY <1>3, <2>4
  <2>6. Reads(m) \/ Stray(g[p + m])
    BY <1>5, <2>1
  <2>7. CASE Stray(g[p + m])
    <3>1. Stray(g[n])
      BY <2>3, <2>4, <2>5, <2>7, StraySteps
    <3> QED BY <2>2, <2>3, <3>1
  <2>8. CASE Reads(m)
    <3>1. PICK value : IsBeginning(value, v, m) /\ g[n - 1] = JsonAt("value", mark, value, args)
      BY <2>3, <2>8
    <3>2. CASE v[j] = "q"
      <4>1. g[n] = JsonAt("behind", mark, <<>>, SetField(args, mark, value))
        BY <2>5, <3>1, <3>2, StepsOfJson
      <4>2. Stray(g[n])
        BY <4>1 DEF Stray
      <4> QED BY <2>2, <2>3, <4>2
    <3>3. CASE v[j] # "q"
      <4>1. PICK longer : longer = Append(value, v[j])
        OBVIOUS
      <4>2. g[n] = JsonAt("value", mark, longer, args)
        BY <2>4, <2>5, <3>1, <3>3, <4>1, ValueGrows
      <4>3. IsBeginning(longer, v, j)
        <5>1. value \in Seq(TextTokens) /\ Len(value) = m /\ \A i \in 1..m : value[i] = v[i]
          BY <3>1 DEF IsBeginning
        <5>2. longer \in Seq(TextTokens) /\ Len(longer) = m + 1
          BY <2>4, <4>1, <5>1
        <5>3. \A i \in 1..m : longer[i] = value[i]
          BY <4>1, <5>1
        <5>4. longer[m + 1] = v[j]
          BY <4>1, <5>1
        <5>5. \A i \in 1..j : i \in 1..m \/ i = j
          BY <2>2
        <5> QED BY <2>2, <5>1, <5>2, <5>3, <5>4, <5>5 DEF IsBeginning
      <4>4. p + (m + 1) = n /\ m + 1 = j
        BY <2>2, <2>3
      <4> QED BY <4>2, <4>3, <4>4
    <3> QED BY <3>2, <3>3
  <2> QED BY <2>6, <2>7, <2>8
<1> HIDE DEF S
<1>6. k \in S
  BY <1>4, <1>5, NatInd
<1>7. Reads(k) \/ Stray(g[p + k])
  BY <1>6 DEF S
<1>8. PICK n \in 2..len : n = p + k + 1 /\ n - 1 = p + k
  BY <1>1
<1>9. g[n] = JsonStep(g[n - 1], "q")
  BY <1>1, <1>3, <1>8
<1>10. CASE Stray(g[p + k])
  BY <1>1, <1>2, <1>8, <1>9, <1>10, StraySteps
<1>11. CASE Reads(k)
  <2>1. PICK value : IsBeginning(value, v, k) /\ g[n - 1] = JsonAt("value", mark, value, args)
    BY <1>8, <1>11
  <2>2. value = v
    <3>1. value \in Seq(TextTokens) /\ Len(value) = Len(v) /\ \A i \in 1..Len(value) : value[i] = v[i]
      BY <1>1, <2>1 DEF IsBeginning
    <3> QED BY <3>1, SeqEqual
  <2>3. g[n] = JsonAt("behind", mark, <<>>, SetField(args, mark, v))
    BY <1>9, <2>1, <2>2, StepsOfJson
  <2> QED BY <1>1, <1>2, <1>8, <2>3
<1> QED BY <1>7, <1>10, <1>11

(* The call a body is, if it is JSON.                                      *)
LEMMA JsonReads ==
  ASSUME NEW body, NEW x \in FieldMarks, NEW y \in FieldMarks, NEW u \in Seq(TextTokens),
         NEW w \in Seq(TextTokens), IsCallBody(body, x, u, y, w),
         \A i \in 1..Len(u) : u[i] \notin FieldMarks, \A i \in 1..Len(w) : w[i] \notin FieldMarks
  PROVE  \/ Json(body) = JsonAt("end", y, <<>>, SetField(SetField(NoArgs, x, u), y, w))
         \/ Broken(Json(body))
<1>1. PICK a, b \in Nat : a = Len(u) /\ b = Len(w)
  <2>1. Len(u) \in Nat /\ Len(w) \in Nat
    OBVIOUS
  <2> QED BY <2>1
<1>2. body \in Seq(TextTokens) /\ Len(body) = a + b + 7
  BY <1>1 DEF IsCallBody
<1>3. PICK g : g = Jsons(body)
  OBVIOUS
<1>4. Json(body) = g[a + b + 7]
  BY <1>2, <1>3 DEF Json
<1>5. body # <<>>
  <2>1. Len(body) # 0
    BY <1>1, <1>2
  <2> QED BY <2>1
<1>6. g[1] = JsonAt("name", "path:", <<>>, NoArgs)
  BY <1>2, <1>3, <1>5, JsonsAre
<1>7. \A n \in 2..(a + b + 7) : g[n] = JsonStep(g[n - 1], body[n])
  BY <1>2, <1>3, <1>5, JsonsAre
<1>8. g[2] = JsonAt("value", x, <<>>, NoArgs)
  <2>1. 2 \in 2..(a + b + 7) /\ 2 - 1 = 1
    BY <1>1
  <2>2. g[2] = JsonStep(g[1], x)
    BY <1>7, <2>1 DEF IsCallBody
  <2> QED BY <1>6, <2>2, StepsOfJson
<1>9. \/ g[3 + a] = JsonAt("behind", x, <<>>, SetField(NoArgs, x, u))
      \/ Broken(g[3 + a])
  <2>1. PICK p \in Nat : p = 2
    OBVIOUS
  <2>2. 1 <= p /\ p + Len(u) + 1 = 3 + a /\ p + Len(u) + 1 <= Len(body)
    BY <1>1, <1>2, <2>1
  <2>3. HasValue(body, p, u)
    BY <2>1 DEF IsCallBody, HasValue
  <2>4. body[p + Len(u) + 1] = "q"
    BY <1>1, <2>2 DEF IsCallBody
  <2>5. Jsons(body)[p] = JsonAt("value", x, <<>>, NoArgs)
    BY <1>3, <1>8, <2>1
  <2>6. \/ Jsons(body)[p + Len(u) + 1] = JsonAt("behind", x, <<>>, SetField(NoArgs, x, u))
        \/ Broken(Jsons(body)[p + Len(u) + 1])
    BY <1>2, <2>1, <2>2, <2>3, <2>4, <2>5, ValueRead
  <2> QED BY <1>3, <2>2, <2>6
<1>10. CASE Broken(g[3 + a])
  <2>1. 3 + a \in Nat /\ 1 <= 3 + a /\ 3 + a <= Len(body)
    BY <1>1, <1>2
  <2> QED BY <1>2, <1>3, <1>4, <1>10, <2>1, BrokenStays
<1>11. CASE g[3 + a] = JsonAt("behind", x, <<>>, SetField(NoArgs, x, u))
  <2>1. PICK args : args = SetField(NoArgs, x, u)
    OBVIOUS
  <2>2. g[4 + a] = JsonAt("name", x, <<>>, args)
    <3>1. 4 + a \in 2..(a + b + 7) /\ 4 + a - 1 = 3 + a
      BY <1>1
    <3>2. g[4 + a] = JsonStep(g[3 + a], "comma")
      BY <1>1, <1>7, <3>1 DEF IsCallBody
    <3> QED BY <1>11, <2>1, <3>2, StepsOfJson
  <2>3. g[5 + a] = JsonAt("value", y, <<>>, args)
    <3>1. 5 + a \in 2..(a + b + 7) /\ 5 + a - 1 = 4 + a
      BY <1>1
    <3>2. g[5 + a] = JsonStep(g[4 + a], y)
      BY <1>1, <1>7, <3>1 DEF IsCallBody
    <3> QED BY <2>2, <3>2, StepsOfJson
  <2>4. \/ g[6 + a + b] = JsonAt("behind", y, <<>>, SetField(args, y, w))
        \/ Broken(g[6 + a + b])
    <3>1. PICK p \in Nat : p = 5 + a
      BY <1>1
    <3>2. 1 <= p /\ p + Len(w) + 1 = 6 + a + b /\ p + Len(w) + 1 <= Len(body)
      BY <1>1, <1>2, <3>1
    <3>3. HasValue(body, p, w)
      BY <1>1, <3>1 DEF IsCallBody, HasValue
    <3>4. body[p + Len(w) + 1] = "q"
      BY <1>1, <3>2 DEF IsCallBody
    <3>5. Jsons(body)[p] = JsonAt("value", y, <<>>, args)
      BY <1>3, <2>3, <3>1
    <3>6. \/ Jsons(body)[p + Len(w) + 1] = JsonAt("behind", y, <<>>, SetField(args, y, w))
          \/ Broken(Jsons(body)[p + Len(w) + 1])
      BY <1>2, <3>1, <3>2, <3>3, <3>4, <3>5, ValueRead
    <3> QED BY <1>3, <3>2, <3>6
  <2>5. CASE Broken(g[6 + a + b])
    <3>1. 6 + a + b \in Nat /\ 1 <= 6 + a + b /\ 6 + a + b <= Len(body)
      BY <1>1, <1>2
    <3> QED BY <1>2, <1>3, <1>4, <2>5, <3>1, BrokenStays
  <2>6. CASE g[6 + a + b] = JsonAt("behind", y, <<>>, SetField(args, y, w))
    <3>1. 7 + a + b \in 2..(a + b + 7) /\ 7 + a + b - 1 = 6 + a + b /\ 7 + a + b = a + b + 7
      BY <1>1
    <3>2. g[7 + a + b] = JsonStep(g[6 + a + b], "brace")
      BY <1>1, <1>7, <3>1 DEF IsCallBody
    <3>3. g[7 + a + b] = JsonAt("end", y, <<>>, SetField(args, y, w))
      BY <2>6, <3>2, StepsOfJson
    <3> QED BY <1>4, <2>1, <3>1, <3>3
  <2> QED BY <2>4, <2>5, <2>6
<1> QED BY <1>9, <1>10, <1>11

IsPart(r, s, m, n) ==
  Len(r) = n - m + 1 /\ \A i \in 1..(n - m + 1) : r[i] = s[m + i - 1]

(* A part of a sequence, and where it is from.                             *)
LEMMA PartFrom ==
  ASSUME NEW K, NEW s \in Seq(K), NEW m \in Nat, NEW n \in Nat, 1 <= m, m <= n + 1, n <= Len(s),
         NEW r, r = SubSeq(s, m, n)
  PROVE  r \in Seq(K) /\ IsPart(r, s, m, n)
<1>1. m \in 1..(Len(s) + 1) /\ n \in (m - 1)..Len(s)
  OBVIOUS
<1> QED BY <1>1, PartIs DEF IsPart

(* The first of one place.                                                 *)
LEMMA FirstOfOne ==
  ASSUME NEW k \in Nat
  PROVE  FirstOf({k}) = k
<1>1. k \in {k} /\ \A j \in {k} : k <= j
  OBVIOUS
<1>2. \E i \in {k} : \A j \in {k} : i <= j
  BY <1>1
<1>3. FirstOf({k}) \in {k}
  BY <1>2 DEF FirstOf
<1> QED BY <1>3

(* Each field is named in one place of a body, if no value names one.      *)
LEMMA MarksOfBody ==
  ASSUME NEW body, NEW x \in FieldMarks, NEW y \in FieldMarks, x # y, NEW u \in Seq(TextTokens),
         NEW w \in Seq(TextTokens), IsCallBody(body, x, u, y, w),
         \A i \in 1..Len(u) : u[i] \notin FieldMarks, \A i \in 1..Len(w) : w[i] \notin FieldMarks
  PROVE  Where(body, x) = {2} /\ Where(body, y) = {5 + Len(u)}
<1>1. PICK a, b \in Nat : a = Len(u) /\ b = Len(w)
  <2>1. Len(u) \in Nat /\ Len(w) \in Nat
    OBVIOUS
  <2> QED BY <2>1
<1>2. body \in Seq(TextTokens) /\ Len(body) = a + b + 7 /\ DOMAIN body = 1..(a + b + 7)
  <2>1. body \in Seq(TextTokens) /\ Len(body) = a + b + 7
    BY <1>1 DEF IsCallBody
  <2> QED BY <2>1
<1>3. \A t \in {"tool", "q", "comma", "brace"} : t \notin FieldMarks
  BY DEF FieldMarks
<1>4. ASSUME NEW i \in 1..(a + b + 7), i # 2, i # 5 + a
      PROVE  body[i] \notin FieldMarks
  <2>1. CASE i = 1
    BY <1>3, <2>1 DEF IsCallBody
  <2>2. CASE 3 <= i /\ i <= 2 + a
    <3>1. PICK j \in 1..a : 2 + j = i
      <4>1. i - 2 \in 1..a /\ 2 + (i - 2) = i
        BY <1>1, <2>2
      <4> QED BY <4>1
    <3>2. body[2 + j] = u[j]
      BY <1>1, <3>1 DEF IsCallBody
    <3>3. u[j] \notin FieldMarks
      BY <1>1, <3>1
    <3> QED BY <3>1, <3>2, <3>3
  <2>3. CASE i = 3 + a
    BY <1>1, <1>3, <2>3 DEF IsCallBody
  <2>4. CASE i = 4 + a
    BY <1>1, <1>3, <2>4 DEF IsCallBody
  <2>5. CASE 6 + a <= i /\ i <= 5 + a + b
    <3>1. PICK j \in 1..b : 5 + a + j = i
      <4>1. i - (5 + a) \in 1..b /\ 5 + a + (i - (5 + a)) = i
        BY <1>1, <2>5
      <4> QED BY <4>1
    <3>2. body[5 + a + j] = w[j]
      BY <1>1, <3>1 DEF IsCallBody
    <3>3. w[j] \notin FieldMarks
      BY <1>1, <3>1
    <3> QED BY <3>1, <3>2, <3>3
  <2>6. CASE i = 6 + a + b
    BY <1>1, <1>3, <2>6 DEF IsCallBody
  <2>7. CASE i = 7 + a + b
    BY <1>1, <1>3, <2>7 DEF IsCallBody
  <2>8. \/ i = 1
        \/ 3 <= i /\ i <= 2 + a
        \/ i = 3 + a
        \/ i = 4 + a
        \/ 6 + a <= i /\ i <= 5 + a + b
        \/ i = 6 + a + b
        \/ i = 7 + a + b
    BY <1>1, <1>4
  <2> QED BY <2>1, <2>2, <2>3, <2>4, <2>5, <2>6, <2>7, <2>8
<1>5. body[2] = x /\ body[5 + a] = y
  BY <1>1 DEF IsCallBody
<1>6. 2 \in 1..(a + b + 7) /\ 5 + a \in 1..(a + b + 7)
  BY <1>1
<1>7. \A i \in 1..(a + b + 7) : (body[i] = x <=> i = 2) /\ (body[i] = y <=> i = 5 + a)
  BY <1>4, <1>5
<1>8. Where(body, x) = {2}
  BY <1>2, <1>6, <1>7 DEF Where
<1>9. Where(body, y) = {5 + a}
  BY <1>2, <1>6, <1>7 DEF Where
<1> QED BY <1>1, <1>8, <1>9

(* The value a field's name is followed by, up to the next name.           *)
LEMMA FirstValue ==
  ASSUME NEW body, NEW x \in FieldMarks, NEW y \in FieldMarks, NEW u \in Seq(TextTokens),
         NEW w \in Seq(TextTokens), IsCallBody(body, x, u, y, w)
  PROVE  WithoutComma(SubSeq(body, 3, 4 + Len(u))) = u
<1>1. PICK a, b \in Nat : a = Len(u) /\ b = Len(w)
  <2>1. Len(u) \in Nat /\ Len(w) \in Nat
    OBVIOUS
  <2> QED BY <2>1
<1>2. body \in Seq(TextTokens) /\ Len(body) = a + b + 7
  BY <1>1 DEF IsCallBody
<1>3. PICK lo, hi \in Nat : lo = 3 /\ hi = 4 + a
  BY <1>1
<1>11. 1 <= lo /\ lo <= hi + 1 /\ hi <= Len(body) /\ hi - lo + 1 = a + 2
  BY <1>1, <1>2, <1>3
<1>4. PICK raw : raw = SubSeq(body, lo, hi)
  OBVIOUS
<1>5. raw \in Seq(TextTokens) /\ IsPart(raw, body, lo, hi)
  BY <1>2, <1>4, <1>11, PartFrom
<1>6. raw \in Seq(TextTokens) /\ Len(raw) = a + 2
  BY <1>5, <1>11 DEF IsPart
<1>7. \A i \in 1..(a + 2) : raw[i] = body[2 + i]
  <2>1. TAKE i \in 1..(a + 2)
  <2>2. raw[i] = body[lo + i - 1]
    BY <1>5, <1>11 DEF IsPart
  <2>3. lo + i - 1 = 2 + i
    BY <1>3
  <2> QED BY <2>2, <2>3
<1>8. raw[a + 1] = "q" /\ raw[a + 2] = "comma"
  <2>1. a + 1 \in 1..(a + 2) /\ a + 2 \in 1..(a + 2) /\ 2 + (a + 1) = 3 + a /\ 2 + (a + 2) = 4 + a
    BY <1>1
  <2>2. raw[a + 1] = body[3 + a] /\ raw[a + 2] = body[4 + a]
    BY <1>7, <2>1
  <2> QED BY <1>1, <2>2 DEF IsCallBody
<1>9. WithoutComma(raw) = SubSeq(raw, 1, a)
  <2>1. PICK n \in Nat : n = Len(raw) /\ n > 1 /\ n - 1 = a + 1 /\ n = a + 2 /\ n - 2 = a
    BY <1>1, <1>6
  <2>2. raw[n - 1] = "q" /\ raw[n] = "comma"
    BY <1>8, <2>1
  <2> QED BY <2>1, <2>2 DEF WithoutComma
<1>10. SubSeq(raw, 1, a) = u
  <2>1. 1 \in 1..(Len(raw) + 1) /\ a \in (1 - 1)..Len(raw) /\ a - 1 + 1 = a
    BY <1>1, <1>6
  <2>2. /\ SubSeq(raw, 1, a) \in Seq(TextTokens) /\ Len(SubSeq(raw, 1, a)) = a - 1 + 1
        /\ \A i \in 1..(a - 1 + 1) : SubSeq(raw, 1, a)[i] = raw[1 + i - 1]
    BY <1>6, <2>1, PartIs
  <2>3. ASSUME NEW i \in 1..a PROVE SubSeq(raw, 1, a)[i] = u[i]
    <3>1. i \in 1..(a + 2) /\ 1 + i - 1 = i
      BY <1>1
    <3>2. SubSeq(raw, 1, a)[i] = raw[i] /\ raw[i] = body[2 + i]
      BY <1>7, <2>1, <2>2, <3>1
    <3> QED BY <1>1, <3>2 DEF IsCallBody
  <2>4. PICK v : v = SubSeq(raw, 1, a)
    OBVIOUS
  <2>5. v \in Seq(TextTokens) /\ Len(v) = Len(u) /\ \A i \in 1..Len(v) : v[i] = u[i]
    BY <1>1, <2>1, <2>2, <2>3, <2>4
  <2>6. v = u
    BY <2>5, SeqEqual
  <2> QED BY <2>4, <2>6
<1> QED BY <1>1, <1>3, <1>4, <1>9, <1>10

IsLastValue(raw, w) ==
  LastQuote(raw) # {} /\ SubSeq(raw, 1, FirstOf(LastQuote(raw)) - 1) = w

(* The value the last name is followed by, up to the last quote.           *)
LEMMA LastValue ==
  ASSUME NEW body, NEW x \in FieldMarks, NEW y \in FieldMarks, NEW u \in Seq(TextTokens),
         NEW w \in Seq(TextTokens), IsCallBody(body, x, u, y, w),
         NEW raw, raw = SubSeq(body, 6 + Len(u), Len(body))
  PROVE  IsLastValue(raw, w)
<1>1. PICK a, b \in Nat : a = Len(u) /\ b = Len(w)
  <2>1. Len(u) \in Nat /\ Len(w) \in Nat
    OBVIOUS
  <2> QED BY <2>1
<1>2. body \in Seq(TextTokens) /\ Len(body) = a + b + 7
  BY <1>1 DEF IsCallBody
<1>3. PICK lo, hi \in Nat : lo = 6 + a /\ hi = a + b + 7
  <2>1. 6 + a \in Nat /\ a + b + 7 \in Nat
    BY <1>1
  <2> QED BY <2>1
<1>12. 1 <= lo /\ lo <= hi + 1 /\ hi <= Len(body) /\ hi - lo + 1 = b + 2
  BY <1>1, <1>2, <1>3
<1>4. raw = SubSeq(body, lo, hi)
  BY <1>1, <1>2, <1>3
<1>5. raw \in Seq(TextTokens) /\ IsPart(raw, body, lo, hi)
  BY <1>2, <1>4, <1>12, PartFrom
<1>6. raw \in Seq(TextTokens) /\ Len(raw) = b + 2 /\ DOMAIN raw = 1..(b + 2)
  <2>1. raw \in Seq(TextTokens) /\ Len(raw) = b + 2
    BY <1>5, <1>12 DEF IsPart
  <2> QED BY <2>1
<1>7. \A i \in 1..(b + 2) : raw[i] = body[5 + a + i]
  <2>1. TAKE i \in 1..(b + 2)
  <2>2. raw[i] = body[lo + i - 1]
    BY <1>5, <1>12 DEF IsPart
  <2>3. lo + i - 1 = 5 + a + i
    BY <1>1, <1>3
  <2> QED BY <2>2, <2>3
<1>8. raw[b + 1] = "q" /\ raw[b + 2] = "brace"
  <2>1. /\ b + 1 \in 1..(b + 2) /\ b + 2 \in 1..(b + 2)
        /\ 5 + a + (b + 1) = 6 + a + b /\ 5 + a + (b + 2) = 7 + a + b
    BY <1>1
  <2>2. raw[b + 1] = body[6 + a + b] /\ raw[b + 2] = body[7 + a + b]
    BY <1>7, <2>1
  <2> QED BY <1>1, <2>2 DEF IsCallBody
<1>9. LastQuote(raw) = {b + 1}
  <2>1. PICK n \in Nat : n = b + 2 /\ n - 1 = b + 1 /\ b + 1 < n
    BY <1>1
  <2>2. n = Len(raw) /\ raw[n - 1] = "q" /\ raw[n] = "brace" /\ DOMAIN raw = 1..n
    BY <1>6, <1>8, <2>1
  <2>3. {Len(raw), Len(raw) - 1} \cap DOMAIN raw = {n, n - 1}
    BY <1>1, <2>1, <2>2
  <2>4. LastQuote(raw) = {m \in {n, n - 1} : raw[m] = "q" /\ (m < n => raw[n] = "brace")}
    BY <2>2, <2>3 DEF LastQuote
  <2>5. LastQuote(raw) = {n - 1}
    BY <2>1, <2>2, <2>4
  <2> QED BY <2>1, <2>5
<1>10. LastQuote(raw) # {} /\ FirstOf(LastQuote(raw)) - 1 = b
  <2>1. PICK k \in Nat : k = b + 1 /\ k - 1 = b
    BY <1>1
  <2>2. FirstOf({k}) = k
    BY FirstOfOne
  <2> QED BY <1>9, <2>1, <2>2
<1>11. SubSeq(raw, 1, b) = w
  <2>1. 1 \in 1..(Len(raw) + 1) /\ b \in (1 - 1)..Len(raw) /\ b - 1 + 1 = b
    BY <1>1, <1>6
  <2>2. /\ SubSeq(raw, 1, b) \in Seq(TextTokens) /\ Len(SubSeq(raw, 1, b)) = b - 1 + 1
        /\ \A i \in 1..(b - 1 + 1) : SubSeq(raw, 1, b)[i] = raw[1 + i - 1]
    BY <1>6, <2>1, PartIs
  <2>3. ASSUME NEW i \in 1..b PROVE SubSeq(raw, 1, b)[i] = w[i]
    <3>1. i \in 1..(b + 2) /\ 1 + i - 1 = i
      BY <1>1
    <3>2. SubSeq(raw, 1, b)[i] = raw[i] /\ raw[i] = body[5 + a + i]
      BY <1>7, <2>1, <2>2, <3>1
    <3> QED BY <1>1, <3>2 DEF IsCallBody
  <2>4. PICK v : v = SubSeq(raw, 1, b)
    OBVIOUS
  <2>5. v \in Seq(TextTokens) /\ Len(v) = Len(w) /\ \A i \in 1..Len(v) : v[i] = w[i]
    BY <1>1, <2>1, <2>2, <2>3, <2>4
  <2>6. v = w
    BY <2>5, SeqEqual
  <2> QED BY <2>4, <2>6
<1> QED BY <1>10, <1>11 DEF IsLastValue

(* What a body is read as by the positions of its fields: the values its   *)
(* fields have, if none of them names a field.                             *)
LEMMA PositionReads ==
  ASSUME NEW body, NEW x \in FieldMarks, NEW y \in FieldMarks, x # y, NEW u \in Seq(TextTokens),
         NEW w \in Seq(TextTokens), IsCallBody(body, x, u, y, w),
         \A i \in 1..Len(u) : u[i] \notin FieldMarks, \A i \in 1..Len(w) : w[i] \notin FieldMarks
  PROVE  ByPosition(body) =
           Valid([path |-> IF x = "path:" THEN u ELSE w, content |-> IF x = "path:" THEN w ELSE u])
<1>1. PICK a, b \in Nat : a = Len(u) /\ b = Len(w)
  <2>1. Len(u) \in Nat /\ Len(w) \in Nat
    OBVIOUS
  <2> QED BY <2>1
<1>2. Len(body) = a + b + 7
  BY <1>1 DEF IsCallBody
<1> DEFINE marks == {m \in FieldMarks : Where(body, m) # {}}
           Behind(m) == {MarkOf(body, k) : k \in marks} \cap (MarkOf(body, m) + 1)..Len(body)
           Raw(m) == SubSeq(body, MarkOf(body, m) + 1,
                            IF Behind(m) = {} THEN Len(body) ELSE FirstOf(Behind(m)) - 1)
           Value(m) == IF Behind(m) # {} THEN WithoutComma(Raw(m))
                       ELSE SubSeq(Raw(m), 1, FirstOf(LastQuote(Raw(m))) - 1)
<1>3. ByPosition(body) =
        IF marks # FieldMarks \/ \E m \in marks : Behind(m) = {} /\ LastQuote(Raw(m)) = {}
        THEN NoCall
        ELSE Valid([path |-> Value("path:"), content |-> Value("content:")])
  BY DEF ByPosition
<1>4. Where(body, x) = {2} /\ Where(body, y) = {5 + a}
  BY <1>1, MarksOfBody
<1>5. FieldMarks = {x, y}
  BY DEF FieldMarks
<1>6. marks = FieldMarks
  BY <1>4, <1>5
<1>7. MarkOf(body, x) = 2 /\ MarkOf(body, y) = 5 + a
  <2>1. PICK k \in Nat : k = 5 + a
    BY <1>1
  <2>2. FirstOf({2}) = 2 /\ FirstOf({k}) = k
    BY FirstOfOne
  <2> QED BY <1>4, <2>1, <2>2 DEF MarkOf
<1> HIDE DEF marks
<1>8. \A m : Behind(m) = {2, 5 + a} \cap (MarkOf(body, m) + 1)..Len(body)
  <2>1. {MarkOf(body, k) : k \in marks} = {2, 5 + a}
    BY <1>5, <1>6, <1>7
  <2> QED BY <2>1
<1> HIDE DEF Behind
<1>9. Behind(x) = {5 + a}
  <2>1. Behind(x) = {2, 5 + a} \cap 3..(a + b + 7)
    BY <1>2, <1>7, <1>8
  <2> QED BY <1>1, <2>1
<1>10. Behind(y) = {}
  <2>1. Behind(y) = {2, 5 + a} \cap (5 + a + 1)..(a + b + 7)
    BY <1>2, <1>7, <1>8
  <2> QED BY <1>1, <2>1
<1>11. Raw(x) = SubSeq(body, 3, 4 + Len(u))
  <2>1. PICK k \in Nat : k = 5 + a
    BY <1>1
  <2>2. FirstOf({k}) = k /\ k - 1 = 4 + Len(u)
    BY <1>1, <2>1, FirstOfOne
  <2>3. Behind(x) # {} /\ FirstOf(Behind(x)) - 1 = 4 + Len(u)
    BY <1>9, <2>1, <2>2
  <2> QED BY <1>7, <2>3
<1>12. Raw(y) = SubSeq(body, 6 + Len(u), Len(body))
  <2>1. 5 + a + 1 = 6 + Len(u)
    BY <1>1
  <2> QED BY <1>7, <1>10, <2>1
<1> HIDE DEF Raw
<1>13. Value(x) = u
  <2>1. Behind(x) # {}
    BY <1>9
  <2>2. WithoutComma(Raw(x)) = u
    BY <1>11, FirstValue
  <2> QED BY <2>1, <2>2
<1>14. Value(y) = w /\ LastQuote(Raw(y)) # {}
  <2>1. PICK raw : raw = Raw(y)
    OBVIOUS
  <2>2. raw = SubSeq(body, 6 + Len(u), Len(body))
    BY <1>12, <2>1
  <2>3. IsLastValue(raw, w)
    BY <2>2, LastValue
  <2> QED BY <1>10, <2>1, <2>3 DEF IsLastValue
<1> HIDE DEF Value
<1>15. ByPosition(body) = Valid([path |-> Value("path:"), content |-> Value("content:")])
  <2>1. ~(\E m \in marks : Behind(m) = {} /\ LastQuote(Raw(m)) = {})
    BY <1>5, <1>6, <1>9, <1>14
  <2> QED BY <1>3, <1>6, <2>1
<1>16. CASE x = "path:"
  <2>1. y = "content:"
    BY <1>16 DEF FieldMarks
  <2> QED BY <1>13, <1>14, <1>15, <1>16, <2>1
<1>17. CASE x # "path:"
  <2>1. x = "content:" /\ y = "path:"
    BY <1>17 DEF FieldMarks
  <2>2. Value("path:") = w /\ Value("content:") = u
    BY <1>13, <1>14, <2>1
  <2> QED BY <1>15, <1>17, <2>2
<1> QED BY <1>16, <1>17

(* The arguments of two fields.                                            *)
LEMMA ArgsRead ==
  ASSUME NEW x \in FieldMarks, NEW y \in FieldMarks, x # y, NEW u, NEW w
  PROVE  SetField(SetField(NoArgs, x, u), y, w) =
           [path |-> IF x = "path:" THEN u ELSE w, content |-> IF x = "path:" THEN w ELSE u]
<1>1. PICK f, g : /\ f = (IF x = "path:" THEN "path" ELSE "content")
                  /\ g = (IF y = "path:" THEN "path" ELSE "content")
  OBVIOUS
<1>2. {f, g} = {"path", "content"} /\ f # g
  BY <1>1 DEF FieldMarks
<1>3. SetField(NoArgs, x, u) = [h \in {f} |-> u]
  <2>1. DOMAIN NoArgs = {}
    BY DEF NoArgs
  <2>2. SetField(NoArgs, x, u) = [h \in {} \cup {f} |-> IF h = f THEN u ELSE NoArgs[h]]
    BY <1>1, <2>1 DEF SetField
  <2> QED BY <2>2
<1>4. SetField(SetField(NoArgs, x, u), y, w) = [h \in {f, g} |-> IF h = g THEN w ELSE u]
  <2>1. PICK r : r = [h \in {f} |-> u]
    OBVIOUS
  <2>2. DOMAIN r = {f} /\ r[f] = u
    BY <2>1
  <2>3. SetField(r, y, w) = [h \in {f} \cup {g} |-> IF h = g THEN w ELSE r[h]]
    BY <1>1, <2>2 DEF SetField
  <2>4. \A h \in {f, g} : (IF h = g THEN w ELSE r[h]) = (IF h = g THEN w ELSE u)
    BY <2>2
  <2>5. {f} \cup {g} = {f, g}
    OBVIOUS
  <2> QED BY <1>3, <2>1, <2>3, <2>4, <2>5
<1>5. PICK r : r = [path |-> IF x = "path:" THEN u ELSE w, content |-> IF x = "path:" THEN w ELSE u]
  OBVIOUS
<1>6. r = [h \in {"path", "content"} |-> r[h]]
  BY <1>5
<1>7. r["path"] = (IF x = "path:" THEN u ELSE w) /\ r["content"] = (IF x = "path:" THEN w ELSE u)
  BY <1>5
<1>8. \A h \in {"path", "content"} : r[h] = IF h = g THEN w ELSE u
  <2>1. CASE x = "path:"
    BY <1>1, <1>2, <1>7, <2>1
  <2>2. CASE x # "path:"
    BY <1>1, <1>2, <1>7, <2>2
  <2> QED BY <2>1, <2>2
<1> QED BY <1>2, <1>4, <1>5, <1>6, <1>8

IsCallOf(body, call) ==
  IF call.pathFirst THEN IsCallBody(body, "path:", call.path, "content:", call.content)
  ELSE IsCallBody(body, "content:", call.content, "path:", call.path)

(* "Embedded quotes, newlines, and fences no longer break parsing": a tame *)
(* call with a path is read as it was meant, be it JSON or not.            *)
LEMMA CallIsRead ==
  ASSUME NEW call, call \in [path : Seq(TextTokens), content : Seq(TextTokens), pathFirst : BOOLEAN],
         Tame(call), call.path # <<>>, NEW body, IsCallOf(body, call)
  PROVE  CallOf(body) = Asked(call) /\ Asked(call) # NoCall
<1>1. PICK p, c \in Seq(TextTokens) : p = call.path /\ c = call.content
  OBVIOUS
<1>2. \A value \in {p, c} : \A i \in 1..Len(value) : value[i] \notin FieldMarks
  <2>1. ASSUME NEW value \in {p, c}, NEW i \in 1..Len(value)
        PROVE  value[i] \notin FieldMarks
    <3>1. value[i] \in ToSet(value)
      BY DEF ToSet
    <3>2. ToSet(value) \cap (FieldMarks \cup {"close"}) = {}
      BY <1>1 DEF Tame
    <3> QED BY <3>1, <3>2
  <2> QED BY <2>1
<1>3. PICK wanted : wanted = [path |-> p, content |-> c]
  OBVIOUS
<1>4. Asked(call) = wanted /\ wanted.path = p
  BY <1>1, <1>3 DEF Asked
<1>5. wanted # NoCall
  <2>1. NoCall.path = <<>>
    BY DEF NoCall
  <2> QED BY <1>1, <1>4, <2>1
<1>6. Valid(wanted) = wanted
  <2>1. DOMAIN wanted = {"path", "content"}
    BY <1>3
  <2> QED BY <1>1, <1>4, <2>1 DEF Valid
<1>7. ASSUME NEW x \in FieldMarks, NEW y \in FieldMarks, x # y,
             NEW u \in Seq(TextTokens), NEW w \in Seq(TextTokens), u \in {p, c}, w \in {p, c},
             IsCallBody(body, x, u, y, w),
             wanted = [path |-> IF x = "path:" THEN u ELSE w, content |-> IF x = "path:" THEN w ELSE u]
      PROVE  CallOf(body) = wanted
  <2>1. body \in Seq(TextTokens) /\ Len(body) = Len(u) + Len(w) + 7 /\ body[1] = "tool"
    BY <1>7 DEF IsCallBody
  <2>2. body # <<>> /\ Head(body) = "tool"
    <3>1. Len(body) # 0
      BY <1>7, <2>1
    <3> QED BY <2>1, <3>1
  <2>3. \/ Json(body) = JsonAt("end", y, <<>>, SetField(SetField(NoArgs, x, u), y, w))
        \/ Broken(Json(body))
    BY <1>2, <1>7, JsonReads
  <2>4. CASE Json(body) = JsonAt("end", y, <<>>, SetField(SetField(NoArgs, x, u), y, w))
    <3>1. SetField(SetField(NoArgs, x, u), y, w) = wanted
      BY <1>7, ArgsRead
    <3>2. Json(body).at = "end" /\ Json(body).args = wanted
      BY <2>4, <3>1 DEF JsonAt
    <3> QED BY <1>6, <2>2, <3>2 DEF CallOf
  <2>5. CASE Broken(Json(body))
    <3>1. Json(body).at # "end"
      BY <2>5 DEF Broken, JsonAt
    <3>2. ByPosition(body) = Valid(wanted)
      BY <1>2, <1>7, PositionReads
    <3> QED BY <1>6, <2>2, <3>1, <3>2 DEF CallOf
  <2> QED BY <2>3, <2>4, <2>5
<1>8. "path:" \in FieldMarks /\ "content:" \in FieldMarks /\ "path:" # "content:"
  BY DEF FieldMarks
<1>9. CASE call.pathFirst
  <2>1. IsCallBody(body, "path:", p, "content:", c)
    BY <1>1, <1>9 DEF IsCallOf
  <2> QED BY <1>3, <1>4, <1>5, <1>7, <1>8, <2>1
<1>10. CASE ~call.pathFirst
  <2>1. IsCallBody(body, "content:", c, "path:", p)
    BY <1>1, <1>10 DEF IsCallOf
  <2> QED BY <1>3, <1>4, <1>5, <1>7, <1>8, <2>1
<1> QED BY <1>9, <1>10

(* The first of some places.                                               *)
LEMMA FirstOfPlaces ==
  ASSUME NEW S \in SUBSET Nat, S # {}
  PROVE  FirstOf(S) \in S /\ \A j \in S : FirstOf(S) <= j
<1>1. \E i \in S : \A j \in S : i <= j
  BY LeastNumber
<1>2. PICK k : k = FirstOf(S)
  OBVIOUS
<1>3. k \in S /\ \A j \in S : k <= j
  BY <1>1, <1>2 DEF FirstOf
<1> QED BY <1>2, <1>3

IsBlockOf(s, call) ==
  IF call.pathFirst THEN IsBlock(s, "path:", call.path, "content:", call.content)
  ELSE IsBlock(s, "content:", call.content, "path:", call.path)

CallTypes == [path : Seq(TextTokens), content : Seq(TextTokens), pathFirst : BOOLEAN]

(* The block of a call.                                                    *)
LEMMA BlockOfCall ==
  ASSUME NEW call \in CallTypes
  PROVE  IsBlockOf(Block(call), call)
<1>1. PICK p, c \in Seq(TextTokens) : p = call.path /\ c = call.content
  BY DEF CallTypes
<1>2. "path:" \in TextTokens /\ "content:" \in TextTokens
  BY DEF TextTokens, FieldMarks
<1>3. CASE call.pathFirst
  <2>1. PICK s : s = <<"open", "tool">>
               \o ((<<"path:">> \o p \o <<"q">>) \o <<"comma">> \o (<<"content:">> \o c \o <<"q">>))
               \o <<"brace", "close">>
    OBVIOUS
  <2>2. Block(call) = s
    BY <1>1, <1>3, <2>1 DEF Block
  <2>3. IsBlock(s, "path:", p, "content:", c)
    BY <1>2, <2>1, BlockIs
  <2> QED BY <1>1, <1>3, <2>2, <2>3 DEF IsBlockOf
<1>4. CASE ~call.pathFirst
  <2>1. PICK s : s = <<"open", "tool">>
               \o ((<<"content:">> \o c \o <<"q">>) \o <<"comma">> \o (<<"path:">> \o p \o <<"q">>))
               \o <<"brace", "close">>
    OBVIOUS
  <2>2. Block(call) = s
    BY <1>1, <1>4, <2>1 DEF Block
  <2>3. IsBlock(s, "content:", c, "path:", p)
    BY <1>2, <2>1, BlockIs
  <2> QED BY <1>1, <1>4, <2>2, <2>3 DEF IsBlockOf
<1> QED BY <1>3, <1>4

(* A block begins and ends with its marks; of a tame call only the last    *)
(* token is the mark that closes.                                          *)
LEMMA MarksOfBlock ==
  ASSUME NEW call \in CallTypes, NEW s, IsBlockOf(s, call)
  PROVE  /\ s \in Seq(TextTokens) /\ Len(s) \in Nat /\ 9 <= Len(s)
         /\ s[1] = "open" /\ s[Len(s)] = "close"
         /\ Tame(call) => \A i \in 1..Len(s) : s[i] = "close" => i = Len(s)
<1>1. PICK p, c \in Seq(TextTokens) : p = call.path /\ c = call.content
  BY DEF CallTypes
<1>2. ASSUME Tame(call)
      PROVE  \A value \in {p, c} : \A i \in 1..Len(value) : value[i] # "close"
  <2>1. ASSUME NEW value \in {p, c}, NEW i \in 1..Len(value)
        PROVE  value[i] # "close"
    <3>1. value[i] \in ToSet(value)
      BY DEF ToSet
    <3>2. ToSet(value) \cap (FieldMarks \cup {"close"}) = {}
      BY <1>1, <1>2 DEF Tame
    <3> QED BY <3>1, <3>2
  <2> QED BY <2>1
<1>3. ASSUME NEW x \in FieldMarks, NEW y \in FieldMarks, NEW u \in {p, c}, NEW w \in {p, c},
             IsBlock(s, x, u, y, w)
      PROVE  /\ s \in Seq(TextTokens) /\ Len(s) \in Nat /\ 9 <= Len(s)
             /\ s[1] = "open" /\ s[Len(s)] = "close"
             /\ Tame(call) => \A i \in 1..Len(s) : s[i] = "close" => i = Len(s)
  <2>1. PICK a, b \in Nat : a = Len(u) /\ b = Len(w)
    <3>1. Len(u) \in Nat /\ Len(w) \in Nat
      BY <1>3
    <3> QED BY <3>1
  <2>2. s \in Seq(TextTokens) /\ Len(s) = 9 + a + b
    BY <1>3, <2>1 DEF IsBlock
  <2>3. s[1] = "open" /\ s[9 + a + b] = "close"
    BY <1>3, <2>1 DEF IsBlock
  <2>4. ASSUME Tame(call), NEW i \in 1..Len(s), i # Len(s)
        PROVE  s[i] # "close"
    <3>1. \A t \in FieldMarks : t # "close"
      BY DEF FieldMarks
    <3>2. CASE 4 <= i /\ i <= 3 + a
      <4>1. PICK j \in 1..a : 3 + j = i
        <5>1. i - 3 \in 1..a /\ 3 + (i - 3) = i
          BY <2>1, <2>2, <3>2
        <5> QED BY <5>1
      <4>2. s[3 + j] = u[j]
        BY <1>3, <2>1, <4>1 DEF IsBlock
      <4>3. u[j] # "close"
        BY <1>2, <2>1, <2>4, <4>1
      <4> QED BY <4>1, <4>2, <4>3
    <3>3. CASE 7 + a <= i /\ i <= 6 + a + b
      <4>1. PICK j \in 1..b : 6 + a + j = i
        <5>1. i - (6 + a) \in 1..b /\ 6 + a + (i - (6 + a)) = i
          BY <2>1, <2>2, <3>3
        <5> QED BY <5>1
      <4>2. s[6 + a + j] = w[j]
        BY <1>3, <2>1, <4>1 DEF IsBlock
      <4>3. w[j] # "close"
        BY <1>2, <2>1, <2>4, <4>1
      <4> QED BY <4>1, <4>2, <4>3
    <3>4. CASE i = 1
      BY <1>3, <3>4 DEF IsBlock
    <3>5. CASE i = 2
      BY <1>3, <3>5 DEF IsBlock
    <3>6. CASE i = 3
      BY <1>3, <3>1, <3>6 DEF IsBlock
    <3>7. CASE i = 4 + a
      BY <1>3, <2>1, <3>7 DEF IsBlock
    <3>8. CASE i = 5 + a
      BY <1>3, <2>1, <3>8 DEF IsBlock
    <3>9. CASE i = 6 + a
      BY <1>3, <2>1, <3>1, <3>9 DEF IsBlock
    <3>10. CASE i = 7 + a + b
      BY <1>3, <2>1, <3>10 DEF IsBlock
    <3>11. CASE i = 8 + a + b
      BY <1>3, <2>1, <3>11 DEF IsBlock
    <3>12. i \in Nat /\ 1 <= i /\ i <= 8 + a + b
      BY <2>1, <2>2, <2>4
    <3>13. \/ i = 1
           \/ i = 2
           \/ i = 3
           \/ 4 <= i /\ i <= 3 + a
           \/ i = 4 + a
           \/ i = 5 + a
           \/ i = 6 + a
           \/ 7 + a <= i /\ i <= 6 + a + b
           \/ i = 7 + a + b
           \/ i = 8 + a + b
      <4>1. i = 1 \/ i = 2 \/ i = 3 \/ 4 <= i
        BY <3>12
      <4>2. 4 <= i => i <= 3 + a \/ i = 4 + a \/ i = 5 + a \/ i = 6 + a \/ 7 + a <= i
        BY <2>1, <3>12
      <4>3. 7 + a <= i => i <= 6 + a + b \/ i = 7 + a + b \/ i = 8 + a + b
        <5>1. PICK k \in Nat : k = a + b
          BY <2>1
        <5>2. i <= 6 + k \/ i = 7 + k \/ i = 8 + k
          BY <3>12, <5>1
        <5> QED BY <2>1, <5>1, <5>2
      <4> QED BY <4>1, <4>2, <4>3
    <3> QED BY <3>2, <3>3, <3>4, <3>5, <3>6, <3>7, <3>8, <3>9, <3>10, <3>11, <3>13
  <2> QED BY <2>1, <2>2, <2>3, <2>4
<1>4. "path:" \in FieldMarks /\ "content:" \in FieldMarks
  BY DEF FieldMarks
<1>5. CASE call.pathFirst
  <2>1. IsBlock(s, "path:", p, "content:", c)
    BY <1>1, <1>5 DEF IsBlockOf
  <2> QED BY <1>3, <1>4, <2>1
<1>6. CASE ~call.pathFirst
  <2>1. IsBlock(s, "content:", c, "path:", p)
    BY <1>1, <1>6 DEF IsBlockOf
  <2> QED BY <1>3, <1>4, <2>1
<1> QED BY <1>5, <1>6

IsAt(s, t, o) == \A i \in 1..Len(s) : t[o - 1 + i] = s[i]

(* A tame call's block is read as it was meant, wherever it is in a text.  *)
LEMMA BlockIsRead ==
  ASSUME NEW call \in CallTypes, Tame(call), call.path # <<>>, NEW s, IsBlockOf(s, call),
         NEW t \in Seq(TextTokens), NEW o \in Nat, NEW e \in Nat, e = o + Len(s) - 1, 1 <= o, e <= Len(t),
         IsAt(s, t, o)
  PROVE  CallOf(SubSeq(t, o + 1, e - 1)) = Asked(call) /\ Asked(call) # NoCall
<1>1. PICK p, c \in Seq(TextTokens) : p = call.path /\ c = call.content
  BY DEF CallTypes
<1>2. PICK body : body = SubSeq(t, o + 1, e - 1)
  OBVIOUS
<1>5. \A i \in 1..Len(s) : t[o - 1 + i] = s[i]
  BY DEF IsAt
<1>3. CASE call.pathFirst
  <2>1. IsBlock(s, "path:", p, "content:", c)
    BY <1>1, <1>3 DEF IsBlockOf
  <2>2. IsCallBody(body, "path:", p, "content:", c)
    BY <1>2, <1>5, <2>1, BodyOf
  <2>3. IsCallOf(body, call)
    BY <1>1, <1>3, <2>2 DEF IsCallOf
  <2> QED BY <1>2, <2>3, CallIsRead DEF CallTypes
<1>4. CASE ~call.pathFirst
  <2>1. IsBlock(s, "content:", c, "path:", p)
    BY <1>1, <1>4 DEF IsBlockOf
  <2>2. IsCallBody(body, "content:", c, "path:", p)
    BY <1>2, <1>5, <2>1, BodyOf
  <2>3. IsCallOf(body, call)
    BY <1>1, <1>4, <2>2 DEF IsCallOf
  <2> QED BY <1>2, <2>3, CallIsRead DEF CallTypes
<1> QED BY <1>3, <1>4

IsText(t, b, l) ==
  /\ t \in Seq(TextTokens) /\ Len(t) = Len(b) + 1 + Len(l)
  /\ \A i \in 1..Len(b) : t[i] = b[i]
  /\ t[Len(b) + 1] = "c"
  /\ \A i \in 1..Len(l) : t[Len(b) + 1 + i] = l[i]

(* A text of two blocks and what is between them.                          *)
LEMMA TextIs ==
  ASSUME NEW b \in Seq(TextTokens), NEW l \in Seq(TextTokens), NEW t, t = b \o <<"c">> \o l
  PROVE  IsText(t, b, l)
<1>1. PICK m, n \in Nat : m = Len(b) /\ n = Len(l)
  <2>1. Len(b) \in Nat /\ Len(l) \in Nat
    OBVIOUS
  <2> QED BY <2>1
<1>2. PICK k : k = <<"c">>
  OBVIOUS
<1>3. k \in Seq(TextTokens) /\ Len(k) = 1 /\ k[1] = "c"
  <2>1. <<"c">> \in Seq(TextTokens)
    BY DEF TextTokens
  <2> QED BY <1>2, <2>1
<1>4. PICK h : h = b \o k
  OBVIOUS
<1>5. h \in Seq(TextTokens) /\ IsJoin(h, b, k)
  BY <1>3, <1>4, JoinIs
<1>6. Len(h) = m + 1 /\ (\A i \in 1..m : h[i] = b[i]) /\ h[m + 1] = "c"
  <2>1. 1 \in 1..Len(k)
    BY <1>3
  <2> QED BY <1>1, <1>3, <1>5, <2>1 DEF IsJoin
<1>7. t = h \o l
  BY <1>2, <1>4
<1>8. t \in Seq(TextTokens) /\ IsJoin(t, h, l)
  BY <1>5, <1>7, JoinIs
<1>9. /\ Len(t) = m + 1 + n
      /\ \A i \in 1..(m + 1) : t[i] = h[i]
      /\ \A i \in 1..n : t[m + 1 + i] = l[i]
  BY <1>1, <1>6, <1>8 DEF IsJoin
<1>10. t[m + 1] = "c" /\ \A i \in 1..m : t[i] = b[i]
  <2>1. m + 1 \in 1..(m + 1) /\ \A i \in 1..m : i \in 1..(m + 1)
    OBVIOUS
  <2> QED BY <1>6, <1>9, <2>1
<1> QED BY <1>1, <1>8, <1>9, <1>10 DEF IsText

BlockAt(t, b, l, call, cur, o, c) ==
  /\ o \in Nat /\ c \in Nat /\ cur <= o /\ o < c
  /\ \/ c <= Len(b)
     \/ o = Len(b) + 2 /\ c = Len(t)
  /\ cur = 1 /\ Tame(call) => o = 1 /\ c = Len(b)

NextIs(O, C, t, b, l, call, cur) ==
  O # {} /\ C # {} /\ BlockAt(t, b, l, call, cur, FirstOf(O), FirstOf(C))

(* Behind the first block or in it, the next block that is read ends       *)
(* within the first one or is the second.                                  *)
LEMMA NextBlock ==
  ASSUME NEW call \in CallTypes, NEW b, NEW l, NEW t, IsText(t, b, l),
         IsBlockOf(b, call), LastCall \in CallTypes, Tame(LastCall), IsBlockOf(l, LastCall),
         NEW cur \in 1..(Len(b) + 1), NEW O, O = {i \in Where(t, "open") : i >= cur},
         NEW C, C = {i \in Where(t, "close") : O # {} /\ i > FirstOf(O)}
  PROVE  NextIs(O, C, t, b, l, call, cur)
<1>1. PICK m, n \in Nat : m = Len(b) /\ n = Len(l) /\ 9 <= m /\ 9 <= n
  BY MarksOfBlock
<1>2. /\ t \in Seq(TextTokens) /\ Len(t) = m + 1 + n
      /\ \A i \in 1..m : t[i] = b[i]
      /\ t[m + 1] = "c"
      /\ \A i \in 1..n : t[m + 1 + i] = l[i]
  BY <1>1 DEF IsText
<1>3. DOMAIN t = 1..(m + 1 + n)
  BY <1>2
<1>4. b[1] = "open" /\ b[m] = "close" /\ l[1] = "open" /\ l[n] = "close"
  BY <1>1, MarksOfBlock
<1>5. t[1] = "open" /\ t[m] = "close" /\ t[m + 2] = "open" /\ t[m + 1 + n] = "close"
  <2>1. 1 \in 1..m /\ m \in 1..m /\ 1 \in 1..n /\ n \in 1..n /\ m + 1 + 1 = m + 2
    BY <1>1
  <2>2. t[1] = b[1] /\ t[m] = b[m] /\ t[m + 1 + 1] = l[1] /\ t[m + 1 + n] = l[n]
    BY <1>2, <2>1
  <2> QED BY <1>4, <2>1, <2>2
<1>6. ASSUME NEW i \in (m + 1)..(m + 1 + n), t[i] = "close"
      PROVE  i = m + 1 + n
  <2>1. i # m + 1
    BY <1>2, <1>6
  <2>2. PICK j \in 1..n : m + 1 + j = i
    <3>1. i - (m + 1) \in 1..n /\ m + 1 + (i - (m + 1)) = i
      BY <1>1, <2>1
    <3> QED BY <3>1
  <2>3. l[j] = "close"
    BY <1>2, <1>6, <2>2
  <2>4. j = n
    BY <1>1, <2>3, MarksOfBlock
  <2> QED BY <2>2, <2>4
<1>7. /\ O \subseteq Nat
      /\ \A i \in O : i \in 1..(m + 1 + n) /\ cur <= i /\ t[i] = "open"
      /\ \A i \in 1..(m + 1 + n) : t[i] = "open" /\ cur <= i => i \in O
  BY <1>1, <1>3 DEF Where
<1>8. m + 2 \in O
  <2>1. m + 2 \in 1..(m + 1 + n) /\ cur <= m + 2
    BY <1>1
  <2> QED BY <1>5, <1>7, <2>1
<1>9. PICK o : o = FirstOf(O)
  OBVIOUS
<1>10. o \in O /\ \A j \in O : o <= j
  BY <1>7, <1>8, <1>9, FirstOfPlaces
<1>11. o \in 1..(m + 2) /\ cur <= o /\ t[o] = "open"
  BY <1>1, <1>7, <1>8, <1>10
<1>12. /\ C \subseteq Nat
       /\ \A i \in C : i \in 1..(m + 1 + n) /\ o < i /\ t[i] = "close"
       /\ \A i \in 1..(m + 1 + n) : t[i] = "close" /\ o < i => i \in C
  BY <1>1, <1>3, <1>8, <1>9 DEF Where
<1>13. m + 1 + n \in C
  <2>1. m + 1 + n \in 1..(m + 1 + n) /\ o < m + 1 + n
    BY <1>1, <1>11
  <2> QED BY <1>5, <1>12, <2>1
<1>14. PICK c : c = FirstOf(C)
  OBVIOUS
<1>15. c \in C /\ \A j \in C : c <= j
  BY <1>12, <1>13, <1>14, FirstOfPlaces
<1>16. c \in 1..(m + 1 + n) /\ o < c /\ t[c] = "close"
  BY <1>12, <1>15
<1>17. c <= m \/ (o = m + 2 /\ c = m + 1 + n)
  <2>1. CASE c <= m
    BY <2>1
  <2>2. CASE ~(c <= m)
    <3>1. c = m + 1 + n
      <4>1. c \in (m + 1)..(m + 1 + n)
        BY <1>1, <1>16, <2>2
      <4> QED BY <1>6, <1>16, <4>1
    <3>2. ~(o < m)
      <4>1. SUFFICES ASSUME o < m PROVE FALSE
        OBVIOUS
      <4>2. m \in 1..(m + 1 + n)
        BY <1>1
      <4>3. m \in C
        BY <1>5, <1>12, <4>1, <4>2
      <4>4. c <= m
        BY <1>15, <4>3
      <4> QED BY <2>2, <4>4
    <3>3. o # m /\ o # m + 1
      BY <1>2, <1>5, <1>11
    <3> QED BY <1>1, <1>11, <3>1, <3>2, <3>3
  <2> QED BY <2>1, <2>2
<1>18. ASSUME cur = 1, Tame(call) PROVE o = 1 /\ c = m
  <2>1. 1 \in O
    <3>1. 1 \in 1..(m + 1 + n)
      BY <1>1
    <3> QED BY <1>5, <1>7, <1>18, <3>1
  <2>2. o = 1
    BY <1>10, <1>11, <2>1
  <2>3. c <= m
    BY <1>1, <1>17, <2>2
  <2>4. c \in 1..m
    BY <1>1, <1>16, <2>3
  <2>8. b[c] = "close"
    BY <1>2, <1>16, <2>4
  <2>6. \A i \in 1..Len(b) : b[i] = "close" => i = Len(b)
    BY <1>18, MarksOfBlock
  <2>7. \A i \in 1..m : b[i] = "close" => i = m
    BY <1>1, <2>6
  <2>5. c = m
    BY <2>4, <2>7, <2>8
  <2> QED BY <2>2, <2>5
<1>19. o \in Nat /\ c \in Nat /\ cur <= o /\ o < c
  BY <1>1, <1>11, <1>16
<1>20. c <= Len(b) \/ (o = Len(b) + 2 /\ c = Len(t))
  BY <1>1, <1>2, <1>17
<1>21. BlockAt(t, b, l, call, cur, o, c)
  BY <1>1, <1>18, <1>19, <1>20 DEF BlockAt
<1> QED BY <1>8, <1>9, <1>13, <1>14, <1>21 DEF NextIs

(* Two sets of one element, one within the other, are the same.            *)
LEMMA GuessStays ==
  ASSUME NEW line, NEW words, IsFiniteSet(words), NEW w, Target(line, words) # NoTarget
  PROVE  Target(line, words \cup {w}) \in {Target(line, words), NoTarget}
<1>1. PICK seen : seen = SelectSeq(line, PlausibleOnLine)
  OBVIOUS
<1>2. CASE seen # <<>>
  BY <1>1, <1>2 DEF Target
<1>3. CASE seen = <<>>
  <2>1. Target(line, words) = OnlyNamed(words)
        /\ Target(line, words \cup {w}) = OnlyNamed(words \cup {w})
    BY <1>1, <1>3 DEF Target
  <2>2. PICK S, T : /\ S = {v \in words : PlausibleInBlock(v)}
                    /\ T = {v \in words \cup {w} : PlausibleInBlock(v)}
    OBVIOUS
  <2>3. IsFiniteSet(S) /\ S \subseteq T
    <3>1. S \subseteq words /\ S \subseteq T
      BY <2>2
    <3> QED BY <3>1, FS_Subset
  <2>4. OnlyNamed(words) = IF Cardinality(S) = 1 THEN CHOOSE v \in S : TRUE ELSE NoTarget
    BY <2>2 DEF OnlyNamed
  <2>5. OnlyNamed(words \cup {w}) = IF Cardinality(T) = 1 THEN CHOOSE v \in T : TRUE ELSE NoTarget
    BY <2>2 DEF OnlyNamed
  <2>6. Cardinality(S) = 1
    BY <2>1, <2>4
  <2>7. CASE Cardinality(T) = 1
    <3>1. IsFiniteSet(T)
      <4>1. IsFiniteSet(words \cup {w})
        BY FS_AddElement
      <4>2. T \subseteq words \cup {w}
        BY <2>2
      <4> QED BY <4>1, <4>2, FS_Subset
    <3>2. PICK x : S = {x}
      BY <2>3, <2>6, FS_Singleton
    <3>3. PICK y : T = {y}
      BY <2>7, <3>1, FS_Singleton
    <3>4. S = T
      BY <2>3, <3>2, <3>3
    <3> QED BY <2>1, <2>4, <2>5, <3>4
  <2>8. CASE Cardinality(T) # 1
    BY <2>1, <2>5, <2>8
  <2> QED BY <2>7, <2>8
<1> QED BY <1>2, <1>3

-----------------------------------------------------------------------------
(* Both calls the model means, found as they were meant.                   *)
BothFound == found = <<Asked(meant[1]), Asked(meant[2])>> /\ ~malformed

(* The first block is read, in part or not at all.                         *)
AtFirst(b) ==
  /\ heard = "nothing" /\ cursor \in 1..(Len(b) + 1)
  /\ Tame(meant[1]) /\ meant[1].path # <<>> =>
       /\ ~malformed
       /\ \/ cursor = 1 /\ found = <<>>
          \/ cursor = Len(b) + 1 /\ found = <<Asked(meant[1])>>

(* Both blocks are behind the cursor.                                      *)
AtEnd ==
  /\ cursor = Len(text) + 1
  /\ found # <<>> /\ found[Len(found)] = Asked(LastCall)
  /\ Tame(meant[1]) /\ meant[1].path # <<>> => BothFound

(* Inductive: a block that is still to be read begins behind the first     *)
(* one or in it, and from there the second one is always found.            *)
TextIInv ==
  /\ \E call \in TextCalls : meant = <<call, LastCall>>
  /\ text = Block(meant[1]) \o <<"c">> \o Block(meant[2])
  /\ \E S : found \in Seq(S)
  /\ AtFirst(Block(meant[1])) \/ AtEnd
  /\ onLine \in Seq(Words) /\ IsFiniteSet(inBlock)

(* What TextIInv says of the text and its two calls.                       *)
LEMMA TextOfTwo ==
  ASSUME TextIInv
  PROVE  /\ meant[1] \in TextCalls /\ meant[1] \in CallTypes /\ meant[2] = LastCall
         /\ LastCall \in CallTypes /\ Tame(LastCall) /\ LastCall.path # <<>>
         /\ IsBlockOf(Block(meant[1]), meant[1]) /\ IsBlockOf(Block(LastCall), LastCall)
         /\ IsText(text, Block(meant[1]), Block(LastCall))
<1>1. meant[1] \in TextCalls /\ meant[2] = LastCall
  <2>1. PICK call \in TextCalls : meant = <<call, LastCall>>
    BY DEF TextIInv
  <2> QED BY <2>1
<1>2. meant[1] \in CallTypes /\ LastCall \in CallTypes /\ Tame(LastCall) /\ LastCall.path # <<>>
  BY <1>1, TextAssumption DEF CallTypes
<1>3. IsBlockOf(Block(meant[1]), meant[1]) /\ IsBlockOf(Block(LastCall), LastCall)
  BY <1>2, BlockOfCall
<1>4. Block(meant[1]) \in Seq(TextTokens) /\ Block(LastCall) \in Seq(TextTokens)
  BY <1>2, <1>3, MarksOfBlock
<1>5. PICK b, l : b = Block(meant[1]) /\ l = Block(LastCall)
  OBVIOUS
<1>6. text = b \o <<"c">> \o l
  BY <1>1, <1>5 DEF TextIInv
<1>7. IsText(text, b, l)
  BY <1>4, <1>5, <1>6, TextIs
<1> QED BY <1>1, <1>2, <1>3, <1>5, <1>7

(* Both blocks are still to be read at the start.                          *)
LEMMA TextStarts ==
  ASSUME TextInit
  PROVE  TextIInv
<1>1. PICK call \in TextCalls : meant = <<call, LastCall>>
  BY DEF TextInit
<1>2. call \in CallTypes
  BY TextAssumption DEF CallTypes
<1>3. Len(Block(call)) \in Nat
  BY <1>2, BlockOfCall, MarksOfBlock
<1>4. meant[1] = call
  BY <1>1
<1>5. 1 \in 1..(Len(Block(meant[1])) + 1)
  BY <1>3, <1>4
<1>6. AtFirst(Block(meant[1]))
  BY <1>5 DEF TextInit, AtFirst
<1>7. IsFiniteSet(inBlock)
  BY FS_EmptySet DEF TextInit
<1>8. onLine \in Seq(Words)
  <2>1. <<>> \in Seq(Words)
    OBVIOUS
  <2> QED BY <2>1 DEF TextInit
<1>9. \E S : found \in Seq(S)
  <2>1. <<>> \in Seq({})
    OBVIOUS
  <2> QED BY <2>1 DEF TextInit
<1> QED BY <1>1, <1>6, <1>7, <1>8, <1>9 DEF TextInit, TextIInv

(* Where both blocks have been read there is nothing left to read.         *)
LEMMA NothingLeft ==
  ASSUME TextIInv, AtEnd
  PROVE  CloseMarks = {}
<1>1. text \in Seq(TextTokens)
  BY TextOfTwo DEF IsText
<1>2. \A i \in DOMAIN text : ~(i >= Len(text) + 1)
  BY <1>1
<1>3. OpenMarks = {}
  BY <1>2 DEF OpenMarks, Where, AtEnd
<1> QED BY <1>3 DEF CloseMarks

(* One behind the other.                                                   *)
LEMMA LongerBy ==
  ASSUME NEW s, NEW S, s \in Seq(S), NEW x
  PROVE  /\ \E T : Append(s, x) \in Seq(T)
         /\ Append(s, x) # <<>> /\ Append(s, x)[Len(Append(s, x))] = x
<1>1. PICK T : T = S \cup {x}
  OBVIOUS
<1>2. s \in Seq(T) /\ x \in T
  <2>1. \A i \in 1..Len(s) : s[i] \in T
    <3>1. \A i \in 1..Len(s) : s[i] \in S
      OBVIOUS
    <3> QED BY <1>1, <3>1
  <2>2. Len(s) \in Nat /\ s = [i \in 1..Len(s) |-> s[i]]
    OBVIOUS
  <2> QED BY <1>1, <2>1, <2>2
<1>3. Append(s, x) \in Seq(T) /\ Len(Append(s, x)) = Len(s) + 1 /\ Append(s, x)[Len(s) + 1] = x
  BY <1>2
<1>4. Append(s, x) # <<>>
  <2>1. Len(s) \in Nat
    OBVIOUS
  <2>2. Len(Append(s, x)) # 0
    BY <1>3, <2>1
  <2> QED BY <2>2
<1> QED BY <1>3, <1>4

(* While the first block is read there is one more to read.                *)
LEMMA NextRead ==
  ASSUME TextIInv, AtFirst(Block(meant[1]))
  PROVE  CloseMarks # {}
<1>1. PICK O, C, o, c : O = OpenMarks /\ C = CloseMarks /\ o = FirstOf(O) /\ c = FirstOf(C)
  OBVIOUS
<1>4. PICK b, l : b = Block(meant[1]) /\ l = Block(LastCall)
  OBVIOUS
<1>5. /\ meant[1] \in CallTypes /\ LastCall \in CallTypes /\ Tame(LastCall)
      /\ IsBlockOf(b, meant[1]) /\ IsBlockOf(l, LastCall) /\ IsText(text, b, l)
  BY <1>4, TextOfTwo
<1>8. cursor \in 1..(Len(b) + 1)
  BY <1>4 DEF AtFirst
<1>9. NextIs(O, C, text, b, l, meant[1], cursor)
  <2>1. O = {i \in Where(text, "open") : i >= cursor}
    BY <1>1 DEF OpenMarks
  <2>2. C = {i \in Where(text, "close") : O # {} /\ i > FirstOf(O)}
    BY <1>1 DEF CloseMarks
  <2> QED BY <1>5, <1>8, <2>1, <2>2, NextBlock
<1> QED BY <1>1, <1>9 DEF NextIs

(* A sequence of one, and one more.                                        *)
LEMMA PairOf ==
  ASSUME NEW x, NEW y
  PROVE  Append(<<x>>, y) = <<x, y>>
<1>12. PICK q : q = <<x>>
  OBVIOUS
<1>13. PICK p : p = <<x, y>>
  OBVIOUS
<1>1. PICK S : S = {x, y}
  OBVIOUS
<1>2. q \in Seq(S) /\ y \in S
  BY <1>1, <1>12
<1>3. Len(q) = 1 /\ q[1] = x
  BY <1>12
<1>4. PICK z : z = Append(q, y)
  OBVIOUS
<1>5. z \in Seq(S) /\ Len(z) = Len(q) + 1
  BY <1>2, <1>4
<1>6. z[Len(q) + 1] = y
  BY <1>2, <1>4
<1>7. \A i \in 1..Len(q) : z[i] = q[i]
  BY <1>2, <1>4
<1>8. Len(z) = 2 /\ z[1] = x /\ z[2] = y
  BY <1>3, <1>5, <1>6, <1>7
<1>9. p \in Seq(S)
  BY <1>1, <1>13
<1>10. Len(p) = 2 /\ p[1] = x /\ p[2] = y
  BY <1>13
<1>11. \A i \in 1..Len(p) : p[i] = z[i]
  <2>1. \A i \in 1..2 : i = 1 \/ i = 2
    OBVIOUS
  <2> QED BY <1>8, <1>10, <2>1
<1>14. p = z
  BY <1>5, <1>8, <1>9, <1>10, <1>11, SeqEqual
<1> QED BY <1>4, <1>12, <1>13, <1>14

(* A block that is read.                                                   *)
LEMMA BlockStep ==
  ASSUME TextIInv, ReadBlock
  PROVE  TextIInv'
<1>1. PICK O, C, o, c : O = OpenMarks /\ C = CloseMarks /\ o = FirstOf(O) /\ c = FirstOf(C)
  OBVIOUS
<1>2. PICK read : read = CallOf(SubSeq(text, o + 1, c - 1))
  OBVIOUS
<1>3. /\ heard = "nothing" /\ C # {} /\ cursor' = c + 1 /\ heard' = heard
      /\ meant' = meant /\ text' = text /\ onLine' = onLine /\ inBlock' = inBlock
      /\ IF read = NoCall THEN malformed' = TRUE /\ found' = found
         ELSE found' = Append(found, read) /\ malformed' = malformed
  BY <1>1, <1>2 DEF ReadBlock
<1>4. PICK b, l : b = Block(meant[1]) /\ l = Block(LastCall)
  OBVIOUS
<1>5. /\ meant[1] \in CallTypes /\ LastCall \in CallTypes /\ Tame(LastCall) /\ LastCall.path # <<>>
      /\ meant[2] = LastCall
      /\ IsBlockOf(b, meant[1]) /\ IsBlockOf(l, LastCall) /\ IsText(text, b, l)
  BY <1>4, TextOfTwo
<1>6. ~AtEnd
  BY <1>1, <1>3, NothingLeft
<1>7. AtFirst(b)
  BY <1>4, <1>6 DEF TextIInv
<1>8. cursor \in 1..(Len(b) + 1)
  BY <1>7 DEF AtFirst
<1>17. NextIs(O, C, text, b, l, meant[1], cursor)
  <2>1. O = {i \in Where(text, "open") : i >= cursor}
    BY <1>1 DEF OpenMarks
  <2>2. C = {i \in Where(text, "close") : O # {} /\ i > FirstOf(O)}
    BY <1>1 DEF CloseMarks
  <2> QED BY <1>5, <1>8, <2>1, <2>2, NextBlock
<1>9. BlockAt(text, b, l, meant[1], cursor, o, c)
  BY <1>1, <1>17 DEF NextIs
<1>10. o \in Nat /\ c \in Nat /\ cursor <= o /\ o < c
       /\ (cursor = 1 /\ Tame(meant[1]) => o = 1 /\ c = Len(b))
       /\ (c <= Len(b) \/ (o = Len(b) + 2 /\ c = Len(text)))
  BY <1>9 DEF BlockAt
<1>11. PICK m, n \in Nat : m = Len(b) /\ n = Len(l) /\ 9 <= m /\ 9 <= n
  BY <1>5, MarksOfBlock
<1>12. /\ text \in Seq(TextTokens) /\ Len(text) = m + 1 + n
       /\ \A i \in 1..Len(b) : text[i] = b[i]
       /\ \A i \in 1..Len(l) : text[m + 1 + i] = l[i]
  BY <1>5, <1>11 DEF IsText
<1>13. PICK S : found \in Seq(S)
  BY DEF TextIInv
<1>14. \E T : found' \in Seq(T)
  BY <1>3, <1>13, LongerBy
<1>15. CASE o = m + 2 /\ c = m + 1 + n
  <2>1. read = Asked(LastCall) /\ Asked(LastCall) # NoCall
    <3>1. c = o + Len(l) - 1 /\ 1 <= o /\ c <= Len(text)
      BY <1>11, <1>12, <1>15
    <3>2. IsAt(l, text, o)
      <4>1. o - 1 = m + 1
        BY <1>11, <1>15
      <4> QED BY <1>12, <4>1 DEF IsAt
    <3> QED BY <1>2, <1>5, <1>10, <1>12, <3>1, <3>2, BlockIsRead
  <2>2. found' = Append(found, read) /\ malformed' = malformed
    BY <1>3, <2>1
  <2>3. found' # <<>> /\ found'[Len(found')] = Asked(LastCall)
    BY <1>13, <2>1, <2>2, LongerBy
  <2>4. ASSUME Tame(meant[1]), meant[1].path # <<>>
        PROVE  BothFound'
    <3>1. cursor # 1
      BY <1>10, <1>11, <1>15, <2>4
    <3>2. found = <<Asked(meant[1])>> /\ ~malformed
      BY <1>7, <2>4, <3>1 DEF AtFirst
    <3>3. found' = <<Asked(meant[1]), Asked(meant[2])>>
      <4>1. PICK x, y : x = Asked(meant[1]) /\ y = Asked(meant[2])
        OBVIOUS
      <4>4. read = y
        BY <1>5, <2>1, <4>1
      <4>5. found = <<x>>
        BY <3>2, <4>1
      <4>2. found' = Append(<<x>>, y)
        BY <2>2, <4>4, <4>5
      <4>3. Append(<<x>>, y) = <<x, y>>
        BY PairOf
      <4> QED BY <4>1, <4>2, <4>3
    <3> QED BY <1>3, <2>2, <3>2, <3>3 DEF BothFound
  <2>5. AtEnd'
    BY <1>3, <1>12, <1>15, <2>3, <2>4 DEF AtEnd
  <2> QED BY <1>3, <1>14, <2>5 DEF TextIInv
<1>16. CASE c <= m
  <2>1. cursor' \in 1..(Len(b) + 1) /\ cursor # m + 1
    BY <1>8, <1>10, <1>11, <1>3, <1>16
  <2>2. ASSUME Tame(meant[1]), meant[1].path # <<>>
        PROVE  ~malformed' /\ cursor' = Len(b) + 1 /\ found' = <<Asked(meant[1])>>
    <3>1. cursor = 1 /\ found = <<>> /\ ~malformed
      BY <1>7, <1>11, <2>1, <2>2 DEF AtFirst
    <3>2. o = 1 /\ c = m
      BY <1>10, <1>11, <2>2, <3>1
    <3>3. read = Asked(meant[1]) /\ Asked(meant[1]) # NoCall
      <4>1. c = o + Len(b) - 1 /\ 1 <= o /\ c <= Len(text)
        BY <1>11, <1>12, <3>2
      <4>2. IsAt(b, text, o)
        <5>1. ASSUME NEW i \in 1..Len(b)
              PROVE  text[o - 1 + i] = b[i]
          <6>1. o - 1 + i = i
            BY <3>2
          <6> QED BY <1>12, <6>1
        <5> QED BY <5>1 DEF IsAt
      <4> QED BY <1>2, <1>5, <1>10, <1>12, <2>2, <4>1, <4>2, BlockIsRead
    <3>4. found' = <<Asked(meant[1])>>
      BY <1>3, <3>1, <3>3
    <3> QED BY <1>3, <1>11, <3>1, <3>2, <3>3, <3>4
  <2>3. AtFirst(b)'
    BY <1>3, <2>1, <2>2 DEF AtFirst
  <2>4. b = Block(meant'[1])
    BY <1>3, <1>4
  <2> QED BY <1>3, <1>4, <1>14, <2>3 DEF TextIInv, AtFirst
<1> QED BY <1>10, <1>11, <1>12, <1>15, <1>16

(* Every step of a text.                                                   *)
LEMMA TextGoesOn ==
  ASSUME TextIInv, [TextNext]_textVars
  PROVE  TextIInv'
<1>1. CASE ReadBlock
  BY <1>1, BlockStep
<1>2. CASE TakeText
  <2>1. CloseMarks = {} /\ meant' = meant /\ text' = text /\ cursor' = cursor /\ found' = found
        /\ malformed' = malformed /\ onLine' = onLine /\ inBlock' = inBlock
    BY <1>2 DEF TakeText
  <2>2. ~AtFirst(Block(meant[1]))
    BY <2>1, NextRead
  <2>3. AtEnd
    BY <2>2 DEF TextIInv
  <2>4. AtEnd'
    BY <2>1, <2>3 DEF AtEnd, BothFound
  <2> QED BY <2>1, <2>4 DEF TextIInv
<1>3. CASE Think
  <2>1. heard # "nothing" /\ meant' = meant /\ text' = text /\ cursor' = cursor /\ found' = found
        /\ malformed' = malformed /\ heard' = heard
    BY <1>3 DEF Think
  <2>2. onLine' \in Seq(Words) /\ IsFiniteSet(inBlock')
    <3>1. PICK w \in Words : \/ onLine' = onLine /\ inBlock' = inBlock \cup {w}
                             \/ onLine' = Append(onLine, w) /\ inBlock' = inBlock
      BY <1>3 DEF Think
    <3>2. IsFiniteSet(inBlock) /\ onLine \in Seq(Words)
      BY DEF TextIInv
    <3>3. IsFiniteSet(inBlock \cup {w}) /\ Append(onLine, w) \in Seq(Words)
      BY <3>2, FS_AddElement
    <3> QED BY <3>1, <3>2, <3>3
  <2>3. AtEnd
    BY <2>1 DEF TextIInv, AtFirst
  <2>4. AtEnd'
    BY <2>1, <2>3 DEF AtEnd, BothFound
  <2> QED BY <2>1, <2>2, <2>4 DEF TextIInv
<1>4. CASE UNCHANGED textVars
  <2>1. /\ meant' = meant /\ text' = text /\ cursor' = cursor /\ found' = found
        /\ malformed' = malformed /\ heard' = heard /\ onLine' = onLine /\ inBlock' = inBlock
    BY <1>4 DEF textVars
  <2>2. /\ AtFirst(Block(meant[1])) => AtFirst(Block(meant[1]))'
        /\ AtEnd => AtEnd'
    BY <2>1 DEF AtFirst, AtEnd, BothFound
  <2> QED BY <2>1, <2>2 DEF TextIInv
<1> QED BY <1>1, <1>2, <1>3, <1>4 DEF TextNext, TextStep

(* What is heard once both blocks are behind the cursor is as it was       *)
(* meant, and a guess at a file only ever becomes unclear.                 *)
LEMMA TextIsRight ==
  ASSUME TextIInv
  PROVE  TextInv
<1>1. meant[2] = LastCall
  BY TextOfTwo
<1>2. FoundAsMeant /\ LaterBlockIsRead
  <2>1. heard # "nothing" => AtEnd
    BY DEF TextIInv, AtFirst
  <2> QED BY <1>1, <2>1 DEF AtEnd, BothFound, FoundAsMeant, LaterBlockIsRead
<1>3. IsFiniteSet(AllWords)
  <2>1. onLine \in Seq(Words) /\ IsFiniteSet(inBlock)
    BY DEF TextIInv
  <2>2. PICK n \in Nat : n = Len(onLine)
    BY <2>1
  <2>3. ToSet(onLine) = {onLine[i] : i \in 1..n}
    BY <2>1, <2>2 DEF ToSet
  <2>4. IsFiniteSet(1..n)
    BY FS_Interval
  <2>5. IsFiniteSet(ToSet(onLine))
    <3>1. PICK f, T : f = [i \in 1..n |-> onLine[i]] /\ T = ToSet(onLine)
      OBVIOUS
    <3>2. f \in Surjection(1..n, T)
      BY <2>3, <3>1 DEF Surjection
    <3> QED BY <2>4, <3>1, <3>2, FS_Surjection
  <2> QED BY <2>1, <2>5, FS_Union DEF AllWords
<1>4. GuessIsStable
  BY <1>3, GuessStays DEF GuessIsStable
<1> QED BY <1>2, <1>4 DEF TextInv

(* A model's text is taken for the calls it meant: the last one always,    *)
(* and all of them if no value of theirs names a field or holds the mark   *)
(* that closes a block, whatever their quotes, commas and braces; and a    *)
(* guess at the file a thought names never turns into another file.        *)
THEOREM CallsAreReadAsMeant == TextInit /\ [][TextNext]_textVars => []TextInv
<1>1. TextInit => TextIInv
  BY TextStarts
<1>2. TextIInv /\ [TextNext]_textVars => TextIInv'
  BY TextGoesOn
<1>3. TextIInv => TextInv
  BY TextIsRight
<1> QED BY <1>1, <1>2, <1>3, PTL

-----------------------------------------------------------------------------
(* What a header is filled with: for any rules, patterns, windows and      *)
(* budgets.  What is taken in a round is reckoned in tokens that cover its *)
(* characters; after a round of rules each of them is taken or has no room *)
(* (IsAfter), and a round of patterns stays within the budget but for one  *)
(* marker (IsSpent).                                                       *)

(* What tokens are reckoned covers what they are reckoned for.             *)
LEMMA TokensCover ==
  \A n \in Nat : /\ ApproxTokens(n) \in Nat /\ n <= 4 * ApproxTokens(n)
                 /\ n > 0 => ApproxTokens(n) > 0
BY DEF ApproxTokens

(* A window leaves a budget.                                               *)
LEMMA BudgetIs == ASSUME BuilderAssumption PROVE \A n \in Nat : Budget(n) \in Nat
BY DEF BuilderAssumption, Budget

(* Rules by their numbers.                                                 *)
RulesCounted(R) == \A r \in R : r.chars \in Nat /\ r.score \in Nat /\ r.id \in Nat

(* A rule costs something.                                                 *)
LEMMA CostIs ==
  ASSUME NEW R, RulesCounted(R)
  PROVE  \A r \in R : /\ RuleCost(r) \in Nat \ {0} /\ r.chars + 3 \in Nat
                      /\ r.chars + 3 <= 4 * RuleCost(r)
<1>1. TAKE r \in R
<1>2. r.chars + 3 \in Nat /\ r.chars + 3 > 0
  BY DEF RulesCounted
<1> QED BY <1>2, TokensCover DEF RuleCost

(* A factor that counts cancels.                                           *)
LEMMA Cancels ==
  ASSUME NEW a \in Nat, NEW b \in Nat, NEW c \in Nat \ {0}
  PROVE  /\ c * a <= c * b => a <= b
         /\ c * a < c * b => a < b
         /\ a <= b => c * a <= c * b
         /\ a < b => c * a < c * b
  OBVIOUS

(* Of three densities: scores a, b and c for p, q and r tokens.            *)
LEMMA Densities ==
  ASSUME NEW a \in Nat, NEW b \in Nat, NEW c \in Nat,
         NEW p \in Nat \ {0}, NEW q \in Nat \ {0}, NEW r \in Nat \ {0},
         a * q >= b * p, b * r >= c * q
  PROVE  /\ a * r >= c * p
         /\ (a * q > b * p \/ b * r > c * q) => a * r > c * p
<1>1. PICK aq \in Nat, bp \in Nat, br \in Nat, cq \in Nat, ar \in Nat, cp \in Nat :
        aq = a * q /\ bp = b * p /\ br = b * r /\ cq = c * q /\ ar = a * r /\ cp = c * p
  OBVIOUS
<1>2. r * aq = q * ar /\ r * bp = p * br /\ p * cq = q * cp
  BY <1>1
<1>3. r * bp <= r * aq /\ p * cq <= p * br
  BY <1>1, Cancels
<1>4. q * cp <= q * ar
  <2>1. p * cq \in Nat /\ p * br \in Nat /\ r * bp \in Nat /\ r * aq \in Nat
    OBVIOUS
  <2>2. p * cq <= r * aq
    BY <1>2, <1>3, <2>1
  <2> QED BY <1>2, <2>2
<1>5. cp <= ar
  BY <1>4, Cancels
<1>6. ASSUME aq > bp \/ br > cq PROVE cp < ar
  <2>1. p * cq \in Nat /\ p * br \in Nat /\ r * bp \in Nat /\ r * aq \in Nat
    OBVIOUS
  <2>2. r * bp < r * aq \/ p * cq < p * br
    BY <1>6, Cancels
  <2>3. p * cq < r * aq
    BY <1>2, <1>3, <2>1, <2>2
  <2>4. q * cp < q * ar
    BY <1>2, <2>3
  <2> QED BY <2>4, Cancels
<1> QED BY <1>1, <1>5, <1>6

(* The denser of rules is an order.                                        *)
LEMMA DenserOrders ==
  ASSUME NEW R, RulesCounted(R)
  PROVE  /\ \A r \in R : ~Denser(r, r)
         /\ \A r, s, t \in R : Denser(r, s) /\ Denser(s, t) => Denser(r, t)
<1>1. \A r \in R : r.score \in Nat /\ r.id \in Nat /\ RuleCost(r) \in Nat \ {0}
  BY CostIs DEF RulesCounted
<1>2. ASSUME NEW r \in R PROVE ~Denser(r, r)
  <2>1. r.score * RuleCost(r) \in Nat
    BY <1>1
  <2> QED BY <1>1, <2>1 DEF Denser
<1>3. ASSUME NEW r \in R, NEW s \in R, NEW t \in R, Denser(r, s), Denser(s, t)
      PROVE  Denser(r, t)
  <2>1. PICK a \in Nat, b \in Nat, c \in Nat, p \in Nat \ {0}, q \in Nat \ {0}, u \in Nat \ {0} :
          /\ a = r.score /\ b = s.score /\ c = t.score
          /\ p = RuleCost(r) /\ q = RuleCost(s) /\ u = RuleCost(t)
    BY <1>1
  <2>2. /\ a * q > b * p \/ (a * q = b * p /\ r.id < s.id)
        /\ b * u > c * q \/ (b * u = c * q /\ s.id < t.id)
    BY <1>3, <2>1 DEF Denser
  <2>3. a * q \in Nat /\ b * p \in Nat /\ b * u \in Nat /\ c * q \in Nat
        /\ a * u \in Nat /\ c * p \in Nat
    OBVIOUS
  <2>4. a * q >= b * p /\ b * u >= c * q
    BY <2>2, <2>3
  <2>5. a * u >= c * p /\ ((a * q > b * p \/ b * u > c * q) => a * u > c * p)
    BY <2>4, Densities
  <2>6. a * u > c * p \/ (a * u = c * p /\ r.id < t.id)
    BY <1>1, <2>2, <2>3, <2>5
  <2> QED BY <2>1, <2>6 DEF Denser
<1> QED BY <1>2, <1>3

IsDensest(m, R) == m \in R /\ \A s \in R : ~Denser(s, m)

(* Of finitely many rules one is the densest.                              *)
LEMMA HasDensest ==
  ASSUME NEW R, IsFiniteSet(R), RulesCounted(R), R # {}
  PROVE  \E m : IsDensest(m, R)
<1> DEFINE S == {n \in Nat : \A T \in SUBSET R :
                   Cardinality(T) = n /\ T # {} => \E m : IsDensest(m, T)}
<1>1. 0 \in S
  BY FS_EmptySet, FS_Subset
<1>2. ASSUME NEW n \in Nat, n \in S PROVE n + 1 \in S
  <2>1. SUFFICES ASSUME NEW T \in SUBSET R, Cardinality(T) = n + 1, T # {}
                 PROVE  \E m : IsDensest(m, T)
    OBVIOUS
  <2>2. PICK x \in T : TRUE
    BY <2>1
  <2>3. PICK U : U = T \ {x}
    OBVIOUS
  <2>4. IsFiniteSet(T) /\ U \in SUBSET R
    BY <2>3, FS_Subset
  <2>5. Cardinality(U) = n
    BY <2>1, <2>2, <2>3, <2>4, FS_RemoveElement
  <2>6. /\ \A r \in R : ~Denser(r, r)
        /\ \A r, s, t \in R : Denser(r, s) /\ Denser(s, t) => Denser(r, t)
    BY DenserOrders
  <2>7. CASE U = {}
    <3>1. T = {x}
      BY <2>2, <2>3, <2>7
    <3>2. IsDensest(x, T)
      BY <2>6, <3>1 DEF IsDensest
    <3> QED BY <3>2
  <2>8. CASE U # {}
    <3>1. PICK m : IsDensest(m, U)
      BY <1>2, <2>4, <2>5, <2>8
    <3>2. m \in U /\ \A s \in U : ~Denser(s, m)
      BY <3>1 DEF IsDensest
    <3>3. CASE Denser(x, m)
      <4>1. \A s \in U : ~Denser(s, x)
        BY <2>3, <2>4, <2>6, <3>2, <3>3
      <4>2. IsDensest(x, T)
        BY <2>2, <2>3, <2>6, <4>1 DEF IsDensest
      <4> QED BY <4>2
    <3>4. CASE ~Denser(x, m)
      <4>1. IsDensest(m, T)
        BY <2>2, <2>3, <3>2, <3>4 DEF IsDensest
      <4> QED BY <4>1
    <3> QED BY <3>3, <3>4
  <2> QED BY <2>7, <2>8
<1>3. Nat \subseteq S
  <2> HIDE DEF S
  <2> QED BY <1>1, <1>2, NatInd
<1>4. Cardinality(R) \in Nat
  BY FS_CardinalityType
<1>5. Cardinality(R) \in S
  BY <1>3, <1>4
<1> QED BY <1>5

(* Which a round tries next.                                               *)
LEMMA DensestIs ==
  ASSUME NEW R, IsFiniteSet(R), RulesCounted(R), R # {}
  PROVE  Densest(R) \in R
<1>1. \E m \in R : \A s \in R : ~Denser(s, m)
  BY HasDensest DEF IsDensest
<1> QED BY <1>1 DEF Densest

(* The tokens of rules, one by one.                                        *)
LEMMA TokensGrow ==
  ASSUME NEW R, IsFiniteSet(R), RulesCounted(R), NEW T \in SUBSET R, NEW r \in R \ T
  PROVE  /\ TokensOf({}) = 0 /\ TokensOf(T) \in Nat
         /\ TokensOf(T \cup {r}) = TokensOf(T) + RuleCost(r)
<1>1. PICK cost : cost = [s \in R |-> RuleCost(s)]
  OBVIOUS
<1>2. \A s \in R : cost[s] \in Nat /\ cost[s] = RuleCost(s)
  BY <1>1, CostIs
<1>3. ASSUME NEW U \in SUBSET R PROVE TokensOf(U) = WeightOf(cost, U)
  <2>1. UNION {{s} \X (1..RuleCost(s)) : s \in U} = Units(cost, U)
    BY <1>2 DEF Units
  <2> QED BY <2>1 DEF TokensOf, WeightOf
<1>4. PICK W : W = T \cup {r}
  OBVIOUS
<1>5. IsFiniteSet(T) /\ IsFiniteSet(W) /\ W \in SUBSET R /\ {r} \in SUBSET W /\ W \ {r} = T
  BY <1>4, FS_Subset
<1>6. WeightOf(cost, W) = WeightOf(cost, W \ {r}) + WeightOf(cost, {r})
  BY <1>2, <1>5, WeightSplits
<1>7. WeightOf(cost, {r}) = RuleCost(r)
  <2>1. Units(cost, {r}) = {r} \X (1..cost[r])
    BY DEF Units
  <2>2. IsFiniteSet({r}) /\ Cardinality({r}) = 1
    BY FS_Singleton
  <2>3. cost[r] \in Nat /\ cost[r] = RuleCost(r)
    BY <1>2
  <2>4. IsFiniteSet(1..cost[r]) /\ Cardinality(1..cost[r]) = cost[r]
    BY <2>3, FS_Interval
  <2>5. Cardinality({r} \X (1..cost[r])) = Cardinality({r}) * Cardinality(1..cost[r])
    BY <2>2, <2>4, FS_Product
  <2>6. Cardinality({r} \X (1..cost[r])) = cost[r]
    <3>1. \A k \in Nat : 1 * k = k
      OBVIOUS
    <3> QED BY <2>2, <2>3, <2>4, <2>5, <3>1
  <2> QED BY <2>1, <2>3, <2>6 DEF WeightOf
<1>8. TokensOf({}) = 0
  BY FS_EmptySet DEF TokensOf
<1>9. TokensOf(T) \in Nat
  BY <1>2, <1>3, <1>5, UnitsFinite
<1> QED BY <1>3, <1>4, <1>5, <1>6, <1>7, <1>8, <1>9

(* The states of a round of rules.                                         *)
Filling(R) ==
  [budget : Nat, used : Nat, chars : Nat, rules : SUBSET R, left : SUBSET R, closed : BOOLEAN]
IsFilled(w) ==
  w.used = TokensOf(w.rules) /\ w.used <= w.budget /\ w.chars <= 4 * w.used /\ ~w.closed
NoRoom(w, r) == r \in w.rules \/ w.used + RuleCost(r) > w.budget

(* What one rule does to a round.                                          *)
IsTried(w, v, r) ==
  /\ r \in w.left /\ v.left = w.left \ {r} /\ v.budget = w.budget
  /\ v.used >= w.used /\ w.rules \subseteq v.rules /\ NoRoom(v, r)

(* A rule is tried that is left, and has no room afterwards.               *)
LEMMA RuleIsTried ==
  ASSUME NEW R, IsFiniteSet(R), RulesCounted(R), NEW w \in Filling(R), IsFilled(w), w.left # {}
  PROVE  /\ TryRule(w) \in Filling(R) /\ IsFilled(TryRule(w))
         /\ IsTried(w, TryRule(w), Densest(w.left))
<1>1. PICK r : r = Densest(w.left)
  OBVIOUS
<1>2. w.left \in SUBSET R /\ w.rules \in SUBSET R
  BY DEF Filling
<1>3. r \in w.left
  <2>1. IsFiniteSet(w.left) /\ RulesCounted(w.left)
    BY <1>2, FS_Subset DEF RulesCounted
  <2> QED BY <1>1, <2>1, DensestIs
<1>4. PICK v : v = [w EXCEPT !.left = w.left \ {r}]
  OBVIOUS
<1>5. /\ v \in Filling(R) /\ v.budget = w.budget /\ v.used = w.used /\ v.chars = w.chars
      /\ v.rules = w.rules /\ v.left = w.left \ {r} /\ v.closed = w.closed
  BY <1>4 DEF Filling
<1>6. PICK c \in Nat : c = RuleCost(r) /\ c > 0 /\ r.chars + 3 \in Nat /\ r.chars + 3 <= 4 * c
  BY <1>2, <1>3, CostIs
<1>7. TryRule(w) = IF r \in v.rules THEN v
                   ELSE IF v.used + RuleCost(r) > v.budget THEN v
                   ELSE Spend(v, RuleCost(r), r.chars + 3, {r})
  BY <1>1, <1>4 DEF TryRule, Skip
<1>8. CASE r \in v.rules \/ v.used + RuleCost(r) > v.budget
  <2>1. TryRule(w) = v
    BY <1>7, <1>8
  <2>2. w.used \in Nat
    BY DEF Filling
  <2>3. IsFilled(v)
    BY <1>5 DEF IsFilled
  <2>4. IsTried(w, v, r)
    BY <1>3, <1>5, <1>8, <2>2 DEF IsTried, NoRoom
  <2> QED BY <1>1, <1>5, <2>1, <2>3, <2>4
<1>9. CASE r \notin v.rules /\ ~(v.used + RuleCost(r) > v.budget)
  <2>1. PICK u : u = Spend(v, RuleCost(r), r.chars + 3, {r})
    OBVIOUS
  <2>2. TryRule(w) = u
    BY <1>7, <1>9, <2>1
  <2>3. /\ w.used \in Nat /\ w.budget \in Nat /\ w.chars \in Nat /\ w.used <= w.budget
        /\ w.chars <= 4 * w.used /\ ~w.closed /\ w.used = TokensOf(w.rules)
    BY DEF Filling, IsFilled
  <2>4. /\ u.budget = w.budget /\ u.used = w.used + c /\ u.chars = w.chars + (r.chars + 3)
        /\ u.rules = w.rules \cup {r} /\ u.left = w.left \ {r} /\ u.closed = w.closed
    BY <1>5, <1>6, <2>1 DEF Spend
  <2>5. w.used + c \in Nat /\ w.chars + (r.chars + 3) \in Nat /\ w.used + c <= w.budget
        /\ w.chars + (r.chars + 3) <= 4 * (w.used + c) /\ w.used + c >= w.used
    <3>1. ~(w.used + c > w.budget)
      BY <1>5, <1>6, <1>9
    <3>2. PICK k \in Nat : k = r.chars + 3 /\ k <= 4 * c
      BY <1>6
    <3> QED BY <2>3, <3>1, <3>2
  <2>6. u \in Filling(R)
    <3>1. w.rules \cup {r} \in SUBSET R /\ w.left \ {r} \in SUBSET R /\ w.closed \in BOOLEAN
      BY <1>2, <1>3 DEF Filling
    <3>2. u = [budget |-> w.budget, used |-> w.used + c, chars |-> w.chars + (r.chars + 3),
               rules |-> w.rules \cup {r}, left |-> w.left \ {r}, closed |-> w.closed]
      BY <1>5, <1>6, <2>1 DEF Spend
    <3> QED BY <2>3, <2>5, <3>1, <3>2 DEF Filling
  <2>7. TokensOf(w.rules \cup {r}) = w.used + c
    <3>1. r \in R \ w.rules
      BY <1>2, <1>3, <1>5, <1>9
    <3>2. TokensOf(w.rules \cup {r}) = TokensOf(w.rules) + RuleCost(r)
      BY <1>2, <3>1, TokensGrow
    <3> QED BY <1>6, <2>3, <3>2
  <2>8. IsFilled(u)
    BY <2>3, <2>4, <2>5, <2>7 DEF IsFilled
  <2>9. IsTried(w, u, r)
    BY <1>3, <2>4, <2>5 DEF IsTried, NoRoom
  <2> QED BY <1>1, <2>2, <2>6, <2>8, <2>9
<1> QED BY <1>5, <1>8, <1>9

(* Who has no room has none later.                                         *)
LEMMA NoRoomStays ==
  ASSUME NEW R, RulesCounted(R), NEW w \in Filling(R), NEW v \in Filling(R), NEW r, IsTried(w, v, r)
  PROVE  \A s \in R : NoRoom(w, s) => NoRoom(v, s)
<1>1. TAKE s \in R
<1>2. /\ w.used \in Nat /\ v.used \in Nat /\ w.budget \in Nat /\ v.budget = w.budget
      /\ v.used >= w.used /\ w.rules \subseteq v.rules
  BY DEF Filling, IsTried
<1>3. PICK c \in Nat : c = RuleCost(s)
  BY CostIs
<1>4. w.used + c > w.budget => v.used + c > v.budget
  BY <1>2
<1> QED BY <1>2, <1>3, <1>4 DEF NoRoom

(* After n rules of a round.                                               *)
IsAfter(y, w, S, n) ==
  /\ IsFilled(y) /\ y.budget = w.budget
  /\ y.left \in SUBSET S /\ Cardinality(y.left) = Cardinality(S) - n
  /\ \A r \in S \ y.left : NoRoom(y, r)

(* One more rule.                                                          *)
LEMMA AfterOneMore ==
  ASSUME NEW R, IsFiniteSet(R), RulesCounted(R), NEW S \in SUBSET R, NEW w \in Filling(R),
         NEW n \in 1..Cardinality(S), NEW y \in Filling(R), IsAfter(y, w, S, n - 1)
  PROVE  TryRule(y) \in Filling(R) /\ IsAfter(TryRule(y), w, S, n)
<1>1. IsFiniteSet(S) /\ Cardinality(S) \in Nat
  BY FS_Subset, FS_CardinalityType
<1>2. /\ IsFilled(y) /\ y.budget = w.budget /\ y.left \in SUBSET S
      /\ Cardinality(y.left) = Cardinality(S) - (n - 1)
      /\ \A r \in S \ y.left : NoRoom(y, r)
  BY DEF IsAfter
<1>3. IsFiniteSet(y.left) /\ y.left # {}
  <2>1. Cardinality(y.left) # 0
    BY <1>1, <1>2
  <2> QED BY <1>1, <1>2, <2>1, FS_Subset, FS_EmptySet
<1>4. PICK v, r : v = TryRule(y) /\ r = Densest(y.left)
  OBVIOUS
<1>5. v \in Filling(R) /\ IsFilled(v) /\ IsTried(y, v, r)
  BY <1>2, <1>3, <1>4, RuleIsTried
<1>6. r \in y.left /\ v.left = y.left \ {r} /\ v.budget = y.budget /\ NoRoom(v, r)
  BY <1>5 DEF IsTried
<1>7. Cardinality(v.left) = Cardinality(S) - n
  <2>1. Cardinality(y.left \ {r}) = Cardinality(y.left) - 1
    BY <1>3, <1>6, FS_RemoveElement
  <2> QED BY <1>1, <1>2, <1>6, <2>1
<1>8. \A s \in R : NoRoom(y, s) => NoRoom(v, s)
  BY <1>5, NoRoomStays
<1>9. \A s \in S \ v.left : NoRoom(v, s)
  BY <1>2, <1>6, <1>8
<1>10. IsAfter(v, w, S, n)
  BY <1>2, <1>5, <1>6, <1>7, <1>9 DEF IsAfter
<1> QED BY <1>4, <1>5, <1>10

(* A round has a state for each rule tried.                                *)
AreRounds(f, w, m) == f = [k \in 0..m |-> IF k = 0 THEN w ELSE TryRule(f[k - 1])]

(* The recursion of a round has a solution.                                *)
LEMMA RoundsExist == ASSUME NEW w, NEW n \in Nat PROVE \E f : AreRounds(f, w, n)
<1> DEFINE S == {m \in Nat : \E f : AreRounds(f, w, m)}
<1>1. 0 \in S
  <2>1. PICK f : f = [k \in 0..0 |-> w]
    OBVIOUS
  <2>2. AreRounds(f, w, 0)
    BY <2>1 DEF AreRounds
  <2> QED BY <2>2
<1>2. ASSUME NEW m \in Nat, m \in S PROVE m + 1 \in S
  <2>1. PICK f : AreRounds(f, w, m)
    BY <1>2
  <2>2. PICK g : g = [k \in 0..(m + 1) |-> IF k = m + 1 THEN TryRule(f[m]) ELSE f[k]]
    OBVIOUS
  <2>3. \A k \in 0..m : g[k] = f[k] /\ k # m + 1
    BY <2>2
  <2>4. ASSUME NEW k \in 0..(m + 1)
        PROVE  g[k] = IF k = 0 THEN w ELSE TryRule(g[k - 1])
    <3>1. CASE k = m + 1
      <4>1. g[k] = TryRule(f[m])
        BY <2>2, <3>1
      <4>2. k - 1 = m /\ k # 0 /\ m \in 0..m
        BY <3>1
      <4>3. g[k - 1] = f[m]
        BY <2>3, <4>2
      <4> QED BY <4>1, <4>2, <4>3
    <3>2. CASE k = 0
      <4>1. 0 \in 0..m
        OBVIOUS
      <4>2. f[0] = w
        BY <2>1, <4>1 DEF AreRounds
      <4> QED BY <2>3, <3>2, <4>1, <4>2
    <3>3. CASE k # 0 /\ k # m + 1
      <4>1. k \in 0..m /\ k - 1 \in 0..m
        BY <3>3
      <4>2. f[k] = TryRule(f[k - 1])
        BY <2>1, <3>3, <4>1 DEF AreRounds
      <4>3. g[k] = f[k] /\ g[k - 1] = f[k - 1]
        BY <2>3, <4>1
      <4> QED BY <3>3, <4>2, <4>3
    <3> QED BY <3>1, <3>2, <3>3
  <2>5. g = [k \in 0..(m + 1) |-> g[k]]
    BY <2>2
  <2>6. g = [k \in 0..(m + 1) |-> IF k = 0 THEN w ELSE TryRule(g[k - 1])]
    BY <2>4, <2>5
  <2>7. AreRounds(g, w, m + 1)
    BY <2>6 DEF AreRounds
  <2> QED BY <2>7
<1> HIDE DEF S
<1>3. Nat \subseteq S
  BY <1>1, <1>2, NatInd
<1> QED BY <1>3 DEF S

(* A round begins with all of its rules left; each state is the one        *)
(* before with one more rule tried.                                        *)
LEMMA RoundsAre ==
  ASSUME NEW w, NEW S, Cardinality(S) \in Nat
  PROVE  /\ RuleRounds(w, S)[0] = [w EXCEPT !.left = S]
         /\ \A k \in 1..Cardinality(S) : RuleRounds(w, S)[k] = TryRule(RuleRounds(w, S)[k - 1])
<1>1. PICK n \in Nat : n = Cardinality(S)
  OBVIOUS
<1>2. PICK u : u = [w EXCEPT !.left = S]
  OBVIOUS
<1>3. PICK g : g = CHOOSE f : f = [k \in 0..n |-> IF k = 0 THEN u ELSE TryRule(f[k - 1])]
  OBVIOUS
<1>4. g = [k \in 0..n |-> IF k = 0 THEN u ELSE TryRule(g[k - 1])]
  BY <1>3, RoundsExist DEF AreRounds
<1>5. RuleRounds(w, S) = g
  BY <1>1, <1>2, <1>3 DEF RuleRounds
<1>6. \A k \in 0..n : g[k] = IF k = 0 THEN u ELSE TryRule(g[k - 1])
  BY <1>4
<1>7. 0 \in 0..n /\ \A k \in 1..n : k \in 0..n /\ k # 0
  OBVIOUS
<1>8. g[0] = u /\ \A k \in 1..n : g[k] = TryRule(g[k - 1])
  BY <1>6, <1>7
<1> QED BY <1>1, <1>2, <1>5, <1>8

(* At the end of a round every rule has been taken or has no room.         *)
LEMMA RoundIsOver ==
  ASSUME NEW R, IsFiniteSet(R), RulesCounted(R), NEW S \in SUBSET R,
         NEW w \in Filling(R), IsFilled(w)
  PROVE  /\ RuleRound(w, S) \in Filling(R) /\ IsFilled(RuleRound(w, S))
         /\ RuleRound(w, S).budget = w.budget /\ RuleRound(w, S).left = {}
         /\ \A r \in S : NoRoom(RuleRound(w, S), r)
<1>1. IsFiniteSet(S) /\ Cardinality(S) \in Nat
  BY FS_Subset, FS_CardinalityType
<1>2. PICK N \in Nat : N = Cardinality(S)
  BY <1>1
<1>3. PICK g : g = RuleRounds(w, S)
  OBVIOUS
<1>4. g[0] = [w EXCEPT !.left = S] /\ \A k \in 1..N : g[k] = TryRule(g[k - 1])
  BY <1>1, <1>2, <1>3, RoundsAre
<1>5. g[0] \in Filling(R) /\ IsAfter(g[0], w, S, 0)
  <2>1. PICK y : y = g[0]
    OBVIOUS
  <2>2. /\ y \in Filling(R) /\ y.left = S /\ y.budget = w.budget /\ y.used = w.used
        /\ y.chars = w.chars /\ y.rules = w.rules /\ y.closed = w.closed
    BY <1>4, <2>1 DEF Filling
  <2>3. IsFilled(y)
    BY <2>2 DEF IsFilled
  <2>4. Cardinality(y.left) = Cardinality(S) - 0 /\ \A r \in S \ y.left : NoRoom(y, r)
    BY <1>1, <2>2
  <2>5. IsAfter(y, w, S, 0)
    BY <2>2, <2>3, <2>4 DEF IsAfter
  <2> QED BY <2>1, <2>2, <2>5
<1>6. \A k \in Nat : k <= N => g[k] \in Filling(R) /\ IsAfter(g[k], w, S, k)
  <2> DEFINE T == {k \in Nat : k <= N => g[k] \in Filling(R) /\ IsAfter(g[k], w, S, k)}
  <2>1. 0 \in T
    BY <1>5
  <2>2. ASSUME NEW k \in Nat, k \in T PROVE k + 1 \in T
    <3>1. SUFFICES ASSUME k + 1 <= N
                   PROVE  g[k + 1] \in Filling(R) /\ IsAfter(g[k + 1], w, S, k + 1)
      OBVIOUS
    <3>2. PICK m \in 1..N : m = k + 1 /\ m - 1 = k /\ k <= N
      BY <3>1
    <3>3. PICK y : y = g[k]
      OBVIOUS
    <3>4. y \in Filling(R) /\ IsAfter(y, w, S, m - 1)
      BY <2>2, <3>2, <3>3
    <3>5. m \in 1..Cardinality(S)
      BY <1>2
    <3>6. TryRule(y) \in Filling(R) /\ IsAfter(TryRule(y), w, S, m)
      BY <3>4, <3>5, AfterOneMore
    <3>7. g[m] = TryRule(y)
      BY <1>4, <3>2, <3>3
    <3> QED BY <3>2, <3>6, <3>7
  <2> HIDE DEF T
  <2>3. Nat \subseteq T
    BY <2>1, <2>2, NatInd
  <2> QED BY <2>3 DEF T
<1>7. PICK y : y = RuleRound(w, S)
  OBVIOUS
<1>8. y = g[N]
  BY <1>2, <1>3, <1>7 DEF RuleRound
<1>9. y \in Filling(R) /\ IsAfter(y, w, S, N)
  BY <1>6, <1>8
<1>10. /\ IsFilled(y) /\ y.budget = w.budget /\ y.left \in SUBSET S
       /\ Cardinality(y.left) = Cardinality(S) - N /\ \A r \in S \ y.left : NoRoom(y, r)
  BY <1>9 DEF IsAfter
<1>11. y.left = {}
  <2>1. IsFiniteSet(y.left) /\ Cardinality(y.left) = 0
    BY <1>1, <1>2, <1>10, FS_Subset
  <2> QED BY <2>1, FS_EmptySet
<1> QED BY <1>7, <1>9, <1>10, <1>11

(* A round of rules that have no room leaves what was there.               *)
LEMMA RoundIsIdle ==
  ASSUME NEW R, IsFiniteSet(R), RulesCounted(R), NEW S \in SUBSET R,
         NEW w \in Filling(R), w.left = {}, \A r \in S : NoRoom(w, r)
  PROVE  RuleRound(w, S) = w
<1>1. IsFiniteSet(S) /\ Cardinality(S) \in Nat
  BY FS_Subset, FS_CardinalityType
<1>2. PICK N \in Nat : N = Cardinality(S)
  BY <1>1
<1>3. PICK g : g = RuleRounds(w, S)
  OBVIOUS
<1>4. g[0] = [w EXCEPT !.left = S] /\ \A k \in 1..N : g[k] = TryRule(g[k - 1])
  BY <1>1, <1>2, <1>3, RoundsAre
<1> DEFINE Idle(y, k) == \E T \in SUBSET S : /\ y = [w EXCEPT !.left = T]
                                             /\ Cardinality(T) = N - k
<1>5. Idle(g[0], 0)
  BY <1>2, <1>4
<1>6. ASSUME NEW y, NEW k \in 1..N, Idle(y, k - 1)
      PROVE  Idle(TryRule(y), k)
  <2>1. PICK T \in SUBSET S : y = [w EXCEPT !.left = T] /\ Cardinality(T) = N - (k - 1)
    BY <1>6
  <2>2. IsFiniteSet(T) /\ RulesCounted(T) /\ T # {}
    <3>1. Cardinality(T) # 0
      BY <2>1
    <3> QED BY <1>1, <3>1, FS_Subset, FS_EmptySet DEF RulesCounted
  <2>3. PICK r : r = Densest(T)
    OBVIOUS
  <2>4. r \in T /\ NoRoom(w, r)
    BY <2>2, <2>3, DensestIs
  <2>5. y.left = T
    BY <2>1 DEF Filling
  <2>6. PICK v : v = [y EXCEPT !.left = T \ {r}]
    OBVIOUS
  <2>7. v = [w EXCEPT !.left = T \ {r}]
    BY <2>1, <2>6 DEF Filling
  <2>8. v.rules = w.rules /\ v.used = w.used /\ v.budget = w.budget
    BY <2>7 DEF Filling
  <2>9. TryRule(y) = v
    <3>1. TryRule(y) = IF r \in v.rules THEN v
                       ELSE IF v.used + RuleCost(r) > v.budget THEN v
                       ELSE Spend(v, RuleCost(r), r.chars + 3, {r})
      BY <2>3, <2>5, <2>6 DEF TryRule, Skip
    <3>2. r \in v.rules \/ v.used + RuleCost(r) > v.budget
      BY <2>4, <2>8 DEF NoRoom
    <3> QED BY <3>1, <3>2
  <2>10. Cardinality(T \ {r}) = N - k
    <3>1. Cardinality(T \ {r}) = Cardinality(T) - 1
      BY <2>2, <2>4, FS_RemoveElement
    <3> QED BY <2>1, <3>1
  <2> QED BY <2>7, <2>9, <2>10
<1> HIDE DEF Idle
<1>7. \A k \in Nat : k <= N => Idle(g[k], k)
  <2> DEFINE U == {k \in Nat : k <= N => Idle(g[k], k)}
  <2>1. 0 \in U
    BY <1>5
  <2>2. ASSUME NEW k \in Nat, k \in U PROVE k + 1 \in U
    <3>1. SUFFICES ASSUME k + 1 <= N PROVE Idle(g[k + 1], k + 1)
      OBVIOUS
    <3>2. PICK m \in 1..N : m = k + 1 /\ m - 1 = k /\ k <= N
      BY <3>1
    <3>3. PICK y : y = g[k]
      OBVIOUS
    <3>4. Idle(y, m - 1)
      BY <2>2, <3>2, <3>3
    <3>5. Idle(TryRule(y), m)
      BY <1>6, <3>4
    <3>6. g[m] = TryRule(y)
      BY <1>4, <3>2, <3>3
    <3> QED BY <3>2, <3>5, <3>6
  <2> HIDE DEF U
  <2>3. Nat \subseteq U
    BY <2>1, <2>2, NatInd
  <2> QED BY <2>3 DEF U
<1>8. Idle(g[N], N)
  BY <1>7
<1>9. PICK T \in SUBSET S : g[N] = [w EXCEPT !.left = T] /\ Cardinality(T) = N - N
  BY <1>8 DEF Idle
<1>10. T = {}
  <2>1. IsFiniteSet(T) /\ Cardinality(T) = 0
    BY <1>1, <1>9, FS_Subset
  <2> QED BY <2>1, FS_EmptySet
<1>11. [w EXCEPT !.left = {}] = w
  BY DEF Filling
<1> QED BY <1>2, <1>3, <1>9, <1>10, <1>11 DEF RuleRound

(* Where the lines of a body end; none of them before its place.           *)
LEMMA LineEndsAre ==
  ASSUME NEW widths \in Seq(Nat)
  PROVE  /\ LineEnds(widths)[0] = 0
         /\ \A k \in 1..Len(widths) : LineEnds(widths)[k] = LineEnds(widths)[k - 1] + widths[k] + 1
         /\ \A k \in 0..Len(widths) : LineEnds(widths)[k] \in Nat /\ LineEnds(widths)[k] >= k
<1>1. PICK n \in Nat : n = Len(widths)
  OBVIOUS
<1>2. \A k \in 1..n : widths[k] \in Nat
  BY <1>1, ElementOfSeq
<1>3. PICK next : next = [x \in Nat \X Nat |-> IF x[2] \in 1..n THEN x[1] + widths[x[2]] + 1 ELSE x[1]]
  OBVIOUS
<1>4. \A x, k \in Nat : next[<<x, k>>] = IF k \in 1..n THEN x + widths[k] + 1 ELSE x
  BY <1>3
<1>5. next \in [Nat \X Nat -> Nat]
  <2>1. SUFFICES \A x, k \in Nat : next[<<x, k>>] \in Nat
    BY <1>3
  <2>2. TAKE x, k \in Nat
  <2>3. k \in 1..n => widths[k] \in Nat
    BY <1>2
  <2> QED BY <1>4, <2>3
<1>6. PICK f \in [0..n -> Nat] : IsIteration(f, 0, next, n)
  BY <1>5, Iterates
<1>7. \A k \in 0..n : f[k] = IF k = 0 THEN 0 ELSE f[k - 1] + widths[k] + 1
  <2>1. TAKE k \in 0..n
  <2>2. CASE k = 0
    BY <1>6, <2>2 DEF IsIteration
  <2>3. CASE k # 0
    <3>1. k \in 1..n /\ k - 1 \in 0..n /\ k \in Nat
      BY <2>3
    <3>2. f[k - 1] \in Nat
      BY <1>6, <3>1
    <3>3. f[k] = next[<<f[k - 1], k>>]
      BY <1>6, <3>1 DEF IsIteration
    <3>4. next[<<f[k - 1], k>>] = f[k - 1] + widths[k] + 1
      BY <1>4, <3>1, <3>2
    <3> QED BY <2>3, <3>3, <3>4
  <2> QED BY <2>2, <2>3
<1>8. f = [k \in 0..n |-> IF k = 0 THEN 0 ELSE f[k - 1] + widths[k] + 1]
  BY <1>6, <1>7
<1>9. PICK g : g = CHOOSE j : j = [k \in 0..n |-> IF k = 0 THEN 0 ELSE j[k - 1] + widths[k] + 1]
  OBVIOUS
<1>10. g = [k \in 0..n |-> IF k = 0 THEN 0 ELSE g[k - 1] + widths[k] + 1]
  BY <1>8, <1>9
<1>11. LineEnds(widths) = g
  BY <1>1, <1>9 DEF LineEnds
<1>12. \A k \in 0..n : g[k] = IF k = 0 THEN 0 ELSE g[k - 1] + widths[k] + 1
  BY <1>10
<1>13. g[0] = 0 /\ \A k \in 1..n : g[k] = g[k - 1] + widths[k] + 1
  <2>1. 0 \in 0..n /\ \A k \in 1..n : k \in 0..n /\ k # 0
    OBVIOUS
  <2> QED BY <1>12, <2>1
<1>14. \A k \in Nat : k <= n => g[k] \in Nat /\ g[k] >= k
  <2> DEFINE S == {k \in Nat : k <= n => g[k] \in Nat /\ g[k] >= k}
  <2>1. 0 \in S
    BY <1>13
  <2>2. ASSUME NEW k \in Nat, k \in S PROVE k + 1 \in S
    <3>1. SUFFICES ASSUME k + 1 <= n PROVE g[k + 1] \in Nat /\ g[k + 1] >= k + 1
      OBVIOUS
    <3>2. PICK m \in 1..n : m = k + 1 /\ m - 1 = k /\ k <= n
      BY <3>1
    <3>3. g[k] \in Nat /\ g[k] >= k
      BY <2>2, <3>2
    <3>4. widths[m] \in Nat
      BY <1>2
    <3>5. g[m] = g[m - 1] + widths[m] + 1
      BY <1>13
    <3> QED BY <3>2, <3>3, <3>4, <3>5
  <2> HIDE DEF S
  <2>3. Nat \subseteq S
    BY <2>1, <2>2, NatInd
  <2> QED BY <2>3 DEF S
<1> QED BY <1>1, <1>11, <1>13, <1>14

(* What is left of a body, and how long that is: at most what it may be,   *)
(* and more than nothing unless it is blank.                               *)
LEMMA KeptFits ==
  ASSUME NEW widths \in Seq(Nat), NEW tokens \in Nat
  PROVE  LET n == TruncateToTokenBudget(widths, tokens)
         IN  /\ n \in 0..Len(widths)
             /\ BodyChars(widths, n) \in Nat /\ BodyChars(widths, n) <= MaxBodyChars(tokens)
             /\ ~Blank(widths, n) => BodyChars(widths, n) > 0
<1>1. PICK N \in Nat : N = Len(widths)
  OBVIOUS
<1>2. PICK e : e = LineEnds(widths)
  OBVIOUS
<1>3. e[0] = 0 /\ \A k \in 0..N : e[k] \in Nat /\ e[k] >= k
  BY <1>1, <1>2, LineEndsAre
<1>4. PICK most \in Nat : most = MaxBodyChars(tokens)
  BY DEF MaxBodyChars, NameChars
<1>5. ASSUME NEW n \in 0..N
      PROVE  /\ BodyChars(widths, n) = IF n = 0 THEN 0 ELSE e[n] - 1
             /\ BodyChars(widths, n) \in Nat
             /\ ~Blank(widths, n) => BodyChars(widths, n) > 0
  <2>1. BodyChars(widths, n) = (IF n = 0 THEN 0 ELSE e[n] - 1) /\ (Blank(widths, n) <=> e[n] = n)
    BY <1>2 DEF BodyChars, Blank
  <2>2. e[n] \in Nat /\ e[n] >= n /\ e[0] = 0
    BY <1>3
  <2> QED BY <2>1, <2>2
<1>6. PICK n : n = TruncateToTokenBudget(widths, tokens)
  OBVIOUS
<1>7. CASE BodyChars(widths, N) <= most
  <2>1. n = N
    BY <1>1, <1>4, <1>6, <1>7 DEF TruncateToTokenBudget
  <2>2. n \in 0..N
    BY <2>1
  <2> QED BY <1>1, <1>4, <1>5, <1>6, <1>7, <2>1, <2>2
<1>8. CASE ~(BodyChars(widths, N) <= most)
  <2>1. N # 0 /\ e[N] > most
    <3>1. N \in 0..N
      OBVIOUS
    <3>2. /\ BodyChars(widths, N) = (IF N = 0 THEN 0 ELSE e[N] - 1)
          /\ BodyChars(widths, N) \in Nat /\ e[N] \in Nat
      BY <1>3, <1>5, <3>1
    <3> QED BY <1>8, <3>2
  <2>2. \E k \in 0..(N - 1) : e[k] <= most /\ e[k + 1] > most
    <3>1. SUFFICES ASSUME \A k \in 0..(N - 1) : ~(e[k] <= most /\ e[k + 1] > most)
                   PROVE  FALSE
      OBVIOUS
    <3> DEFINE S == {k \in Nat : k <= N => e[k] <= most}
    <3>2. 0 \in S
      BY <1>3
    <3>3. ASSUME NEW k \in Nat, k \in S PROVE k + 1 \in S
      <4>1. SUFFICES ASSUME k + 1 <= N PROVE e[k + 1] <= most
        OBVIOUS
      <4>2. k \in 0..(N - 1) /\ k + 1 \in 0..N /\ k <= N
        BY <4>1
      <4>3. e[k] <= most /\ ~(e[k] <= most /\ e[k + 1] > most) /\ e[k + 1] \in Nat
        BY <1>3, <3>1, <3>3, <4>2
      <4> QED BY <4>3
    <3> HIDE DEF S
    <3>4. Nat \subseteq S
      BY <3>2, <3>3, NatInd
    <3>5. e[N] <= most
      BY <3>4 DEF S
    <3>6. e[N] \in Nat
      BY <1>3
    <3> QED BY <2>1, <3>5, <3>6
  <2>3. n = CHOOSE k \in 0..(N - 1) : e[k] <= most /\ e[k + 1] > most
    BY <1>1, <1>2, <1>4, <1>6, <1>8 DEF TruncateToTokenBudget
  <2>4. n \in 0..(N - 1) /\ e[n] <= most
    BY <2>2, <2>3
  <2>5. n \in 0..N /\ e[n] \in Nat
    BY <1>3, <2>4
  <2>6. BodyChars(widths, n) <= most
    BY <1>5, <2>4, <2>5
  <2> QED BY <1>1, <1>4, <1>5, <1>6, <2>5, <2>6
<1> QED BY <1>7, <1>8

(* What a round of patterns keeps: tokens within the budget, and           *)
(* characters within the tokens but for one marker.                        *)
MarkChars == MarkerChars + 3
IsSpent(v, w) ==
  /\ v.budget = w.budget /\ v.rules = w.rules
  /\ v.budget \in Nat /\ v.used \in Nat /\ v.chars \in Nat
  /\ v.used <= v.budget /\ v.closed \in BOOLEAN
  /\ v.chars <= 4 * v.used + IF v.closed THEN MarkChars ELSE 0

(* A pattern that is added, whole or cut, keeps to that.                   *)
LEMMA PatternIsAdded ==
  ASSUME NEW R, NEW w, NEW y \in Filling(R), IsSpent(y, w), NEW widths \in Seq(Nat)
  PROVE  AddPattern(y, widths) \in Filling(R) /\ IsSpent(AddPattern(y, widths), w)
<1>1. /\ y.budget = w.budget /\ y.rules = w.rules
      /\ y.budget \in Nat /\ y.used \in Nat /\ y.chars \in Nat
      /\ y.used <= y.budget /\ y.closed \in BOOLEAN
      /\ y.chars <= 4 * y.used + IF y.closed THEN MarkChars ELSE 0
  BY DEF IsSpent
<1>2. PICK rest, b, u, c : rest = b - u /\ b = y.budget /\ u = y.used /\ c = y.chars
  OBVIOUS
<1>2a. rest \in Nat /\ b \in Nat /\ u \in Nat /\ c \in Nat /\ u <= b /\ b = u + rest
  BY <1>1, <1>2
<1>3. PICK kept \in 0..Len(widths) : kept = TruncateToTokenBudget(widths, rest)
  BY <1>2a, KeptFits
<1>4. PICK whole1 \in Nat : whole1 = BlockChars(widths, Len(widths))
  <2>1. Len(widths) \in 0..Len(widths) /\ LineEnds(widths)[0] = 0
    BY LineEndsAre
  <2>2. LineEnds(widths)[Len(widths)] \in Nat /\ LineEnds(widths)[Len(widths)] >= Len(widths)
    BY <2>1, LineEndsAre
  <2>3. BodyChars(widths, Len(widths)) \in Nat
    BY <2>2 DEF BodyChars
  <2> QED BY <2>3 DEF BlockChars, NameChars
<1>5. PICK cost \in Nat : cost = PatternCost(widths) /\ whole1 <= 4 * cost
  BY <1>4, TokensCover DEF PatternCost
<1>6. PICK v : v = AddPattern(y, widths)
  OBVIOUS
<1>7. v = IF y.closed THEN y
          ELSE IF cost <= rest THEN Spend(y, cost, whole1, {})
          ELSE IF rest * 5 < cost \/ Blank(widths, kept) THEN y
          ELSE [Spend(y, rest, BlockChars(widths, kept) + MarkerChars + 1, {}) EXCEPT !.closed = TRUE]
  BY <1>2, <1>3, <1>4, <1>5, <1>6 DEF AddPattern
<1>8. CASE v = y
  BY <1>6, <1>8
<1>9. CASE ~y.closed /\ cost <= rest
  <2>1. v = Spend(y, cost, whole1, {})
    BY <1>7, <1>9
  <2>2. /\ v.budget = y.budget /\ v.used = y.used + cost /\ v.chars = y.chars + whole1
        /\ v.rules = y.rules /\ v.closed = y.closed
    BY <2>1 DEF Spend
  <2>3. c <= 4 * u
    BY <1>1, <1>2, <1>2a, <1>9
  <2>4. /\ u + cost \in Nat /\ u + cost <= b /\ c + whole1 \in Nat
        /\ c + whole1 <= 4 * (u + cost)
    BY <1>2a, <1>5, <1>9, <2>3
  <2>5. v.chars <= 4 * v.used + IF v.closed THEN MarkChars ELSE 0
    BY <1>2, <1>9, <2>2, <2>4
  <2>6. v \in Filling(R)
    BY <1>2, <1>2a, <2>1, <2>4 DEF Filling, Spend
  <2>7. IsSpent(v, w)
    BY <1>1, <1>2, <1>9, <2>2, <2>4, <2>5 DEF IsSpent
  <2> QED BY <1>6, <2>6, <2>7
<1>10. CASE ~y.closed /\ ~(cost <= rest) /\ ~Blank(widths, kept) /\ v # y
  <2>1. PICK body \in Nat : /\ body = BodyChars(widths, kept) /\ body <= MaxBodyChars(rest)
                            /\ body > 0
    BY <1>3, <1>2a, <1>10, KeptFits
  <2>2. 8 + body <= 4 * rest
    BY <1>2a, <2>1 DEF MaxBodyChars, NameChars
  <2>3. PICK more \in Nat : more = BlockChars(widths, kept) + MarkerChars + 1 /\ more <= 4 * rest + MarkChars
    BY <1>2a, <2>1, <2>2 DEF BlockChars, NameChars, MarkerChars, MarkChars
  <2>4. v = [Spend(y, rest, more, {}) EXCEPT !.closed = TRUE]
    BY <1>7, <1>10, <2>3
  <2>5. /\ v.budget = y.budget /\ v.used = y.used + rest /\ v.chars = y.chars + more
        /\ v.rules = y.rules /\ v.closed = TRUE
    BY <2>4 DEF Spend
  <2>6. c <= 4 * u
    BY <1>1, <1>2, <1>2a, <1>10
  <2>7. /\ u + rest \in Nat /\ u + rest <= b /\ c + more \in Nat
        /\ c + more <= 4 * (u + rest) + MarkChars
    BY <1>2a, <2>3, <2>6 DEF MarkChars, MarkerChars
  <2>8. v.chars <= 4 * v.used + IF v.closed THEN MarkChars ELSE 0
    BY <1>2, <2>5, <2>7
  <2>9. v \in Filling(R)
    <3>1. PICK x : x = Spend(y, rest, more, {})
      OBVIOUS
    <3>2. x \in Filling(R)
      BY <1>2, <1>2a, <2>7, <3>1 DEF Filling, Spend
    <3> QED BY <2>4, <3>1, <3>2 DEF Filling
  <2>10. IsSpent(v, w)
    BY <1>1, <1>2, <2>5, <2>7, <2>8 DEF IsSpent
  <2> QED BY <1>6, <2>9, <2>10
<1> QED BY <1>7, <1>8, <1>9, <1>10

(* After a round of patterns.                                              *)
LEMMA PatternsAreAdded ==
  ASSUME NEW R, NEW w \in Filling(R), IsSpent(w, w), NEW patterns \in Seq(Seq(Nat))
  PROVE  PatternRound(w, patterns) \in Filling(R) /\ IsSpent(PatternRound(w, patterns), w)
<1>1. PICK n \in Nat : n = Len(patterns)
  OBVIOUS
<1>2. \A k \in 1..n : patterns[k] \in Seq(Nat)
  BY <1>1, ElementOfSeq
<1>3. PICK D : D = {x \in Filling(R) : IsSpent(x, w)}
  OBVIOUS
<1>4. w \in D
  BY <1>3
<1>5. \A x \in D, k \in 1..n : AddPattern(x, patterns[k]) \in D
  BY <1>2, <1>3, PatternIsAdded
<1>6. PICK next : next = [x \in D \X Nat |-> IF x[2] \in 1..n THEN AddPattern(x[1], patterns[x[2]])
                                              ELSE x[1]]
  OBVIOUS
<1>7. \A x \in D, k \in Nat : next[<<x, k>>] = IF k \in 1..n THEN AddPattern(x, patterns[k]) ELSE x
  BY <1>6
<1>8. next \in [D \X Nat -> D]
  <2>1. SUFFICES \A x \in D, k \in Nat : next[<<x, k>>] \in D
    BY <1>6
  <2> QED BY <1>5, <1>7
<1>9. PICK f \in [0..n -> D] : IsIteration(f, w, next, n)
  BY <1>4, <1>8, Iterates
<1>10. \A k \in 0..n : f[k] = IF k = 0 THEN w ELSE AddPattern(f[k - 1], patterns[k])
  <2>1. TAKE k \in 0..n
  <2>2. CASE k = 0
    BY <1>9, <2>2 DEF IsIteration
  <2>3. CASE k # 0
    <3>1. k \in 1..n /\ k - 1 \in 0..n /\ k \in Nat
      BY <2>3
    <3>2. f[k - 1] \in D
      BY <1>9, <3>1
    <3>3. f[k] = next[<<f[k - 1], k>>]
      BY <1>9, <3>1 DEF IsIteration
    <3>4. next[<<f[k - 1], k>>] = AddPattern(f[k - 1], patterns[k])
      BY <1>7, <3>1, <3>2
    <3> QED BY <2>3, <3>3, <3>4
  <2> QED BY <2>2, <2>3
<1>11. f = [k \in 0..n |-> IF k = 0 THEN w ELSE AddPattern(f[k - 1], patterns[k])]
  BY <1>9, <1>10
<1>12. PICK g : g = CHOOSE j : j = [k \in 0..n |-> IF k = 0 THEN w ELSE AddPattern(j[k - 1], patterns[k])]
  OBVIOUS
<1>13. g = [k \in 0..n |-> IF k = 0 THEN w ELSE AddPattern(g[k - 1], patterns[k])]
  BY <1>11, <1>12
<1>14. \A k \in 0..n : g[k] = IF k = 0 THEN w ELSE AddPattern(g[k - 1], patterns[k])
  BY <1>13
<1>15. g[0] = w /\ \A k \in 1..n : g[k] = AddPattern(g[k - 1], patterns[k])
  <2>1. 0 \in 0..n /\ \A k \in 1..n : k \in 0..n /\ k # 0
    OBVIOUS
  <2> QED BY <1>14, <2>1
<1>16. \A k \in Nat : k <= n => g[k] \in D
  <2> DEFINE S == {k \in Nat : k <= n => g[k] \in D}
  <2>1. 0 \in S
    BY <1>4, <1>15
  <2>2. ASSUME NEW k \in Nat, k \in S PROVE k + 1 \in S
    <3>1. SUFFICES ASSUME k + 1 <= n PROVE g[k + 1] \in D
      OBVIOUS
    <3>2. PICK m \in 1..n : m = k + 1 /\ m - 1 = k /\ k <= n
      BY <3>1
    <3>3. g[k] \in D
      BY <2>2, <3>2
    <3>4. g[m] = AddPattern(g[m - 1], patterns[m])
      BY <1>15
    <3> QED BY <1>5, <3>2, <3>3, <3>4
  <2> HIDE DEF S
  <2>3. Nat \subseteq S
    BY <2>1, <2>2, NatInd
  <2> QED BY <2>3 DEF S
<1>17. PatternRound(w, patterns) = g[n]
  BY <1>1, <1>12 DEF PatternRound, PatternRounds
<1> QED BY <1>3, <1>16, <1>17

(* A session that still fits keeps to the budget too.                      *)
LEMMA SessionIsAdded ==
  ASSUME NEW R, NEW w, NEW y \in Filling(R), IsSpent(y, w), material.session \in Nat
  PROVE  IsSpent(AddSession(y), w)
<1>1. /\ y.budget = w.budget /\ y.rules = w.rules
      /\ y.budget \in Nat /\ y.used \in Nat /\ y.chars \in Nat
      /\ y.used <= y.budget /\ y.closed \in BOOLEAN
      /\ y.chars <= 4 * y.used + IF y.closed THEN MarkChars ELSE 0
  BY DEF IsSpent
<1>2. PICK more \in Nat : more = SessionChars + 2
  BY DEF SessionChars
<1>3. PICK cost \in Nat : cost = SessionCost /\ more <= 4 * cost
  BY <1>2, TokensCover DEF SessionCost
<1>4. PICK b, u, c, mark : b = y.budget /\ u = y.used /\ c = y.chars
                           /\ mark = IF y.closed THEN MarkChars ELSE 0
  OBVIOUS
<1>5. mark \in Nat
  BY <1>1, <1>4 DEF MarkChars, MarkerChars
<1>6. b \in Nat /\ u \in Nat /\ c \in Nat /\ u <= b /\ c <= 4 * u + mark
  BY <1>1, <1>4
<1>7. PICK v : v = AddSession(y)
  OBVIOUS
<1>8. v = IF material.session > 0 /\ u + cost <= b THEN Spend(y, cost, more, {}) ELSE y
  BY <1>2, <1>3, <1>4, <1>7 DEF AddSession
<1>9. CASE u + cost <= b /\ v = Spend(y, cost, more, {})
  <2>1. /\ v.budget = b /\ v.used = u + cost /\ v.chars = c + more
        /\ v.rules = y.rules /\ v.closed = y.closed
    BY <1>4, <1>9 DEF Spend
  <2>2. u + cost \in Nat /\ c + more \in Nat /\ c + more <= 4 * (u + cost) + mark
    BY <1>3, <1>5, <1>6
  <2>3. v.chars <= 4 * v.used + mark /\ mark = IF v.closed THEN MarkChars ELSE 0
    BY <1>4, <2>1, <2>2
  <2> QED BY <1>1, <1>4, <1>6, <1>7, <1>9, <2>1, <2>2, <2>3 DEF IsSpent
<1>10. CASE v = y
  BY <1>7, <1>10
<1> QED BY <1>8, <1>9, <1>10

(* What headers are made of, and the numbers of their windows.             *)
NumberFacts ==
  /\ material \in Materials /\ numCtx \in Nat /\ trainedContextLengthCache \in Nat
  /\ trained \in TrainedLengths
  /\ clampWith \in [Builds -> Nat] /\ window \in [Builds -> Nat]

(* No task has a number yet.                                               *)
LEMMA NumbersStart == ASSUME BuilderAssumption, BuilderInit PROVE NumberFacts
BY DEF BuilderAssumption, BuilderInit, NumberFacts, Unknown

(* Where a window goes it stays a number.                                  *)
LEMMA UseKeepsNumbers ==
  ASSUME NumberFacts, NEW b \in Builds, NEW tokens \in Nat, UseWindow(b, tokens)
  PROVE  window' \in [Builds -> Nat]
<1>1. CASE buildStage[b] \in {"wire", "askWire"}
  BY <1>1 DEF UseWindow, NumberFacts
<1>2. CASE buildStage[b] \notin {"wire", "askWire"}
  BY <1>2 DEF UseWindow, NumberFacts
<1> QED BY <1>1, <1>2

(* Every length of context and every setting gives a number.               *)
LEMMA ResolvedIsNumber ==
  ASSUME BuilderAssumption
  PROVE  \A length, set \in Nat :
           Requested(set) \in Nat /\ ResolveEffectiveNumCtx(length, set) \in Nat
BY DEF BuilderAssumption, Requested, ResolveEffectiveNumCtx, AtLeast, AtMost

(* Every step keeps the numbers.                                           *)
LEMMA NumbersKeep ==
  ASSUME BuilderAssumption, NumberFacts, [BuilderNext]_builderVars
  PROVE  NumberFacts'
<1>1. TrainedLengths \subseteq Nat /\ NumCtxs \subseteq Nat /\ DefaultWindow \in Nat
  BY DEF BuilderAssumption
<1>2. /\ numCtx \in Nat /\ trainedContextLengthCache \in Nat /\ trained \in Nat
      /\ \A b \in Builds : clampWith[b] \in Nat
  BY <1>1 DEF NumberFacts
<1>3. \A length, set \in Nat :
        Requested(set) \in Nat /\ ResolveEffectiveNumCtx(length, set) \in Nat
  BY ResolvedIsNumber
<1>4. ASSUME NEW b \in Builds, Resolve(b) PROVE NumberFacts'
  <2>1. UNCHANGED <<material, numCtx, trained>>
    BY <1>4 DEF Resolve, worldVars
  <2>2. CASE NeedsNoLookup(b)
    <3>1. PICK tokens \in Nat : UseWindow(b, tokens)
      BY <1>1, <2>2 DEF NeedsNoLookup
    <3> QED BY <2>1, <2>2, <3>1, UseKeepsNumbers DEF NeedsNoLookup, NumberFacts
  <2>3. CASE ResolveKnown(b)
    <3>1. PICK tokens \in Nat : UseWindow(b, tokens)
      BY <1>2, <1>3, <2>3 DEF ResolveKnown, KnownLength
    <3> QED BY <2>1, <2>3, <3>1, UseKeepsNumbers DEF ResolveKnown, NumberFacts
  <2>4. CASE AskModel(b)
    BY <2>1, <2>4 DEF AskModel, NumberFacts
  <2>5. CASE LookupReturns(b)
    <3>1. PICK tokens \in Nat : UseWindow(b, tokens)
      BY <1>2, <1>3, <2>5 DEF LookupReturns
    <3>2. window' \in [Builds -> Nat]
      BY <3>1, UseKeepsNumbers
    <3>3. clampWith' = [clampWith EXCEPT ![b] = 0] /\ trainedContextLengthCache' = trained
      BY <2>5 DEF LookupReturns
    <3> QED BY <1>2, <2>1, <3>2, <3>3 DEF NumberFacts
  <2> QED BY <1>4, <2>2, <2>3, <2>4, <2>5 DEF Resolve
<1>5. ASSUME NEW b \in Builds, ModelUnreachable(b) PROVE NumberFacts'
  <2>1. PICK tokens \in Nat : UseWindow(b, tokens)
    BY <1>2, <1>3, <1>5 DEF ModelUnreachable
  <2>2. window' \in [Builds -> Nat]
    BY <2>1, UseKeepsNumbers
  <2>3. /\ clampWith' = [clampWith EXCEPT ![b] = 0]
        /\ UNCHANGED <<trained, numCtx, trainedContextLengthCache, material>>
    BY <1>5 DEF ModelUnreachable
  <2> QED BY <2>2, <2>3 DEF NumberFacts
<1>6. CASE ChangeSettings
  <2>1. UNCHANGED <<material, clampWith, window>>
    BY <1>6 DEF ChangeSettings
  <2>2. numCtx' \in Nat /\ trainedContextLengthCache' \in Nat /\ trained' \in TrainedLengths
    <3>1. /\ numCtx' \in NumCtxs \/ numCtx' = numCtx
          /\ trainedContextLengthCache' = 0 \/ trainedContextLengthCache' = trainedContextLengthCache
          /\ trained' \in TrainedLengths \/ trained' = trained
      BY <1>6 DEF ChangeSettings, Unknown
    <3>2. trained \in TrainedLengths
      BY DEF NumberFacts
    <3>3. numCtx' \in Nat
      BY <1>1, <1>2, <3>1
    <3>4. trainedContextLengthCache' \in Nat
      <4>1. 0 \in Nat
        OBVIOUS
      <4> QED BY <1>2, <3>1, <4>1
    <3> QED BY <3>1, <3>2, <3>3, <3>4
  <2> QED BY <2>1, <2>2 DEF NumberFacts
<1>7. ASSUME UNCHANGED <<material, numCtx, trained, trainedContextLengthCache, clampWith, window>>
      PROVE  NumberFacts'
  BY <1>7 DEF NumberFacts
<1>8. ASSUME NEW b \in Builds, BeginBuild(b) PROVE NumberFacts'
  BY <1>7, <1>8 DEF BeginBuild, worldVars, windowVars
<1>9. ASSUME NEW b \in Builds, LoadFiles(b) PROVE NumberFacts'
  BY <1>7, <1>9 DEF LoadFiles, worldVars, windowVars
<1>10. ASSUME NEW f \in Cached, EditFile(f) PROVE NumberFacts'
  BY <1>7, <1>10 DEF EditFile, windowVars
<1>11. CASE UNCHANGED builderVars
  BY <1>7, <1>11 DEF builderVars, worldVars, windowVars
<1> QED BY <1>4, <1>5, <1>6, <1>8, <1>9, <1>10, <1>11 DEF BuilderNext

(* Rules for the type of a task match its keywords, so they are selected.  *)
LEMMA FixesAreSelected ==
  \A hints : /\ Selected(hints) \subseteq material.rules
             /\ FixRules(hints) \subseteq Selected(hints)
<1>1. TAKE hints
<1>2. FixRules(hints) \subseteq Primary(hints) /\ Primary(hints) \subseteq material.rules
  BY DEF FixRules, Primary, Keywords
<1>3. Universal(hints) \subseteq material.rules
  BY DEF Universal
<1> QED BY <1>2, <1>3 DEF Selected

(* A header that is filled: with what, and how far.                        *)
LEMMA HeaderIs ==
  ASSUME BuilderAssumption, NumberFacts, FileFacts, NEW b \in Builds
  PROVE  /\ Fixes(b) = Preferences(b)
         /\ Preferences(b).budget = Budget(window[b])
         /\ Preferences(b).used = TokensOf(Preferences(b).rules)
         /\ \A r \in Selected(bodies[b]["hints"]) : NoRoom(Preferences(b), r)
         /\ IsSpent(Header(b), Preferences(b))
<1>1. PICK R : R = material.rules
  OBVIOUS
<1>2. /\ IsFiniteSet(R) /\ RulesCounted(R) /\ material.session \in Nat
      /\ material.bodies \in [1..(MaxChanges + 1) -> Seq(Nat)] /\ material.patterns \in Seq(Seq(Nat))
  BY <1>1 DEF NumberFacts, BuilderAssumption, IsMaterial, RulesCounted
<1>3. PICK w : w = EmptyRound(b)
  OBVIOUS
<1>4. w \in Filling(R) /\ IsFilled(w) /\ w.budget = Budget(window[b])
  <2>1. Budget(window[b]) \in Nat
    BY BudgetIs DEF NumberFacts
  <2>2. PICK most \in Nat : most = Budget(window[b])
    BY <2>1
  <2>3. w = [budget |-> most, used |-> 0, chars |-> 0, rules |-> {}, left |-> {}, closed |-> FALSE]
    BY <1>3, <2>2 DEF EmptyRound
  <2>4. TokensOf({}) = 0
    BY FS_EmptySet DEF TokensOf
  <2>5. w \in Filling(R) /\ w.budget = most
    BY <2>3 DEF Filling
  <2>6. IsFilled(w)
    BY <2>3, <2>4 DEF IsFilled
  <2> QED BY <2>2, <2>5, <2>6
<1>5. PICK hints : hints = bodies[b]["hints"]
  OBVIOUS
<1>6. PICK S, F : S = Selected(hints) /\ F = FixRules(hints)
  OBVIOUS
<1>7. S \in SUBSET R /\ F \in SUBSET R /\ F \subseteq S
  BY <1>1, <1>6, FixesAreSelected
<1>8. PICK p : p = RuleRound(w, S)
  OBVIOUS
<1>9. /\ p \in Filling(R) /\ IsFilled(p) /\ p.budget = w.budget /\ p.left = {}
      /\ \A r \in S : NoRoom(p, r)
  BY <1>2, <1>4, <1>7, <1>8, RoundIsOver
<1>10. Preferences(b) = p
  BY <1>3, <1>5, <1>6, <1>8 DEF Preferences
<1>11. Fixes(b) = p
  <2>1. \A r \in F : NoRoom(p, r)
    BY <1>7, <1>9
  <2>2. RuleRound(p, F) = p
    BY <1>2, <1>7, <1>9, <2>1, RoundIsIdle
  <2> QED BY <1>5, <1>6, <1>10, <2>2 DEF Fixes
<1>12. IsSpent(p, p)
  BY <1>9 DEF IsFilled, IsSpent, Filling
<1>13. Patterns(b) \in Seq(Seq(Nat))
  <2>1. bodies[b]["pattern"] \in 0..(MaxChanges + 1)
    BY DEF FileFacts, FileTypes, FileTimes, Cached
  <2>2. PICK own : own = IF bodies[b]["pattern"] = 0 THEN <<>>
                         ELSE <<material.bodies[bodies[b]["pattern"]]>>
    OBVIOUS
  <2>3. own \in Seq(Seq(Nat))
    <3>1. CASE bodies[b]["pattern"] = 0
      <4>1. <<>> \in Seq(Seq(Nat))
        OBVIOUS
      <4> QED BY <2>2, <3>1, <4>1
    <3>2. CASE bodies[b]["pattern"] # 0
      <4>1. PICK one \in Seq(Nat) : one = material.bodies[bodies[b]["pattern"]]
        <5>1. bodies[b]["pattern"] \in 1..(MaxChanges + 1)
          BY <2>1, <3>2
        <5> QED BY <1>2, <5>1
      <4>2. own = <<one>>
        BY <2>2, <3>2, <4>1
      <4> QED BY <4>2
    <3> QED BY <3>1, <3>2
  <2>4. own \o material.patterns \in Seq(Seq(Nat))
    BY <1>2, <2>3, ConcatProperties
  <2> QED BY <2>2, <2>4 DEF Patterns
<1>14. PICK q : q = PatternRound(p, Patterns(b))
  OBVIOUS
<1>15. q \in Filling(R) /\ IsSpent(q, p)
  BY <1>9, <1>12, <1>13, <1>14, PatternsAreAdded
<1>16. IsSpent(AddSession(q), p)
  BY <1>2, <1>15, SessionIsAdded
<1>17. Header(b) = AddSession(q)
  BY <1>11, <1>14 DEF Header
<1> QED BY <1>4, <1>5, <1>6, <1>9, <1>10, <1>11, <1>16, <1>17 DEF IsFilled

(* What headers are made of gives the three promises.                      *)
LEMMA HeadersFit == ASSUME BuilderAssumption, NumberFacts, FileFacts PROVE HeaderFits
<1>1. HeaderBounded
  <2>1. SUFFICES ASSUME NEW b \in Complete
                 PROVE  /\ Header(b).used <= Header(b).budget
                        /\ HeaderChars(Header(b)) <=
                             4 * Header(b).budget + TitleChars + 6 + MarkerChars + 3
    BY DEF HeaderBounded
  <2>2. PICK h : h = Header(b)
    OBVIOUS
  <2>3. IsSpent(h, Preferences(b))
    BY <2>2, HeaderIs DEF Complete
  <2>4. /\ h.budget \in Nat /\ h.used \in Nat /\ h.chars \in Nat /\ h.used <= h.budget
        /\ h.chars <= 4 * h.used + IF h.closed THEN MarkChars ELSE 0
    BY <2>3 DEF IsSpent
  <2>5. PICK most, u, c : most = h.budget /\ u = h.used /\ c = h.chars
    OBVIOUS
  <2>6. most \in Nat /\ u \in Nat /\ c \in Nat /\ u <= most /\ c <= 4 * u + 36
    BY <2>4, <2>5 DEF MarkChars, MarkerChars
  <2>7. 70 + c + 6 <= 4 * most + 70 + 6 + 33 + 3
    BY <2>6
  <2> QED BY <2>2, <2>4, <2>5, <2>7 DEF HeaderChars, TitleChars, MarkerChars
<1>2. NothingFitsAnyMore
  <2>1. SUFFICES ASSUME NEW b \in Complete,
                        NEW r \in Selected(bodies[b]["hints"]) \ Header(b).rules
                 PROVE  TokensOf(Header(b).rules) + RuleCost(r) > Budget(window[b])
    BY DEF NothingFitsAnyMore
  <2>2. PICK p : p = Preferences(b)
    OBVIOUS
  <2>3. /\ p.budget = Budget(window[b]) /\ p.used = TokensOf(p.rules)
        /\ NoRoom(p, r) /\ IsSpent(Header(b), p)
    BY <2>1, <2>2, HeaderIs DEF Complete
  <2>4. Header(b).rules = p.rules
    BY <2>3 DEF IsSpent
  <2> QED BY <2>1, <2>3, <2>4 DEF NoRoom
<1>3. FixRoundIsIdle
  BY HeaderIs DEF FixRoundIsIdle, Complete
<1> QED BY <1>1, <1>2, <1>3 DEF HeaderFits

(* For any rules, patterns, windows and budgets: a header keeps within its *)
(* share of the window, no rule is left out that would fit beside the      *)
(* others, and the round of fixes adds nothing (ContextBuilder.build).     *)
THEOREM HeadersAreFilled == BuilderInit /\ [][BuilderNext]_builderVars => []HeaderFits
<1> DEFINE IInv == NumberFacts /\ FileFacts
<1>1. BuilderInit => IInv
  BY BuilderAssumption, NumbersStart, FilesStart
<1>2. IInv /\ [BuilderNext]_builderVars => IInv'
  BY BuilderAssumption, NumbersKeep, FilesKeep
<1>3. IInv => HeaderFits
  BY BuilderAssumption, HeadersFit
<1> QED BY <1>1, <1>2, <1>3, PTL
=============================================================================
