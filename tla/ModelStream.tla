------------------------------ MODULE ModelStream ------------------------------
(***************************************************************************)
(* A model's answer as it comes over the network (OpenAiCompatibleAdapter, *)
(* OllamaClient): lines of JSON, cut into reads at any place, of which the *)
(* last may have no newline.  Tokens are passed on as they come; the calls *)
(* of tools are complete objects (Ollama) or fragments that are put        *)
(* together by their index (OpenAI).                                       *)
(***************************************************************************)
EXTENDS Naturals, Sequences, FiniteSets

CONSTANTS
  Bodies,    \* [Adapters -> sets of sequences of frames]
  MaxRead    \* bound: symbols in one read

Adapters == {"openai", "ollama"}
None == ""   \* nothing of this kind in a frame
(* A frame: a token, a call or a part of one; noise has neither.           *)
IsFrame(f) == DOMAIN f = {"token", "index", "name", "args"} /\ f.index \in Nat
IsBody(a) == a \in Seq({a[i] : i \in DOMAIN a}) /\ \A i \in DOMAIN a : IsFrame(a[i])
ASSUME StreamAssumption ==
  /\ MaxRead \in Nat \ {0}
  /\ \A p \in Adapters : \A a \in Bodies[p] : IsBody(a)

VARIABLES
  provider,
  lines,       \* the frames the provider sends
  terminated,  \* the last of them ends with a newline
  sent,        \* how many symbols were read
  carry,       \* the line that is not complete
  shown,       \* the tokens passed to onToken, which make the content
  toolCalls,   \* the calls put together so far, by index
  signalled,   \* the abort signal
  ending       \* how the request ended, "running" before

streamVars == <<provider, lines, terminated, sent, carry, shown, toolCalls, signalled, ending>>

(* A line is two symbols and a newline, so that a read can cut it.         *)
NewLine == 0
Line(i) == <<2 * i - 1, 2 * i>>
Symbol(p) == IF p % 3 = 0 THEN NewLine ELSE 2 * ((p - 1) \div 3) + ((p - 1) % 3) + 1
Length == 3 * Len(lines) - (IF terminated \/ lines = <<>> THEN 0 ELSE 1)

StreamInit ==
  /\ provider \in Adapters /\ lines \in Bodies[provider] /\ terminated \in BOOLEAN
  /\ sent = 0 /\ carry = <<>> /\ shown = <<>> /\ toolCalls = [i \in {} |-> None]
  /\ signalled = FALSE /\ ending = "running"

-----------------------------------------------------------------------------
(* A fragment of a call: the name replaces, the arguments are appended.    *)
(* Mutant of Fragment: they replace as well.                               *)
LastArgs(call, f) ==
  [name |-> IF f.name = None THEN call.name ELSE f.name,
   args |-> IF f.args = None THEN call.args ELSE <<f.args>>]

Fragment(call, f) ==
  [name |-> IF f.name = None THEN call.name ELSE f.name,
   args |-> IF f.args = None THEN call.args ELSE Append(call.args, f.args)]

NewCall == [name |-> None, args |-> <<>>]
At(calls, i) == IF i \in DOMAIN calls THEN calls[i] ELSE NewCall
Put(calls, i, call) == [j \in DOMAIN calls \cup {i} |-> IF j = i THEN call ELSE calls[j]]

(* ingestToolCallChunk, and ingestChunk of the Ollama client, which takes  *)
(* a call as it is and leaves out one without a name.                      *)
TakesCall(f) == f.index # 0 /\ (provider = "ollama" => f.name # None)
WithCall(calls, f) ==
  IF ~TakesCall(f) THEN calls
  ELSE LET i == IF provider = "openai" THEN f.index ELSE Cardinality(DOMAIN calls) + 1
       IN Put(calls, i, Fragment(At(calls, i), f))
Ingest(got, f) ==
  [carry |-> got.carry,
   shown |-> IF f.token = None THEN got.shown ELSE Append(got.shown, f.token),
   calls |-> WithCall(got.calls, f)]

(* A line that does not parse is skipped.                                  *)
IngestLine(got, body) ==
  IF \E i \in 1..Len(lines) : body = Line(i)
  THEN Ingest(got, lines[CHOOSE i \in 1..Len(lines) : body = Line(i)])
  ELSE got

(* parseSseFrames and parseNdjsonLines: every complete line is ingested,   *)
(* the rest is carried.  Mutant of Feed: the rest is dropped.              *)
TakeSymbol(got, s) ==
  IF s = NewLine THEN [IngestLine(got, got.carry) EXCEPT !.carry = <<>>]
  ELSE [got EXCEPT !.carry = Append(@, s)]
Fed(got, symbols) ==
  LET fed[n \in 0..Len(symbols)] == IF n = 0 THEN got ELSE TakeSymbol(fed[n - 1], symbols[n])
  IN  fed[Len(symbols)]
FeedWithoutCarry(got, symbols) == [Fed(got, symbols) EXCEPT !.carry = <<>>]

Feed(got, symbols) == Fed(got, symbols)

Got == [carry |-> carry, shown |-> shown, calls |-> toolCalls]
Becomes(got) == carry' = got.carry /\ shown' = got.shown /\ toolCalls' = got.calls

-----------------------------------------------------------------------------
(* One read of the body, after a look at the signal.                       *)
ReadSome ==
  /\ ending = "running" /\ ~signalled /\ sent < Length
  /\ \E n \in 1..MaxRead :
       /\ sent + n <= Length /\ sent' = sent + n
       /\ Becomes(Feed(Got, [k \in 1..n |-> Symbol(sent + k)]))
  /\ UNCHANGED <<provider, lines, terminated, signalled, ending>>

(* The body ends, at its end or because the provider went away: only the   *)
(* Ollama client takes a last line without a newline.                      *)
BodyEnds ==
  /\ ending = "running" /\ ~signalled
  /\ Becomes(IF provider = "ollama" THEN [IngestLine(Got, carry) EXCEPT !.carry = <<>>] ELSE Got)
  /\ ending' = "done"
  /\ UNCHANGED <<provider, lines, terminated, sent, signalled>>

(* The connection breaks, or the status is an error.                       *)
BodyBreaks ==
  /\ ending = "running"
  /\ ending' = IF signalled THEN "aborted" ELSE "failed"
  /\ UNCHANGED <<provider, lines, terminated, sent, carry, shown, toolCalls, signalled>>
AbortStream ==
  /\ ending = "running" /\ ~signalled /\ signalled' = TRUE
  /\ UNCHANGED <<provider, lines, terminated, sent, carry, shown, toolCalls, ending>>

StreamNext == ReadSome \/ BodyEnds \/ BodyBreaks \/ AbortStream
StreamSpec == StreamInit /\ [][StreamNext]_streamVars

-----------------------------------------------------------------------------
(* The types of the variables of the answer.                               *)
StreamTypeOK ==
  /\ sent \in 0..Length /\ Len(carry) <= 2 /\ DOMAIN toolCalls \subseteq Nat
  /\ ending \in {"running", "done", "failed", "aborted"} /\ signalled \in BOOLEAN

(* How many lines have been taken.                                         *)
LastWithoutNewLine == provider = "ollama" /\ ending = "done" /\ sent % 3 = 2
Taken == sent \div 3 + (IF LastWithoutNewLine THEN 1 ELSE 0)

(* The values are those that a field has in the lines at these places      *)
(* among the first n, each once and in order.                              *)
Lists(values, n, places, field) ==
  \E m \in 0..n : \E at \in [1..m -> places] :
    /\ DOMAIN values = 1..m
    /\ \A p \in places : \E i \in 1..m : at[i] = p
    /\ \A i, j \in 1..m : i < j => at[i] < at[j]
    /\ \A i \in 1..m : values[i] = lines[at[i]][field]

WithToken(n) == {k \in 1..n : lines[k].token # None}
WithArgs(n, i) == {k \in 1..n : lines[k].index = i /\ lines[k].args # None}
WithName(n) == {k \in 1..n : lines[k].index # 0 /\ lines[k].name # None}

(* Wherever the reads cut the answer, what was made of it is what the      *)
(* whole of its lines says: the tokens in order, of every index all the    *)
(* arguments in order (openAiCompatibleAdapter.ts:592, client.ts:432).     *)
SaysAll(got, n) ==
  /\ Lists(got.shown, n, WithToken(n), "token")
  /\ provider = "openai" =>
       /\ DOMAIN got.calls = {lines[k].index : k \in 1..n} \ {0}
       /\ \A i \in DOMAIN got.calls : Lists(got.calls[i].args, n, WithArgs(n, i), "args")
  /\ provider = "ollama" =>
       Lists([i \in DOMAIN got.calls |-> got.calls[i].name], n, WithName(n), "name")
CutsDoNotMatter == SaysAll(Got, Taken)

(* What holds of a model's answer at every moment.                         *)
StreamInv == StreamTypeOK /\ CutsDoNotMatter
=============================================================================
