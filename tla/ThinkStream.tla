----------------------------- MODULE ThinkStream ------------------------------
(***************************************************************************)
(* The reasoning of a model on its way to the terminal.  The server scans  *)
(* the chunks of a response for the tags around reasoning, which may be    *)
(* split anywhere (createThinkTagScanner), and sends what is between them  *)
(* in think frames (createThinkFrameEmitter); the client shows a stream    *)
(* live and commits it to the scrollback, in parts when a plan or an error *)
(* has to appear below it (taskStream.ts).                                 *)
(***************************************************************************)
EXTENDS Naturals, Sequences, FiniteSets, SequencesExt

CONSTANTS
  Texts,       \* responses, sequences of symbols
  OpenTag,     \* a pair of tags, in the symbols of a response
  CloseTag,
  MaxChunk,    \* bound: symbols in a chunk
  Coalesce,    \* coalesceChars
  MaxCommits   \* bound: plans and errors while a stream is live

Symbols == UNION {ToSet(t) : t \in Texts \cup {OpenTag, CloseTag}}
ASSUME ThinkAssumption ==
  /\ Texts \cup {OpenTag, CloseTag} \subseteq Seq(Symbols)
  /\ OpenTag # <<>> /\ CloseTag # <<>>
  /\ MaxChunk \in Nat /\ Coalesce \in Nat \ {0} /\ MaxCommits \in Nat

VARIABLES
  agent,       \* emitter: the agent's turn, or a subagent's
  text,        \* the response
  at,          \* symbols of it that arrived
  buffer,      \* scanner: held back, it may be part of a tag
  inside,      \* scanner: between the tags
  pending,     \* emitter: not sent yet
  live,        \* emitter: the stream has an id
  wire,        \* frames the client has not handled
  entry,       \* client: text of the open stream and how much of it is committed
  shown,       \* scrollback
  commits,     \* parts committed early
  finished     \* the response ended

thinkVars ==
  <<agent, text, at, buffer, inside, pending, live, wire, entry, shown, commits, finished>>
NoEntry == [open |-> FALSE, got |-> <<>>, committed |-> 0]
NoText == <<>>

ThinkInit ==
  /\ agent \in BOOLEAN /\ text \in Texts /\ at = 0
  /\ buffer = <<>> /\ inside = FALSE /\ pending = <<>> /\ live = FALSE
  /\ wire = <<>> /\ entry = NoEntry /\ shown = <<>> /\ commits = 0 /\ finished = FALSE

-----------------------------------------------------------------------------
(* The first place of a tag in a text, or 0.                               *)
IsAt(t, tag, i) == i + Len(tag) - 1 <= Len(t) /\ SubSeq(t, i, i + Len(tag) - 1) = tag
Find(t, tag) ==
  IF \E i \in 1..Len(t) : IsAt(t, tag, i)
  THEN CHOOSE i \in 1..Len(t) : IsAt(t, tag, i) /\ \A j \in 1..(i - 1) : ~IsAt(t, tag, j)
  ELSE 0
After(t, tag, i) == SubSeq(t, i + Len(tag), Len(t))

(* The longest end of a text that a tag may begin with.  Mutant: none.     *)
HoldNothing(t, tag) == 0

Held(t, tag) ==
  CHOOSE n \in 0..Len(t) :
    /\ n < Len(tag) /\ IsPrefix(SubSeq(t, Len(t) - n + 1, Len(t)), tag)
    /\ \A m \in (n + 1)..Len(t) :
         m < Len(tag) => ~IsPrefix(SubSeq(t, Len(t) - m + 1, Len(t)), tag)

Ending(t, n) == SubSeq(t, Len(t) - n + 1, Len(t))

(* One round of push: up to the next tag; and the rounds that take a text, *)
(* each of which finds a tag or changes nothing any more.                  *)
Tag(in) == IF in THEN CloseTag ELSE OpenTag
ScanFrom(t, in) == [rest |-> t, inside |-> in, out |-> <<>>]
ScanStep(s) ==
  LET i == Find(s.rest, Tag(s.inside))
  IN  IF i = 0 THEN s
      ELSE [rest |-> After(s.rest, Tag(s.inside), i), inside |-> ~s.inside,
            out |-> IF s.inside THEN s.out \o SubSeq(s.rest, 1, i - 1) ELSE s.out]
Scans(s, n) ==
  LET scans[k \in 0..n] == IF k = 0 THEN s ELSE ScanStep(scans[k - 1]) IN scans
Scan(s) == Scans(s, Len(s.rest))[Len(s.rest)]

(* push: the state after the buffer was scanned and what it gave out.      *)
Kept(s) == Held(s.rest, Tag(s.inside))
Push(t, in) ==
  LET s == Scan(ScanFrom(t, in))
      free == SubSeq(s.rest, 1, Len(s.rest) - Kept(s))
  IN  [buffer |-> Ending(s.rest, Kept(s)), inside |-> s.inside,
       out |-> IF s.inside THEN s.out \o free ELSE s.out]

(* open: the frame that starts a stream is sent with its first delta.      *)
Opened(w) == IF live THEN w ELSE Append(w, [kind |-> "start"])
Delta(t) == [kind |-> "delta", text |-> t]
End(t) == [kind |-> "end", text |-> t]

ChunkArrives(n) ==
  /\ ~finished /\ at + n <= Len(text)
  /\ LET pushed == Push(buffer \o SubSeq(text, at + 1, at + n), inside)
         p == pending \o pushed.out
     IN /\ buffer' = pushed.buffer /\ inside' = pushed.inside
        /\ IF Len(p) >= Coalesce
           THEN wire' = Append(Opened(wire), Delta(p)) /\ live' = TRUE /\ pending' = <<>>
           ELSE pending' = p /\ UNCHANGED <<wire, live>>
  /\ at' = at + n
  /\ UNCHANGED <<agent, text, entry, shown, commits, finished>>

(* extractThinking: the first block of a whole response, if it is closed.  *)
FirstBlock(t) ==
  LET s == ScanStep(ScanStep(ScanFrom(t, FALSE))) IN IF s.inside THEN NoText ELSE s.out

(* flush and finish: a turn of the agent ends its stream without a text, a *)
(* subagent's with the first block of the response, if there is one. An    *)
(* aborted response ends early, without a text.                            *)
Flushed == pending \o (IF inside THEN buffer ELSE <<>>)
ResponseEnds ==
  /\ ~finished
  /\ \E final \in {NoText, FirstBlock(text)} :
       /\ final # NoText => at = Len(text) /\ ~agent
       /\ LET begun == live \/ Flushed # <<>> \/ final # NoText
              sent == IF Flushed = <<>> THEN <<>> ELSE <<Delta(Flushed)>>
          IN wire' = IF begun THEN Opened(wire) \o sent \o <<End(final)>> ELSE wire
  /\ finished' = TRUE
  /\ buffer' = <<>> /\ inside' = FALSE /\ pending' = <<>> /\ live' = FALSE
  /\ UNCHANGED <<agent, text, at, entry, shown, commits>>

-----------------------------------------------------------------------------
(* commitThinkStream: what is not in the scrollback yet; a stream that was *)
(* never committed may use the final text.                                 *)
Uncommitted == SubSeq(entry.got, entry.committed + 1, Len(entry.got))
Rest(final) ==
  IF entry.committed > 0 \/ final = NoText THEN Uncommitted ELSE final

HandleFrame ==
  /\ wire # <<>>
  /\ wire' = Tail(wire)
  /\ LET f == Head(wire) IN
     CASE f.kind = "start" -> entry' = [NoEntry EXCEPT !.open = TRUE] /\ shown' = shown
       [] f.kind = "delta" -> entry' = [entry EXCEPT !.got = @ \o f.text] /\ shown' = shown
       [] OTHER -> entry' = NoEntry /\ shown' = shown \o Rest(f.text)
  /\ UNCHANGED <<agent, text, at, buffer, inside, pending, live, commits, finished>>

(* A plan or an error: commitLiveThinks.  Mutant: the length is not kept.  *)
ForgetsLength == 0

CommittedLength == Len(entry.got)

CommitLiveThinks ==
  /\ entry.open /\ commits < MaxCommits
  /\ shown' = shown \o Uncommitted
  /\ entry' = [entry EXCEPT !.committed = CommittedLength]
  /\ commits' = commits + 1
  /\ UNCHANGED <<agent, text, at, buffer, inside, pending, live, wire, finished>>

ThinkNext ==
  (\E n \in 1..MaxChunk : ChunkArrives(n)) \/ ResponseEnds \/ HandleFrame \/ CommitLiveThinks
ThinkSpec == ThinkInit /\ [][ThinkNext]_thinkVars

-----------------------------------------------------------------------------
(* The types of the variables of the stream.                               *)
ThinkTypeOK ==
  /\ text \in Texts /\ at \in 0..Len(text) /\ commits \in 0..MaxCommits
  /\ {agent, inside, live, finished, entry.open} \subseteq BOOLEAN
  /\ entry.committed \in 0..Len(entry.got)
  /\ \A i \in 1..Len(wire) : wire[i].kind \in {"start", "delta", "end"}

(* What the scanner takes for reasoning in a whole response.               *)
Between(t) ==
  LET s == Scan(ScanFrom(t, FALSE)) IN IF s.inside THEN s.out \o s.rest ELSE s.out

(* However the response was cut into chunks, and whenever parts of it were *)
(* committed early, the scrollback ends up with exactly the text between   *)
(* the tags, each piece once (thinkStream.ts:113, taskStream.ts:142). Only *)
(* of a subagent's response no more than the first block may be left: the  *)
(* end of its stream brings that, and takes the place of what was streamed.*)
ReasoningShownOnce ==
  finished /\ wire = <<>> =>
    \/ shown = Between(SubSeq(text, 1, at))
    \/ ~agent /\ at = Len(text) /\ shown = FirstBlock(text)

(* What is shown before the end is a beginning of that text: no piece of a *)
(* tag ever flashes on the screen.                                         *)
NoTagShown ==
  IsPrefix(shown \o Uncommitted, Between(SubSeq(text, 1, at)))

(* The frames of a stream come as the client expects them: a start, deltas,*)
(* an end.                                                                 *)
FramesWellFormed ==
  LET opened == entry.open IN
  \A i \in 1..Len(wire) :
    LET before == IF i = 1 THEN opened ELSE wire[i - 1].kind # "end"
    IN (wire[i].kind = "start") = ~before

(* What holds of the reasoning on its way at every moment.                 *)
ReasoningInv == ThinkTypeOK /\ ReasoningShownOnce /\ NoTagShown /\ FramesWellFormed
=============================================================================
