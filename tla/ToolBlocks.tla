------------------------------ MODULE ToolBlocks ------------------------------
(***************************************************************************)
(* What the server takes a model's text for if the model has no calls of   *)
(* its own format (orchestration/toolProtocol.ts).  A call is a block      *)
(* "<<TOOL>>{...}<<END>>" of JSON.  Values a model did not escape break    *)
(* the JSON; such a block is read by the positions of its fields.  A       *)
(* subagent that only names a read in its thoughts gets that read, if the  *)
(* file is clear.                                                          *)
(*                                                                         *)
(* A text is a sequence of tokens: "open" and "close" for the marks of a   *)
(* block, "tool" for its first field, "path:" and "content:" for the name  *)
(* of a field and the quote its value begins with, "q" for a quote, and    *)
(* "comma", "brace", "c" for what they say.  Escapes, and the Markdown     *)
(* fences that are taken off a value read by position, are left out.       *)
(***************************************************************************)
EXTENDS Naturals, Sequences, FiniteSets, SequencesExt

CONSTANTS
  TextCalls,     \* the calls a model may mean: the first of a text
  LastCall,      \* one more, at the end of the text
  Words,         \* what thoughts are made of
  NamesFile, HasSlash,   \* words with an extension, with a slash
  OutsideOrTool, \* absolute ones, those with "..", the names of tools
  MaxWords

(* Of a tame call no value names a field or holds the mark that closes a   *)
(* block; the last call of a text is one.                                  *)
FieldMarks == {"path:", "content:"}
TextTokens == FieldMarks \cup {"open", "tool", "q", "comma", "brace", "close", "c"}
Tame(call) ==
  \A value \in {call.path, call.content} : ToSet(value) \cap (FieldMarks \cup {"close"}) = {}
ASSUME TextAssumption ==
  /\ TextCalls \cup {LastCall} \subseteq
       [path : Seq(TextTokens), content : Seq(TextTokens), pathFirst : BOOLEAN]
  /\ Tame(LastCall) /\ LastCall.path # <<>>

VARIABLES
  meant,     \* the calls the model means
  text,
  cursor,    \* how far the blocks have been read
  found,     \* the calls they gave
  malformed, \* a block gave none
  heard,     \* what the text is taken for
  onLine, inBlock   \* words behind "action: read_file", and in all of the thoughts

textVars == <<meant, text, cursor, found, malformed, heard, onLine, inBlock>>

(* The text of a call, its fields in the order the model likes.            *)
Block(call) ==
  LET path == <<"path:">> \o call.path \o <<"q">>
      content == <<"content:">> \o call.content \o <<"q">>
  IN  <<"open", "tool">>
        \o (IF call.pathFirst THEN path \o <<"comma">> \o content
            ELSE content \o <<"comma">> \o path)
        \o <<"brace", "close">>

TextInit ==
  /\ \E call \in TextCalls : meant = <<call, LastCall>>
  /\ text = Block(meant[1]) \o <<"c">> \o Block(meant[2])
  /\ cursor = 1
  /\ found = <<>> /\ malformed = FALSE /\ heard = "nothing"
  /\ onLine = <<>> /\ inBlock = {}

-----------------------------------------------------------------------------
NoCall == [path |-> <<>>, content |-> <<>>]

(* validateRequiredFields: only the content may be empty.                  *)
Valid(args) ==
  IF DOMAIN args = {"path", "content"} /\ args.path # <<>> THEN args ELSE NoCall

SetField(args, mark, value) ==
  LET field == IF mark = "path:" THEN "path" ELSE "content"
  IN  [f \in DOMAIN args \cup {field} |-> IF f = field THEN value ELSE args[f]]
NoArgs == [f \in {} |-> <<>>]

(* JSON.parse of a body behind its first field.                            *)
JsonAt(at, mark, value, args) == [at |-> at, mark |-> mark, value |-> value, args |-> args]
JsonStep(state, token) ==
  CASE state.at = "name" /\ token \in FieldMarks -> JsonAt("value", token, <<>>, state.args)
    [] state.at = "value" /\ token = "q" ->
         JsonAt("behind", state.mark, <<>>, SetField(state.args, state.mark, state.value))
    [] state.at = "value" /\ token \notin FieldMarks \cup {"q"} ->
         [state EXCEPT !.value = Append(@, token)]
    [] state.at = "behind" /\ token = "comma" -> [state EXCEPT !.at = "name"]
    [] state.at = "behind" /\ token = "brace" -> [state EXCEPT !.at = "end"]
    [] OTHER -> [state EXCEPT !.at = "broken"]
Jsons(body) ==
  LET json[n \in 1..Len(body)] ==
        IF n = 1 THEN JsonAt("name", "path:", <<>>, NoArgs)
        ELSE JsonStep(json[n - 1], body[n])
  IN  json
Json(body) == Jsons(body)[Len(body)]

Where(body, mark) == {i \in DOMAIN body : body[i] = mark}
FirstOf(S) == CHOOSE i \in S : \A j \in S : i <= j

(* recoverMalformedToolCall: a field is where its name is first.           *)
MarkOf(body, mark) == FirstOf(Where(body, mark))

(* Mutant: a value runs up to the next field's name.                       *)
WithComma(raw) == raw

(* The quote and comma that end a value before another field; those in it  *)
(* stay.                                                                   *)
WithoutComma(raw) ==
  LET n == Len(raw)
  IN  IF n > 1 /\ raw[n - 1] = "q" /\ raw[n] = "comma" THEN SubSeq(raw, 1, n - 2) ELSE raw

(* The last value ends with the last quote, which only a brace may follow. *)
LastQuote(raw) ==
  {n \in {Len(raw), Len(raw) - 1} \cap DOMAIN raw :
     raw[n] = "q" /\ (n < Len(raw) => raw[Len(raw)] = "brace")}

ByPosition(body) ==
  LET marks == {m \in FieldMarks : Where(body, m) # {}}
      Behind(m) == {MarkOf(body, k) : k \in marks} \cap (MarkOf(body, m) + 1)..Len(body)
      Raw(m) == SubSeq(body, MarkOf(body, m) + 1,
                       IF Behind(m) = {} THEN Len(body) ELSE FirstOf(Behind(m)) - 1)
      Value(m) == IF Behind(m) # {} THEN WithoutComma(Raw(m))
                  ELSE SubSeq(Raw(m), 1, FirstOf(LastQuote(Raw(m))) - 1)
  IN  IF marks # FieldMarks \/ \E m \in marks : Behind(m) = {} /\ LastQuote(Raw(m)) = {}
      THEN NoCall
      ELSE Valid([path |-> Value("path:"), content |-> Value("content:")])

(* parseAgentToolCall: by position only if it is not JSON.                 *)
CallOf(body) ==
  IF body = <<>> \/ Head(body) # "tool" THEN NoCall
  ELSE IF Json(body).at = "end" THEN Valid(Json(body).args) ELSE ByPosition(body)

(* parseAllToolCalls: from a mark that opens to the next one that closes,  *)
(* whatever is between them.                                               *)
OpenMarks == {i \in Where(text, "open") : i >= cursor}
CloseMarks == {i \in Where(text, "close") : OpenMarks # {} /\ i > FirstOf(OpenMarks)}

ReadBlock ==
  LET call == CallOf(SubSeq(text, FirstOf(OpenMarks) + 1, FirstOf(CloseMarks) - 1)) IN
  /\ heard = "nothing" /\ CloseMarks # {}
  /\ cursor' = FirstOf(CloseMarks) + 1
  /\ IF call = NoCall THEN malformed' = TRUE /\ UNCHANGED found
     ELSE found' = Append(found, call) /\ UNCHANGED malformed
  /\ UNCHANGED <<meant, text, heard, onLine, inBlock>>

(* runToolCallLoop runs what was found; only if that is nothing does it    *)
(* tell the model of a malformed block, or take the text for an answer.    *)
TakeText ==
  /\ heard = "nothing" /\ CloseMarks = {}
  /\ heard' = CASE found # <<>> -> "calls"
                [] found = <<>> /\ malformed -> "malformed"
                [] OTHER -> "answer"
  /\ UNCHANGED <<meant, text, cursor, found, malformed, onLine, inBlock>>

-----------------------------------------------------------------------------
(* isPlausiblePathToken: on the action's line a slash is enough.           *)
PlausibleInBlock(w) == w \in NamesFile \ OutsideOrTool
PlausibleOnLine(w) == w \in (NamesFile \cup HasSlash) \ OutsideOrTool

NoTarget == "none"

(* Mutant: any of the files that are named.                                *)
AnyNamed(words) ==
  IF \E w \in words : PlausibleInBlock(w) THEN CHOOSE w \in words : PlausibleInBlock(w)
  ELSE NoTarget

(* findUnambiguousTargetInBlock.                                           *)
OnlyNamed(words) ==
  LET named == {w \in words : PlausibleInBlock(w)}
  IN  IF Cardinality(named) = 1 THEN CHOOSE w \in named : TRUE ELSE NoTarget

(* recoverToolCallFromThink: the first on the line, or else the only one.  *)
Target(line, words) ==
  LET named == SelectSeq(line, PlausibleOnLine)
  IN  IF named # <<>> THEN Head(named) ELSE OnlyNamed(words)

Think ==
  /\ heard # "nothing" /\ meant[1] = LastCall
  /\ \E w \in Words :
       \/ Len(onLine) + Cardinality(inBlock) < MaxWords /\ inBlock' = inBlock \cup {w}
            /\ UNCHANGED onLine
       \/ inBlock = {} /\ Len(onLine) < MaxWords /\ onLine' = Append(onLine, w)
            /\ UNCHANGED inBlock
  /\ UNCHANGED <<meant, text, cursor, found, malformed, heard>>

AllWords == ToSet(onLine) \cup inBlock

TextStep == ReadBlock \/ TakeText
TextNext == TextStep \/ Think

-----------------------------------------------------------------------------
Asked(call) == [path |-> call.path, content |-> call.content]

(* "Embedded quotes, newlines, and fences no longer break parsing": a call *)
(* whose values neither name a field nor hold the closing mark is found as *)
(* it was meant, whatever quotes, commas and braces are in them.           *)
FoundAsMeant ==
  heard # "nothing" /\ Tame(meant[1]) /\ meant[1].path # <<>> =>
    found = <<Asked(meant[1]), Asked(meant[2])>> /\ ~malformed

(* Whatever a block was, one behind it is read as if it stood alone.       *)
LaterBlockIsRead ==
  heard # "nothing" => found # <<>> /\ found[Len(found)] = Asked(meant[2])

(* More words never turn a guess into another one ("guessing wrong is      *)
(* worse than returning null"): they can only make it unclear.             *)
GuessIsStable ==
  \A w \in Words :
    Target(onLine, AllWords) # NoTarget =>
      Target(onLine, AllWords \cup {w}) \in {Target(onLine, AllWords), NoTarget}

TextInv == FoundAsMeant /\ LaterBlockIsRead /\ GuessIsStable
=============================================================================
