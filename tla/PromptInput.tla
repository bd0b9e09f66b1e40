----------------------------- MODULE PromptInput -----------------------------
(***************************************************************************)
(* How several prompts in a row read one standard input: the server's      *)
(* passphrase, password and port, and the client's passphrase, wizard and  *)
(* repair prompts, which have an implementation each with the same text.   *)
(* From a pipe the input arrives cut into chunks of any length, a chunk    *)
(* may hold the answers to several prompts, and what one prompt leaves     *)
(* waits in a buffer of the module.  On a terminal each prompt reads keys  *)
(* of its own and drops what follows Enter in the same chunk.              *)
(*                                                                         *)
(* A key is a letter, a space, the end of a line, the rubout, or one half  *)
(* ("h1", "h2") of a character of two bytes.                               *)
(***************************************************************************)
EXTENDS Naturals, Sequences, FiniteSets, SequencesExt

CONSTANTS
  Typings,   \* the inputs: [tty |-> BOOLEAN, chunks |-> a sequence of chunks]
  MaxPrompts \* how many prompts are asked in a row

ASSUME PromptAssumption ==
  MaxPrompts \in Nat /\ Typings \subseteq [tty : BOOLEAN, chunks : Seq(Seq(STRING))]

VARIABLES
  typing,       \* the input of this run
  arriving,     \* the chunks that have not been read
  pendingInput, \* what was read and answers no prompt yet
  stdinEnded,   \* the end of a pipe has been seen
  listening,    \* a prompt waits for input
  given,        \* the answers so far
  refused       \* a prompt found no input left

promptVars == <<typing, arriving, pendingInput, stdinEnded, listening, given, refused>>

(* The text of a line without the spaces at its end.                       *)
TrimEnd(line) ==
  LET kept == {i \in 1..Len(line) : line[i] # "sp"}
  IN  SubSeq(line, 1, IF kept = {} THEN 0 ELSE CHOOSE i \in kept : \A j \in kept : j <= i)

(* A chunk of bytes read as text: half a character becomes a replacement.  *)
Decoded(chunk) ==
  [i \in 1..Len(chunk) |->
     IF \/ chunk[i] = "h1" /\ (i = Len(chunk) \/ chunk[i + 1] # "h2")
        \/ chunk[i] = "h2" /\ (i = 1 \/ chunk[i - 1] # "h1")
     THEN "bad" ELSE chunk[i]]

HasLine(text) == Contains(text, "nl")
LineEnd(text) == SelectInSeq(text, LAMBDA k : k = "nl")
FirstLine(text) == SubSeq(text, 1, LineEnd(text) - 1)
(* Mutant: what a prompt read beyond its line is lost with it.             *)
DropsRest(text) == <<>>
AfterLine(text) == SubSeq(text, LineEnd(text) + 1, Len(text))

(* The keys typed, edited by the rubouts among them.                       *)
Rub(text, key) ==
  IF key # "del" THEN Append(text, key) ELSE IF text = <<>> THEN text ELSE Front(text)
Rubs(keys) ==
  LET rubbed[n \in 0..Len(keys)] == IF n = 0 THEN <<>> ELSE Rub(rubbed[n - 1], keys[n])
  IN  rubbed
Rubbed(keys) == Rubs(keys)[Len(keys)]

PromptInit ==
  /\ typing \in Typings
  /\ arriving = typing.chunks
  /\ pendingInput = <<>>
  /\ stdinEnded = FALSE
  /\ listening = FALSE
  /\ given = <<>>
  /\ refused = FALSE

Gives(line) == given' = Append(given, line)

(* What a prompt gets when nothing more can come: the last line, which has *)
(* no end, or nothing.                                                     *)
LastLine ==
  IF pendingInput = <<>>
  THEN refused' = TRUE /\ UNCHANGED <<given, pendingInput>>
  ELSE Gives(TrimEnd(pendingInput)) /\ pendingInput' = <<>> /\ UNCHANGED refused

(* The next prompt: a line read before answers it at once; else it waits.  *)
Prompt ==
  /\ ~listening /\ ~refused /\ Len(given) < MaxPrompts
  /\ CASE ~typing.tty /\ HasLine(pendingInput) ->
            /\ Gives(TrimEnd(FirstLine(pendingInput)))
            /\ pendingInput' = AfterLine(pendingInput)
            /\ UNCHANGED <<listening, refused>>
       [] ~typing.tty /\ ~HasLine(pendingInput) /\ stdinEnded ->
            LastLine /\ UNCHANGED listening
       [] OTHER -> listening' = TRUE /\ UNCHANGED <<given, pendingInput, refused>>
  /\ UNCHANGED <<typing, arriving, stdinEnded>>

(* A chunk of the pipe joins the buffer, whose first line is the answer.   *)
PipeData ==
  /\ ~typing.tty /\ listening /\ arriving # <<>>
  /\ LET text == pendingInput \o Decoded(Head(arriving)) IN
       /\ pendingInput' = IF HasLine(text) THEN AfterLine(text) ELSE text
       /\ listening' = ~HasLine(text)
       /\ IF HasLine(text) THEN Gives(TrimEnd(FirstLine(text))) ELSE UNCHANGED given
  /\ arriving' = Tail(arriving)
  /\ UNCHANGED <<typing, stdinEnded, refused>>

(* The end of the pipe answers the prompt that waits.                      *)
PipeEnds ==
  /\ ~typing.tty /\ listening /\ arriving = <<>>
  /\ stdinEnded' = TRUE
  /\ listening' = FALSE
  /\ LastLine
  /\ UNCHANGED <<typing, arriving>>

(* Keys of the terminal: up to Enter they edit the answer, and what the    *)
(* chunk holds after it is lost.                                           *)
TypeKeys ==
  /\ typing.tty /\ listening /\ arriving # <<>>
  /\ LET keys == Head(arriving)
         text == Rubbed(pendingInput \o (IF HasLine(keys) THEN FirstLine(keys) ELSE keys))
     IN  /\ listening' = ~HasLine(keys)
         /\ IF HasLine(keys) THEN Gives(text) ELSE UNCHANGED given
         /\ pendingInput' = IF HasLine(keys) THEN <<>> ELSE text
  /\ arriving' = Tail(arriving)
  /\ UNCHANGED <<typing, stdinEnded, refused>>

PromptNext == Prompt \/ PipeData \/ PipeEnds \/ TypeKeys

-----------------------------------------------------------------------------
(* The lines of a text, the last one too when it has no end.               *)
LineStarts(text) == {s \in 1..Len(text) : s = 1 \/ text[s - 1] = "nl"}
LineAt(text, s) ==
  LET rest == SubSeq(text, s, Len(text))
  IN  IF HasLine(rest) THEN FirstLine(rest) ELSE rest
LinesOf(text) ==
  LET starts == LineStarts(text)
      From(n) == CHOOSE s \in starts : Cardinality({r \in starts : r < s}) = n - 1
  IN  [n \in 1..Cardinality(starts) |-> LineAt(text, From(n))]

(* The first n chunks, one behind the other, for every n.                  *)
Joined(chunks) ==
  LET joined[n \in 0..Len(chunks)] == IF n = 0 THEN <<>> ELSE joined[n - 1] \o chunks[n]
  IN  joined
Text == Joined(typing.chunks)[Len(typing.chunks)]
NoCharacterCut == \A i \in 1..Len(typing.chunks) : ~Contains(Decoded(typing.chunks[i]), "bad")
OneLineAtATime ==
  \A i \in 1..Len(typing.chunks) :
    HasLine(typing.chunks[i]) => LineEnd(typing.chunks[i]) = Len(typing.chunks[i])

(* From a pipe whose chunks cut no character, the prompts get the lines in *)
(* their order, each once and without the spaces at its end, and none is   *)
(* refused before the last line has been given, however the text was cut   *)
(* (the reason for pendingInput, startupPrompts.ts and maskedPassword.ts). *)
PipedAnswers ==
  ~typing.tty /\ NoCharacterCut =>
    LET lines == LinesOf(Text) IN
      /\ Len(given) <= Len(lines)
      /\ \A i \in 1..Len(given) : given[i] = TrimEnd(lines[i])
      /\ refused => Len(given) = Len(lines)

(* Typed a line at a time, every answer is its line as the user edited it. *)
(* A rubout never reaches into an answer that was already given.           *)
TypedAnswers ==
  typing.tty /\ OneLineAtATime =>
    LET lines == LinesOf(Text) IN
      \A i \in 1..Len(given) : given[i] = Rubbed(lines[i])

PromptInv == PipedAnswers /\ TypedAnswers
=============================================================================
