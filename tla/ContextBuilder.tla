---------------------------- MODULE ContextBuilder ----------------------------
(***************************************************************************)
(* The memory header of a task (memory/context, ollama/contextWindow.ts):  *)
(* tasks resolve the model's window, read the user's pattern files and     *)
(* language hints through caches gated on the time of the last change, and *)
(* fill a share of the window with rules, patterns and the prior session.  *)
(* The user may edit the files meanwhile, change the configuration or pull *)
(* the model again.                                                        *)
(***************************************************************************)
EXTENDS Naturals, Sequences, FiniteSets

CONSTANTS
  Builds,         \* tasks that build a header
  TrainedLengths, \* context lengths a model can have
  MinNumCtx,      \* the floor of num_ctx, also Ollama's default
  DefaultWindow,  \* the window of a provider that tells none
  NumCtxs,        \* values the user can set numCtx to; 0 stands for unset
  BudgetShare,    \* one in so many tokens of the window may be the header
  Materials,      \* [rules, bodies, patterns, session] a header is made of
  MaxChanges      \* bound: changes of files and settings, lookups that fail

(* Rules have names of their own; the file of patterns has one body for    *)
(* each time of change; of texts only lengths count.                       *)
IsMaterial(m) ==
  /\ IsFiniteSet(m.rules) /\ \A r \in m.rules : {r.chars, r.score, r.id} \subseteq Nat
  /\ \A r, s \in m.rules : r.id = s.id => r = s
  /\ m.bodies \in [1..(MaxChanges + 1) -> Seq(Nat)] /\ m.patterns \in Seq(Seq(Nat))
  /\ m.session \in Nat

ASSUME BuilderAssumption ==
  /\ TrainedLengths \subseteq Nat \ {0} /\ MinNumCtx \in Nat \ {0} /\ DefaultWindow \in Nat
  /\ BudgetShare \in Nat \ {0} /\ MaxChanges \in Nat /\ NumCtxs \subseteq Nat
  /\ \A m \in Materials : IsMaterial(m)

Cached == {"pattern", "hints"}     \* a file in user-data/patterns; language-hints.json
NoEntry == [mtime |-> 0, body |-> 0]
Unknown == 0                       \* no trained length cached

VARIABLES
  mtimes,     \* [Cached -> time of the last change, 0 if there is no file]
  changes,    \* of the files and settings so far, with the lookups that failed
  fileCache,  \* patternFileCache and languageHintsCache: [mtime, body]
  material,   \* what the store, the session and the files hold
  trained,    \* the model's trained length, as Ollama tells it
  trainedContextLengthCache,
  numCtx,     \* the configured value
  role,       \* the provider of the agent: "ollama" or "cloud"
  buildStage, \* [Builds -> Stages]
  clampWith,  \* [Builds -> the configured value a pending lookup has read]
  sentNumCtx, \* [Builds -> num_ctx sent with every request, 0 for none]
  window,     \* [Builds -> the window the header is budgeted against]
  statted,    \* [Builds -> the time of change just read]
  bodies,     \* [Builds -> [Cached -> the body used, 0 for none]]
  onDisk,     \* ghost: [Builds -> [Cached -> what the mtimes held meanwhile]]
  disturbed   \* ghost: builds whose two windows need not agree

worldVars == <<mtimes, trained, numCtx, role, changes>>
windowVars == <<clampWith, sentNumCtx, window, trainedContextLengthCache>>
builderVars == <<worldVars, fileCache, material, buildStage, windowVars, statted, bodies,
                 onDisk, disturbed>>

Stages ==
  {"idle", "wire", "askWire", "window", "askWindow", "list", "stat", "read", "statHints",
   "readHints", "done", "failed"}
Resolving == {"wire", "askWire", "window", "askWindow"}
StepTo(b, stage) == buildStage' = [buildStage EXCEPT ![b] = stage]

BuilderInit ==
  /\ material \in Materials /\ trained \in TrainedLengths /\ numCtx = 0 /\ role = "ollama"
  /\ mtimes = [f \in Cached |-> 1] /\ changes = 0
  /\ fileCache = [f \in Cached |-> NoEntry] /\ trainedContextLengthCache = Unknown
  /\ buildStage \in [Builds -> {"idle", "failed"}] /\ clampWith = [b \in Builds |-> 0]
  /\ sentNumCtx = [b \in Builds |-> 0] /\ window = [b \in Builds |-> 0]
  /\ statted = [b \in Builds |-> 0] /\ bodies = [b \in Builds |-> [f \in Cached |-> 0]]
  /\ onDisk = [b \in Builds |-> [f \in Cached |-> {}]] /\ disturbed = {}

-----------------------------------------------------------------------------
(* ContextWindowResolver.                                                  *)
AtLeast(x, y) == IF x > y THEN x ELSE y
AtMost(x, y) == IF x < y THEN x ELSE y
Requested(configured) == AtLeast(MinNumCtx, configured)
ResolveEffectiveNumCtx(length, configured) == AtMost(length, Requested(configured))

(* Mutant of KnownLength: the lookup is not cached.                        *)
AskAgain == Unknown

KnownLength == trainedContextLengthCache

(* Where a window goes, and the stage after it.                            *)
UseWindow(b, tokens) ==
  IF buildStage[b] \in {"wire", "askWire"}
  THEN sentNumCtx' = [sentNumCtx EXCEPT ![b] = tokens] /\ StepTo(b, "window") /\ UNCHANGED window
  ELSE window' = [window EXCEPT ![b] = tokens] /\ StepTo(b, "list") /\ UNCHANGED sentNumCtx

(* The pipeline sends num_ctx only to Ollama, and the builder falls back   *)
(* to a fixed window for the others.                                       *)
NeedsNoLookup(b) ==
  /\ buildStage[b] \in {"wire", "window"} /\ role = "cloud"
  /\ UseWindow(b, IF buildStage[b] = "wire" THEN 0 ELSE DefaultWindow)
  /\ UNCHANGED <<clampWith, trainedContextLengthCache, disturbed>>

ResolveKnown(b) ==
  /\ buildStage[b] \in {"wire", "window"} /\ role = "ollama" /\ KnownLength # Unknown
  /\ UseWindow(b, ResolveEffectiveNumCtx(KnownLength, numCtx))
  /\ UNCHANGED <<clampWith, trainedContextLengthCache, disturbed>>

AskModel(b) ==
  /\ buildStage[b] \in {"wire", "window"} /\ role = "ollama" /\ KnownLength = Unknown
  /\ clampWith' = [clampWith EXCEPT ![b] = numCtx]
  /\ StepTo(b, IF buildStage[b] = "wire" THEN "askWire" ELSE "askWindow")
  /\ UNCHANGED <<sentNumCtx, window, trainedContextLengthCache, disturbed>>

(* Whatever makes two lookups differ disturbs the tasks between them; so   *)
(* does an answer that comes late, after another one for the same model.   *)
Between == {b \in Builds : buildStage[b] \in Resolving}
Asking == {b \in Builds : buildStage[b] \in {"askWire", "askWindow"}}

LookupReturns(b) ==
  /\ buildStage[b] \in {"askWire", "askWindow"}
  /\ trainedContextLengthCache' = trained
  /\ UseWindow(b, ResolveEffectiveNumCtx(trained, clampWith[b]))
  /\ clampWith' = [clampWith EXCEPT ![b] = 0]
  /\ disturbed' = IF trainedContextLengthCache \in {Unknown, trained} THEN disturbed
                  ELSE disturbed \cup (Between \ {b})

Resolve(b) ==
  /\ NeedsNoLookup(b) \/ ResolveKnown(b) \/ AskModel(b) \/ LookupReturns(b)
  /\ UNCHANGED <<worldVars, fileCache, material, statted, bodies, onDisk>>

ModelUnreachable(b) ==
  /\ changes < MaxChanges /\ changes' = changes + 1
  /\ buildStage[b] \in {"askWire", "askWindow"}
  /\ UseWindow(b, Requested(clampWith[b])) /\ disturbed' = disturbed \cup {b}
  /\ clampWith' = [clampWith EXCEPT ![b] = 0]
  /\ UNCHANGED <<mtimes, trained, numCtx, role, trainedContextLengthCache, fileCache,
                 material, statted, bodies, onDisk>>

-----------------------------------------------------------------------------
(* The user: another numCtx, another provider of the agent, another model, *)
(* which forgets the length of the previous one, the same tag pulled       *)
(* again, which does not.                                                  *)
ChangeSettings ==
  /\ changes < MaxChanges /\ changes' = changes + 1
  /\ \/ numCtx' \in NumCtxs /\ UNCHANGED <<role, trained, trainedContextLengthCache>>
     \/ role' \in {"ollama", "cloud"} /\ UNCHANGED <<numCtx, trained, trainedContextLengthCache>>
     \/ trainedContextLengthCache' = Unknown /\ UNCHANGED <<numCtx, role, trained>>
     \/ trained' \in TrainedLengths /\ UNCHANGED <<numCtx, role, trainedContextLengthCache>>
  /\ disturbed' = IF trained' # trained /\ trainedContextLengthCache # Unknown
                       /\ Asking = {}
                  THEN disturbed ELSE disturbed \cup Between
  /\ UNCHANGED <<mtimes, fileCache, material, buildStage, clampWith, sentNumCtx, window, statted,
                 bodies,
                 onDisk>>

(* An edit changes the time of the file; a file may go and come back.      *)
EditFile(f) ==
  /\ changes < MaxChanges /\ changes' = changes + 1
  /\ \E t \in {0, changes + 2} : t # mtimes[f] /\ mtimes' = [mtimes EXCEPT ![f] = t]
  /\ onDisk' = [b \in Builds |-> IF buildStage[b] \in {"idle", "done", "failed"} THEN onDisk[b]
                                ELSE [onDisk[b] EXCEPT ![f] = @ \cup {mtimes'[f]}]]
  /\ UNCHANGED <<trained, numCtx, role, fileCache, material, buildStage, windowVars, statted,
                 bodies, disturbed>>

-----------------------------------------------------------------------------
(* The task begins: runOrchestratorPipeline resolves the window.           *)
BeginBuild(b) ==
  /\ buildStage[b] = "idle" /\ StepTo(b, "wire")
  /\ onDisk' = [onDisk EXCEPT ![b] = [f \in Cached |-> {mtimes[f]}]]
  /\ UNCHANGED <<worldVars, fileCache, material, windowVars, statted, bodies, disturbed>>

Use(b, f, body) == bodies' = [bodies EXCEPT ![b][f] = body]
Remember(f, entry) == fileCache' = [fileCache EXCEPT ![f] = entry]

(* Mutant of IsFresh: an entry is used whenever there is one.              *)
AnyEntry(f, mtime) == fileCache[f] # NoEntry

IsFresh(f, mtime) == fileCache[f] # NoEntry /\ fileCache[f].mtime = mtime

(* loadPatterns: the directory is read, then the file's time, then the     *)
(* file.  A file that goes between two of these fails the build.           *)
ListPatterns(b) ==
  /\ buildStage[b] = "list"
  /\ IF mtimes["pattern"] = 0
     THEN Remember("pattern", NoEntry) /\ StepTo(b, "statHints")
     ELSE UNCHANGED fileCache /\ StepTo(b, "stat")
  /\ UNCHANGED <<statted, bodies>>

StatPattern(b) ==
  /\ buildStage[b] = "stat" /\ UNCHANGED fileCache
  /\ IF mtimes["pattern"] = 0
     THEN StepTo(b, "failed") /\ UNCHANGED <<statted, bodies>>
     ELSE IF IsFresh("pattern", mtimes["pattern"])
     THEN StepTo(b, "statHints") /\ Use(b, "pattern", fileCache["pattern"].body) /\ UNCHANGED statted
     ELSE StepTo(b, "read") /\ statted' = [statted EXCEPT ![b] = mtimes["pattern"]] /\ UNCHANGED bodies

ReadPattern(b) ==
  /\ buildStage[b] = "read" /\ statted' = [statted EXCEPT ![b] = 0]
  /\ IF mtimes["pattern"] = 0
     THEN StepTo(b, "failed") /\ UNCHANGED <<fileCache, bodies>>
     ELSE /\ StepTo(b, "statHints") /\ Use(b, "pattern", mtimes["pattern"])
          /\ Remember("pattern", [mtime |-> statted[b], body |-> mtimes["pattern"]])

(* loadLanguageHintsCached: no file, no hints.                             *)
StatHints(b) ==
  /\ buildStage[b] = "statHints"
  /\ IF mtimes["hints"] = 0
     THEN /\ StepTo(b, "done") /\ Remember("hints", NoEntry) /\ Use(b, "hints", 0)
          /\ UNCHANGED statted
     ELSE IF IsFresh("hints", mtimes["hints"])
     THEN StepTo(b, "done") /\ Use(b, "hints", fileCache["hints"].body)
            /\ UNCHANGED <<statted, fileCache>>
     ELSE StepTo(b, "readHints") /\ statted' = [statted EXCEPT ![b] = mtimes["hints"]]
            /\ UNCHANGED <<bodies, fileCache>>

ReadHints(b) ==
  /\ buildStage[b] = "readHints" /\ StepTo(b, "done") /\ Use(b, "hints", mtimes["hints"])
  /\ Remember("hints", [mtime |-> statted[b], body |-> mtimes["hints"]])
  /\ statted' = [statted EXCEPT ![b] = 0]

LoadFiles(b) ==
  /\ ListPatterns(b) \/ StatPattern(b) \/ ReadPattern(b) \/ StatHints(b) \/ ReadHints(b)
  /\ UNCHANGED <<worldVars, material, windowVars, onDisk, disturbed>>

BuilderNext ==
  \/ \E b \in Builds : BeginBuild(b) \/ Resolve(b) \/ ModelUnreachable(b) \/ LoadFiles(b)
  \/ ChangeSettings
  \/ \E f \in Cached : EditFile(f)

-----------------------------------------------------------------------------
(* The header, by the lengths of its parts.                                *)
ApproxTokens(chars) == (chars + 3) \div 4
Budget(tokens) == tokens \div BudgetShare

(* "- text\n"                                                              *)
RuleCost(r) == ApproxTokens(r.chars + 3)

(* extractKeywords adds the tags of the hints, so what a task matches      *)
(* depends on them; the words of task types are keywords too.              *)
Keywords(hints) == {"word", "type"} \cup (IF hints = 0 THEN {} ELSE {"hint"})
Applies(r, hints) == r.scope = "all" \/ r.scope \in Keywords(hints)
Primary(hints) == {r \in material.rules : Applies(r, hints) /\ r.topics \cap Keywords(hints) # {}}
Universal(hints) == {r \in material.rules : Applies(r, hints) /\ r.topics = {}}
FixRules(hints) == {r \in material.rules : Applies(r, hints) /\ "type" \in r.topics}
Selected(hints) == IF Primary(hints) # {} THEN Primary(hints) ELSE Universal(hints)

(* sortRules: by score for a token, the older first.                       *)
Denser(r, s) ==
  LET left == r.score * RuleCost(s)
      right == s.score * RuleCost(r)
  IN  left > right \/ (left = right /\ r.id < s.id)
Densest(rules) == CHOOSE r \in rules : \A s \in rules : ~Denser(s, r)

(* What has been taken for the header so far: tokensUsedSoFar, the length  *)
(* of what was pushed with what separates it from the next, and the rules; *)
(* the rules left to try, and whether a pattern was cut.                   *)
Spend(round, tokens, chars, rules) ==
  [budget |-> round.budget, used |-> round.used + tokens, chars |-> round.chars + chars,
   rules |-> round.rules \cup rules, left |-> round.left, closed |-> round.closed]

(* A round of rules: one that does not fit is skipped, not the rest.       *)
(* Mutant of Skip: the first rule that does not fit ends the round.        *)
EndsRound(round) == [round EXCEPT !.used = round.budget]

Skip(round) == round

TryRule(round) ==
  LET r == Densest(round.left)
      rest == [round EXCEPT !.left = @ \ {r}]
  IN  IF r \in rest.rules THEN rest
      ELSE IF rest.used + RuleCost(r) > rest.budget THEN Skip(rest)
      ELSE Spend(rest, RuleCost(r), r.chars + 3, {r})

(* The states of a round of rules, one for each rule tried.                *)
RuleRounds(round, rules) ==
  LET rounds[n \in 0..Cardinality(rules)] ==
        IF n = 0 THEN [round EXCEPT !.left = rules] ELSE TryRule(rounds[n - 1])
  IN  rounds
RuleRound(round, rules) == RuleRounds(round, rules)[Cardinality(rules)]

(* A pattern is its lines' lengths; the header of its block has            *)
(* NameChars, "- name\n".  LineEnds: where the "\n" of each line stands.   *)
NameChars == 8
MarkerChars == 33     \* "\n[truncated to fit context budget]" less its newline
LineEnds(lines) ==
  LET ends[n \in 0..Len(lines)] == IF n = 0 THEN 0 ELSE ends[n - 1] + lines[n] + 1
  IN  ends
BodyChars(lines, n) == IF n = 0 THEN 0 ELSE LineEnds(lines)[n] - 1
Blank(lines, n) == LineEnds(lines)[n] = n
BlockChars(lines, n) == NameChars + BodyChars(lines, n) + 2
PatternCost(lines) == ApproxTokens(BlockChars(lines, Len(lines)))

(* truncateToTokenBudget: whole lines, each with the newline behind it.    *)
MaxBodyChars(tokens) == IF tokens * 4 > NameChars THEN tokens * 4 - NameChars ELSE 0
TruncateToTokenBudget(lines, tokens) ==
  IF BodyChars(lines, Len(lines)) <= MaxBodyChars(tokens) THEN Len(lines)
  ELSE CHOOSE n \in 0..(Len(lines) - 1) : /\ LineEnds(lines)[n] <= MaxBodyChars(tokens)
                                          /\ LineEnds(lines)[n + 1] > MaxBodyChars(tokens)

(* A pattern that does not fit is cut, and the last, if a fifth of it fits *)
(* and more than blank lines would stay; else it is skipped.               *)
AddPattern(round, lines) ==
  LET left == round.budget - round.used
      kept == TruncateToTokenBudget(lines, left)
  IN  IF round.closed THEN round
      ELSE IF PatternCost(lines) <= left
      THEN Spend(round, PatternCost(lines), BlockChars(lines, Len(lines)), {})
      ELSE IF left * 5 < PatternCost(lines) \/ Blank(lines, kept) THEN round
      ELSE [Spend(round, left, BlockChars(lines, kept) + MarkerChars + 1, {})
              EXCEPT !.closed = TRUE]

PatternRounds(round, patterns) ==
  LET rounds[n \in 0..Len(patterns)] ==
        IF n = 0 THEN round ELSE AddPattern(rounds[n - 1], patterns[n])
  IN  rounds
PatternRound(round, patterns) == PatternRounds(round, patterns)[Len(patterns)]

(* "[Prior session]\n", read last and with what the others left.           *)
SessionChars == 16 + material.session
SessionCost == ApproxTokens(SessionChars + 2)
AddSession(round) ==
  IF material.session > 0 /\ round.used + SessionCost <= round.budget
  THEN Spend(round, SessionCost, SessionChars + 2, {}) ELSE round

(* build, once everything is read: preferences, fixes, patterns, session.  *)
Patterns(b) ==
  (IF bodies[b]["pattern"] = 0 THEN <<>> ELSE <<material.bodies[bodies[b]["pattern"]]>>)
    \o material.patterns
EmptyRound(b) ==
  [budget |-> Budget(window[b]), used |-> 0, chars |-> 0, rules |-> {}, left |-> {},
   closed |-> FALSE]
Preferences(b) == RuleRound(EmptyRound(b), Selected(bodies[b]["hints"]))
Fixes(b) == RuleRound(Preferences(b), FixRules(bodies[b]["hints"]))
Header(b) == AddSession(PatternRound(Fixes(b), Patterns(b)))

(* The characters of the header at most: its titles, what was pushed and   *)
(* the newlines between the sections.                                      *)
TitleChars == 19 + 33 + 18
HeaderChars(h) == TitleChars + h.chars + 6

-----------------------------------------------------------------------------
BuilderTypeOK ==
  /\ buildStage \in [Builds -> Stages] /\ mtimes \in [Cached -> 0..(MaxChanges + 1)]
  /\ \A f \in Cached : fileCache[f].mtime \in 0..(MaxChanges + 1)

Complete == {b \in Builds : buildStage[b] = "done"}

(* The header keeps within its share of the window, whatever it is made    *)
(* of, but for titles, separators and the marker, which nobody counts.     *)
HeaderBounded ==
  \A b \in Complete :
    LET h == Header(b)
    IN  /\ h.used <= h.budget
        /\ HeaderChars(h) <= 4 * h.budget + TitleChars + 6 + MarkerChars + 3

TokensOf(rules) == Cardinality(UNION {{r} \X (1..RuleCost(r)) : r \in rules})

(* No rule is left out that would fit beside the others.                   *)
NothingFitsAnyMore ==
  \A b \in Complete :
    LET taken == Header(b).rules
    IN  \A r \in Selected(bodies[b]["hints"]) \ taken :
          TokensOf(taken) + RuleCost(r) > Budget(window[b])

(* The round of fixes adds nothing: a rule for the type of task matches    *)
(* the task's keywords, so it was tried among the preferences.             *)
FixRoundIsIdle == \A b \in Complete : Fixes(b) = Preferences(b)

(* What a header quotes stood in the file while the header was built.      *)
BodiesAreCurrent ==
  \A b \in Complete : \A f \in Cached : bodies[b][f] \in onDisk[b][f]

(* The window the header is budgeted against is the one that is sent.      *)
WindowsAgree ==
  \A b \in Builds \ disturbed :
    buildStage[b] \in Stages \ (Resolving \cup {"idle"}) =>
      sentNumCtx[b] = window[b] \/ (sentNumCtx[b] = 0 /\ window[b] = DefaultWindow)

(* What a header is made of, and what of that fits.                        *)
BuilderInv == BuilderTypeOK /\ BodiesAreCurrent /\ WindowsAgree
HeaderFits == HeaderBounded /\ NothingFitsAnyMore /\ FixRoundIsIdle
=============================================================================
