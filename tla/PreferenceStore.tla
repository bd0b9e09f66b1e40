---------------------------- MODULE PreferenceStore ----------------------------
(***************************************************************************)
(* What the server remembers of the user's preferences (PreferenceStore):  *)
(* rules in memory with an index of their topics and one of the tokens of  *)
(* their texts, loaded once by whoever comes first (LazyValue), changed    *)
(* under a mutex, and written whole after every change; a change that can  *)
(* not be written is undone.  The getters do not take the mutex.           *)
(***************************************************************************)
EXTENDS Naturals, Sequences, FiniteSets, Mutex

CONSTANTS
  Clients,         \* callers, one request each
  PrefRequests,
  RuleIds,         \* randomUUID(): a new rule takes one that was never used
  Tokens, Topics,
  FirstRules,      \* what preferences.json may hold at the start
  Answers,         \* what consolidation may be answered: sets of [id, text, topics]
  ConsolidateMin,  \* CONSOLIDATE_MIN_RULES
  SimNum, SimDen   \* SIMILARITY_THRESHOLD, a fraction

NoId == "none"
Rule == [text : SUBSET Tokens, topics : SUBSET Topics, applied : Nat]
NoRule == [text |-> {}, topics |-> {}, applied |-> 0]
PrefKinds == {"read", "add", "update", "deleteByTopic", "remove", "clear", "mark", "consolidate"}
ASSUME PreferenceAssumption ==
  /\ SimNum \in Nat \ {0} /\ SimDen \in Nat /\ SimNum <= SimDen /\ IsFiniteSet(Tokens)
  /\ \A r \in PrefRequests :
       r.kind \in PrefKinds /\ r.text \subseteq Tokens /\ r.topics \subseteq Topics
  /\ \A rs \in FirstRules : DOMAIN rs \subseteq RuleIds /\ \A i \in DOMAIN rs : rs[i] \in Rule
  /\ \A answer \in Answers : \A e \in answer : e.text \subseteq Tokens /\ e.topics \subseteq Topics

VARIABLES
  known,         \* rulesById was loaded
  rules,         \* rulesById: the ids in use and their rules, empty before
  topicIndex,    \* [Topics -> SUBSET RuleIds]
  tokensById,    \* the tokens of the indexed rules
  postings,      \* [Tokens -> SUBSET RuleIds]
  emptyIds,      \* emptyTokenRuleIds
  stored,        \* preferences.json
  loads,         \* loads in flight: [by, waiting, value]
  prefLock,      \* the mutex
  place,         \* where the request of a client is
  asks,          \* [Clients -> PrefRequests]
  before,        \* the snapshot of persistMutation
  answered,      \* "done" or "failed"
  failedIds      \* ghost: rules whose change the client was told had failed

prefVars == <<known, rules, topicIndex, tokensById, postings, emptyIds, stored, loads, prefLock,
              place, asks, before, answered, failedIds>>
indexes == <<topicIndex, tokensById, postings, emptyIds>>

Ids(rs) == DOMAIN rs
NoRules == [i \in {} |-> NoRule]
With(rs, i, rule) == [j \in Ids(rs) \cup {i} |-> IF j = i THEN rule ELSE rs[j]]
Without(rs, gone) == [j \in Ids(rs) \ gone |-> rs[j]]

-----------------------------------------------------------------------------
(* indexRule for every rule, as replaceAllLocked does.                     *)
Indexed(rs) ==
  /\ topicIndex' = [t \in Topics |-> {i \in Ids(rs) : t \in rs[i].topics}]
  /\ tokensById' = [i \in Ids(rs) |-> rs[i].text]
  /\ postings' = [w \in Tokens |-> {i \in Ids(rs) : w \in rs[i].text}]
  /\ emptyIds' = {i \in Ids(rs) : rs[i].text = {}}
ReplaceRules(rs) == rules' = rs /\ Indexed(rs)

(* deindexTopics and indexTopics of one rule whose topics change.  Mutant: *)
(* the old topics stay.                                                    *)
OnlyNewTopics(i, old, new) ==
  [t \in Topics |-> IF t \in new THEN topicIndex[t] \cup {i} ELSE topicIndex[t]]

Retopic(i, old, new) ==
  [t \in Topics |-> IF t \in new THEN topicIndex[t] \cup {i}
                    ELSE IF t \in old THEN topicIndex[t] \ {i} ELSE topicIndex[t]]

(* deindexTokens and indexTokens.                                          *)
Retoken(i, text) ==
  /\ tokensById' = [j \in Ids(tokensById) \cup {i} |-> IF j = i THEN text ELSE tokensById[j]]
  /\ postings' = [w \in Tokens |-> IF w \in text THEN postings[w] \cup {i} ELSE postings[w] \ {i}]
  /\ emptyIds' = IF text = {} THEN emptyIds \cup {i} ELSE emptyIds \ {i}
Unindexed(gone) ==
  /\ topicIndex' = [t \in Topics |-> topicIndex[t] \ gone]
  /\ tokensById' = [j \in Ids(tokensById) \ gone |-> tokensById[j]]
  /\ postings' = [w \in Tokens |-> postings[w] \ gone]
  /\ emptyIds' = emptyIds \ gone

(* Jaccard similarity of token sets, and the sizes that can reach the      *)
(* threshold: ceil(s * n) and floor(n / s).                                *)
Similar(a, b) ==
  \/ a = {} /\ b = {}
  \/ a # {} /\ b # {} /\ Cardinality(a \cap b) * SimDen >= SimNum * Cardinality(a \cup b)
TooStrict(candidate, target) == candidate = target   \* mutant of PassesLengthFilter

PassesLengthFilter(candidate, target) ==
  IF target = 0 THEN candidate = 0
  ELSE /\ candidate >= (SimNum * target + SimDen - 1) \div SimDen
       /\ candidate <= (SimDen * target) \div SimNum

(* findSimilarLocked: candidates share a token and pass the filter.        *)
FindSimilar(text) ==
  IF text = {} THEN emptyIds
  ELSE {i \in UNION {postings[w] : w \in text} :
          /\ PassesLengthFilter(Cardinality(tokensById[i]), Cardinality(text))
          /\ Similar(text, tokensById[i])}

-----------------------------------------------------------------------------
PrefInit ==
  /\ known = FALSE /\ rules = NoRules
  /\ topicIndex = [t \in Topics |-> {}] /\ postings = [w \in Tokens |-> {}]
  /\ tokensById = [i \in {} |-> {}] /\ emptyIds = {}
  /\ stored \in FirstRules /\ loads = {} /\ prefLock = FreeLock
  /\ place = [c \in Clients |-> "idle"] /\ asks \in [Clients -> PrefRequests]
  /\ before = [c \in Clients |-> NoRules] /\ answered = [c \in Clients |-> "none"]
  /\ failedIds = {}

Goes(c, next) == place' = [place EXCEPT ![c] = next]
(* The end of a request; whoever waits for the mutex is let in.            *)
Answer(c, o) ==
  /\ answered' = [answered EXCEPT ![c] = o]
  /\ prefLock' = AfterRelease(prefLock)
  /\ place' = [d \in Clients |-> IF d = c THEN "over"
                               ELSE IF d \in HandedTo(prefLock) THEN "holds" ELSE place[d]]

PrefComes(c) ==
  /\ place[c] = "idle"
  /\ IF asks[c].kind = "read" THEN Goes(c, "reads") /\ UNCHANGED prefLock
     ELSE /\ prefLock' = AfterAcquire(prefLock, c)
          /\ Goes(c, IF prefLock.locked THEN "waits" ELSE "holds")
  /\ UNCHANGED <<known, rules, indexes, stored, loads, asks, before, answered, failedIds>>

(* ensureLoaded: share the load in flight or begin one.  Mutant: always    *)
(* begin one.                                                              *)
NeverShares == FALSE

SharesLoad == loads # {}

EnsureLoaded(c) ==
  /\ place[c] \in {"reads", "holds"} /\ ~known
  /\ \A l \in loads : c \notin l.waiting
  /\ loads' = IF SharesLoad
              THEN {[l EXCEPT !.waiting = @ \cup {c}] : l \in loads}
              ELSE loads \cup {[by |-> c, waiting |-> {c}, value |-> stored]}
  /\ UNCHANGED <<known, rules, indexes, stored, prefLock, place, asks, before, answered, failedIds>>

LoadSettles(l) ==
  /\ l \in loads
  /\ known' = TRUE /\ ReplaceRules(l.value)
  /\ loads' = loads \ {l}
  /\ UNCHANGED <<stored, prefLock, place, asks, before, answered, failedIds>>

(* The file cannot be read: all who awaited the load fail.                 *)
LoadFails(l) ==
  /\ l \in loads
  /\ loads' = loads \ {l}
  /\ answered' = [c \in Clients |-> IF c \in l.waiting THEN "failed" ELSE answered[c]]
  /\ LET holder == {c \in l.waiting : place[c] = "holds"} IN
     /\ prefLock' = IF holder # {} THEN AfterRelease(prefLock) ELSE prefLock
     /\ place' = [c \in Clients |->
                  IF c \in l.waiting THEN "over"
                  ELSE IF holder # {} /\ c \in HandedTo(prefLock) THEN "holds" ELSE place[c]]
  /\ UNCHANGED <<known, rules, indexes, stored, asks, before, failedIds>>

(* getAll, getForTask, once the rules are known.                           *)
Read(c) ==
  /\ place[c] = "reads" /\ known
  /\ Goes(c, "over") /\ answered' = [answered EXCEPT ![c] = "done"]
  /\ UNCHANGED <<known, rules, indexes, stored, loads, prefLock, asks, before, failedIds>>

-----------------------------------------------------------------------------
(* upsertRuleLocked: a similar rule is confirmed, and takes the new topics *)
(* if there are any; otherwise there is a new rule.                        *)
Upsert(r) ==
  \/ \E i \in FindSimilar(r.text) :
       LET topics == IF r.topics = {} THEN rules[i].topics ELSE r.topics IN
       /\ rules' = With(rules, i, [rules[i] EXCEPT !.topics = topics, !.applied = @ + 1])
       /\ topicIndex' = Retopic(i, rules[i].topics, topics)
       /\ UNCHANGED <<tokensById, postings, emptyIds>>
  \/ /\ FindSimilar(r.text) = {}
     /\ \E i \in RuleIds \ (Ids(rules) \cup Ids(stored) \cup failedIds) :
          /\ rules' = With(rules, i, [text |-> r.text, topics |-> r.topics, applied |-> 0])
          /\ topicIndex' = Retopic(i, {}, r.topics) /\ Retoken(i, r.text)

Update(r) ==
  /\ rules' = With(rules, r.id, [rules[r.id] EXCEPT !.text = r.text, !.topics = r.topics])
  /\ topicIndex' = Retopic(r.id, rules[r.id].topics, r.topics)
  /\ Retoken(r.id, r.text)

Delete(gone) == rules' = Without(rules, gone) /\ Unindexed(gone)
Named(r) == {r.id} \cap Ids(rules)
ByTopic(r) == UNION {topicIndex[t] : t \in r.topics}

(* What a request has nothing to do for.                                   *)
Nothing(r) ==
  \/ r.kind \in {"update", "remove", "mark"} /\ Named(r) = {}
  \/ r.kind = "deleteByTopic" /\ ByTopic(r) = {}
  \/ r.kind = "consolidate" /\ Cardinality(Ids(rules)) < ConsolidateMin

Mutate(r) ==
  \/ r.kind = "add" /\ Upsert(r)
  \/ r.kind = "update" /\ Update(r)
  \/ r.kind = "deleteByTopic" /\ Delete(ByTopic(r))
  \/ r.kind = "remove" /\ Delete(Named(r))
  \/ r.kind = "clear" /\ ReplaceRules(NoRules)
  \/ /\ r.kind = "mark" /\ UNCHANGED indexes
     /\ rules' = With(rules, r.id, [rules[r.id] EXCEPT !.applied = @ + 1])

(* The mutation of a request, or its end; consolidation asks the model     *)
(* while it holds the mutex.                                               *)
Locked(c) ==
  /\ place[c] = "holds" /\ known
  /\ \/ /\ Nothing(asks[c])
        /\ Answer(c, "done") /\ UNCHANGED <<rules, indexes, before>>
     \/ /\ ~Nothing(asks[c]) /\ asks[c].kind = "consolidate"
        /\ Goes(c, "consults") /\ UNCHANGED <<rules, indexes, before, prefLock, answered>>
     \/ /\ ~Nothing(asks[c]) /\ Mutate(asks[c])
        /\ before' = [before EXCEPT ![c] = rules]
        /\ Goes(c, "persists") /\ UNCHANGED <<prefLock, answered>>
  /\ UNCHANGED <<known, stored, loads, asks, failedIds>>

(* The answer of the model, which was shown the rules: a rule without an   *)
(* id is left out, and without any rule nothing changes, as when the       *)
(* answer is no array at all.                                              *)
Kept(answer) == {e \in answer : e.id # NoId}
Consolidated(answer) ==
  [i \in {e.id : e \in Kept(answer)} |->
     LET e == CHOOSE e \in Kept(answer) : e.id = i
     IN [text |-> e.text, topics |-> e.topics, applied |-> 0]]
ModelAnswers(c) ==
  /\ place[c] = "consults"
  /\ \E answer \in {a \in Answers : {e.id : e \in a} \subseteq Ids(rules) \cup {NoId}} :
       \/ /\ Kept(answer) = {}
          /\ Answer(c, "done") /\ UNCHANGED <<rules, indexes, before>>
       \/ /\ Kept(answer) # {}
          /\ ReplaceRules(Consolidated(answer))
          /\ before' = [before EXCEPT ![c] = rules]
          /\ Goes(c, "persists") /\ UNCHANGED <<prefLock, answered>>
  /\ UNCHANGED <<known, stored, loads, asks, failedIds>>
ModelFails(c) ==
  /\ place[c] = "consults"
  /\ Answer(c, "failed")
  /\ UNCHANGED <<known, rules, indexes, stored, loads, asks, before, failedIds>>

-----------------------------------------------------------------------------
Persist(c) ==
  /\ place[c] = "persists"
  /\ stored' = rules
  /\ Answer(c, "done")
  /\ UNCHANGED <<known, rules, indexes, loads, asks, before, failedIds>>

(* The write fails: the snapshot is put back.  Mutant: it is not.          *)
NotUndone(c) == UNCHANGED <<rules, indexes>>

Undo(c) == ReplaceRules(before[c])

PersistFails(c) ==
  /\ place[c] = "persists"
  /\ Undo(c)
  /\ failedIds' = failedIds \cup (Ids(rules) \ Ids(before[c]))
  /\ Answer(c, "failed")
  /\ UNCHANGED <<known, stored, loads, asks, before>>

ClientStep(c) ==
  \/ PrefComes(c) \/ EnsureLoaded(c) \/ Read(c) \/ Locked(c)
  \/ ModelAnswers(c) \/ ModelFails(c) \/ Persist(c) \/ PersistFails(c)
LoadEnds == \E l \in loads : LoadSettles(l) \/ LoadFails(l)
PrefNext == LoadEnds \/ \E c \in Clients : ClientStep(c)

(* Loads, writes and the model end, one way or the other.                  *)
PrefFairness ==
  WF_prefVars(LoadEnds) /\ \A c \in Clients : WF_prefVars(place[c] # "idle" /\ ClientStep(c))
PrefSpec == PrefInit /\ [][PrefNext]_prefVars /\ PrefFairness

-----------------------------------------------------------------------------
(* The types of the variables of the store.                                *)
PrefTypeOK ==
  /\ {known} \subseteq BOOLEAN
  /\ Ids(rules) \subseteq RuleIds /\ \A i \in Ids(rules) : rules[i] \in Rule
  /\ Ids(stored) \subseteq RuleIds /\ failedIds \subseteq RuleIds
  /\ place \in [Clients -> {"idle", "waits", "holds", "reads", "consults", "persists", "over"}]
  /\ answered \in [Clients -> {"none", "done", "failed"}]

(* Both indexes say of every rule in memory what the rule says, after any  *)
(* sequence of changes, merges and undone changes                          *)
(* (preferenceManager.ts:298 and 653).                                     *)
IndexesMatch ==
  /\ \A t \in Topics : topicIndex[t] = {i \in Ids(rules) : t \in rules[i].topics}
  /\ tokensById = [i \in Ids(rules) |-> rules[i].text]
  /\ \A w \in Tokens : postings[w] = {i \in Ids(rules) : w \in rules[i].text}
  /\ emptyIds = {i \in Ids(rules) : rules[i].text = {}}

(* The index and the length filter find a similar rule if there is one.    *)
SimilarIsFound ==
  \A text \in SUBSET Tokens :
    FindSimilar(text) = {i \in Ids(rules) : Similar(text, rules[i].text)}

(* While nobody writes, the memory is what the file holds: no load that    *)
(* comes late puts an older content over a change, and no change that      *)
(* failed is left to be written by the next one                            *)
(* (preferenceManager.ts:599 and 647).                                     *)
MemoryIsStored ==
  known /\ (\A c \in Clients : place[c] # "persists") => rules = stored

(* A change that the client was told had failed is in no later file.       *)
FailedStaysOut == failedIds \cap Ids(stored) = {}

(* What holds of the preferences at every moment.                          *)
PreferenceInv ==
  PrefTypeOK /\ IndexesMatch /\ SimilarIsFound /\ MemoryIsStored /\ FailedStaysOut

(* Every request that came is answered, although consolidation waits for   *)
(* the model while it holds the mutex.                                     *)
PreferencesOver == \A c \in Clients : place[c] \in {"idle", "over"}
PreferencesEnd == <>[]PreferencesOver
=============================================================================
