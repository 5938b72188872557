-------------------------------- MODULE Recall --------------------------------
(***************************************************************************)
(* What a search of the long-term memory returns (sqlite.rs, markdown.rs,  *)
(* global.rs, query.rs and rrf.rs of crates/adaclaw-memory): one question  *)
(* to a memory whose matching entries are given in the order of their      *)
(* rank.                                                                   *)
(***************************************************************************)
EXTENDS Naturals, Sequences, FiniteSets

CONSTANTS
  EntryKinds,    \* entries without their key: category, session, topic
  MaxMatches,    \* bound
  Limits,
  FetchFactor, FetchLeast,   \* 3 and 20
  RankOffset,    \* k of the rank fusion, 60
  Documents,     \* what the two rankings to fuse may name
  MaxQueries     \* 5 parts of a decomposed question

ASSUME RecallAssumption ==
  /\ MaxMatches \in Nat /\ Limits \subseteq Nat /\ IsFiniteSet(Documents)
  /\ FetchFactor \in Nat \ {0} /\ FetchLeast \in Nat
  /\ RankOffset \in Nat /\ MaxQueries \in Nat \ {0}

VARIABLES
  ranked,        \* the entries that match, best first; the key is the rank
  question,
  answer         \* who answered, and what: ranks of entries, documents, or questions

recallVars == <<ranked, question, answer>>

Sessions == {"any", "s1"}
Scopes == {"Clean", "Full", "FactsOnly", "t1"}   \* t1: CurrentTopic

NoQuestion == [limit |-> 0, session |-> "none", scope |-> "none", lists |-> <<>>]

RecallInit ==
  /\ ranked \in UNION {[1..n -> EntryKinds] : n \in 0..MaxMatches}
  /\ question = NoQuestion /\ answer = [by |-> "nobody", result |-> <<>>]

-----------------------------------------------------------------------------
First(n, s) == SubSeq(s, 1, IF n < Len(s) THEN n ELSE Len(s))
Largest(m, n) == IF m < n THEN n ELSE m

(* The n best of some ranks, and some ranks from the best to the worst.    *)
Best(n, ranks) == {i \in ranks : Cardinality({j \in ranks : j < i}) < n}
BestFirst(ranks) ==
  [n \in 1..Cardinality(ranks) |-> CHOOSE i \in ranks : Cardinality({j \in ranks : j < i}) = n - 1]

(* Mutant: conversations of other topics count too. *)
AnyTopic(e, scope) == scope # "Clean" /\ (scope = "FactsOnly" => e.category # "Conversation")

(* scope_matches_entry *)
InScope(e, scope) ==
  CASE scope = "Clean" -> FALSE
    [] scope = "Full" -> TRUE
    [] scope = "FactsOnly" -> e.category # "Conversation"
    [] OTHER -> e.category = "Conversation" => e.topic = scope

OfSession(e, session) == session = "any" \/ e.session = session

(* Mutant: the database stops at the limit. *)
FetchedShort(limit, session) == Best(limit, {i \in DOMAIN ranked : OfSession(ranked[i], session)})

(* SqliteMemory::recall without vectors: the database filters by session   *)
(* and stops after so many rows; the scope is looked at afterwards.        *)
Fetched(limit, session) ==
  Best(Largest(FetchFactor * limit, FetchLeast), {i \in DOMAIN ranked : OfSession(ranked[i], session)})

RecallSqlite(limit, session, scope) ==
  IF scope = "Clean" THEN {}
  ELSE Best(limit, {i \in Fetched(limit, session) : InScope(ranked[i], scope)})

(* MarkdownMemory::recall: the session counts for conversations alone. *)
RecallMarkdown(limit, session, scope) ==
  IF scope = "Clean" THEN {}
  ELSE Best(limit, {i \in DOMAIN ranked :
         /\ ranked[i].category = "Conversation" => OfSession(ranked[i], session)
         /\ InScope(ranked[i], scope)})

(* Mutant: the global entries come last. *)
PrivateFirst(globals, private) == BestFirst(private) \o BestFirst(globals)

GlobalsFirst(globals, private) == BestFirst(globals) \o BestFirst(private)

(* GlobalMemory::recall over SQLite: a search of its own for the global    *)
(* entries comes first.                                                    *)
RecallGlobal(limit, session, scope) ==
  LET Globals == {i \in RecallSqlite(limit, "any", "Full") : ranked[i].category = "Global"}
      Private == {i \in RecallSqlite(limit, session, scope) : ranked[i].category # "Global"}
  IN IF scope = "Clean" THEN <<>> ELSE First(limit, GlobalsFirst(Globals, Private))

(* A score is a fraction; the code's floating point numbers tell them      *)
(* apart for as many ranks as a search has.                                *)
NoShare == [num |-> 0, den |-> 1]
Reciprocal(rank) == [num |-> 1, den |-> RankOffset + rank]
Plus(s, t) == [num |-> s.num * t.den + t.num * s.den, den |-> s.den * t.den]
AtLeast(s, t) == s.num * t.den >= t.num * s.den

PlacesOf(key, list) == {r \in DOMAIN list : list[r] = key}

(* Mutant: the later list decides. *)
WeightLast(key, lists, i) ==
  LET At == PlacesOf(key, lists[i])
  IN IF i = 1 \/ At = {} THEN NoShare ELSE Reciprocal(CHOOSE r \in At : TRUE)

(* 1 / (k + rank + 1), where the first rank is 0. *)
Weight(key, lists, i) ==
  LET At == PlacesOf(key, lists[i])
  IN IF At = {} THEN NoShare ELSE Reciprocal(CHOOSE r \in At : TRUE)

Score(key, lists) == Plus(Weight(key, lists, 1), Weight(key, lists, 2))

(* reciprocal_rank_fusion: any order that the scores allow, for keys of    *)
(* the same score come out of a hash map.                                  *)
Fusions(lists) ==
  LET Found == UNION {{lists[i][j] : j \in DOMAIN lists[i]} : i \in {1, 2}}
      n == Cardinality(Found)
  IN {f \in [1..n -> Found] : \A i, j \in 1..n : i < j =>
        f[i] # f[j] /\ AtLeast(Score(f[i], lists), Score(f[j], lists))}

Rankings == {l \in UNION {[1..n -> Documents] : n \in 0..Cardinality(Documents)} :
               \A i, j \in DOMAIN l : i # j => l[i] # l[j]}

Sayings == {"the question", "a part", "another"}

(* Where something is said for the first time. *)
Once(s) == {i \in DOMAIN s : \A j \in 1..(i - 1) : s[j] # s[i]}

(* Mutant: the question itself is put last. *)
AddLast(said) == Append(said, "the question")

AddOriginal(said) == <<"the question">> \o said

(* parse_sub_queries: the question itself is added when the model did not  *)
(* repeat it, and what is too much is cut off.                             *)
Parts(said) ==
  LET all == IF \E i \in DOMAIN said : said[i] = "the question" THEN said ELSE AddOriginal(said)
      kept == BestFirst(Best(MaxQueries, Once(all)))
  IN [n \in DOMAIN kept |-> all[kept[n]]]

-----------------------------------------------------------------------------
Answer(by, result) ==
  /\ answer' = [by |-> by, result |-> result]
  /\ UNCHANGED ranked

Ask(limit, session, scope) ==
  /\ question' = [NoQuestion EXCEPT !.limit = limit, !.session = session, !.scope = scope]
  /\ \/ Answer("sqlite", BestFirst(RecallSqlite(limit, session, scope)))
     \/ Answer("markdown", BestFirst(RecallMarkdown(limit, session, scope)))
     \/ Answer("global", RecallGlobal(limit, session, scope))

Fuse(lists) ==
  /\ question' = [NoQuestion EXCEPT !.lists = lists]
  /\ \E f \in Fusions(lists) : Answer("fusion", f)

Decompose(said) ==
  /\ question' = [NoQuestion EXCEPT !.lists = <<said>>]
  /\ Answer("decomposition", Parts(said))

(* One question to a memory.  Fusion and decomposition do not look at the  *)
(* entries: asked of the empty memory they are asked of every one.         *)
RecallNext ==
  /\ answer.by = "nobody"
  /\ \/ \E limit \in Limits, session \in Sessions, scope \in Scopes : Ask(limit, session, scope)
     \/ ranked = <<>> /\ \E v, f \in Rankings : Fuse(<<v, f>>)
     \/ ranked = <<>> /\ \E said \in UNION {[1..n -> Sayings] : n \in 0..MaxQueries + 1} : Decompose(said)

RecallSpec == RecallInit /\ [][RecallNext]_recallVars

-----------------------------------------------------------------------------
Backends == {"sqlite", "markdown", "global"}
Result == {answer.result[i] : i \in DOMAIN answer.result}

(* What a question is about: SQLite asks the session of every entry,       *)
(* Markdown that of conversations.                                         *)
Wanted(by) == {i \in DOMAIN ranked :
  /\ InScope(ranked[i], question.scope)
  /\ by = "sqlite" \/ ranked[i].category = "Conversation" => OfSession(ranked[i], question.session)}

(* No more than asked for, nothing twice, and never a conversation of      *)
(* another session or, in the scope of a topic, of another topic.          *)
RecallObeys ==
  answer.by \in Backends =>
    /\ Len(answer.result) <= question.limit /\ Cardinality(Result) = Len(answer.result)
    /\ \A i \in Result : LET e == ranked[i] IN
         /\ question.scope # "Clean" /\ (question.scope = "FactsOnly" => e.category # "Conversation")
         /\ e.category = "Conversation" => /\ OfSession(e, question.session)
                                           /\ question.scope = "t1" => e.topic = "t1"

(* A backend leaves something out only when it returns as much as was      *)
(* asked for, or when (SQLite) more entries match than it fetches.         *)
RecallMissesOnlyFloods ==
  answer.by \in {"sqlite", "markdown"} =>
    \/ Wanted(answer.by) \subseteq Result \/ Len(answer.result) = question.limit
    \/ answer.by = "sqlite" /\ Len(ranked) > Largest(FetchFactor * question.limit, FetchLeast)

(* Shared knowledge comes before the agent's own, and no search for the    *)
(* agent's own hides what the search for all finds.                        *)
GlobalsComeFirst ==
  answer.by = "global" =>
    /\ \A i, j \in DOMAIN answer.result :
         ranked[answer.result[i]].category # "Global" /\ ranked[answer.result[j]].category = "Global" => j < i
    /\ question.scope # "Clean" =>
         \A i \in 1..question.limit : i \in DOMAIN ranked /\ ranked[i].category = "Global" => i \in Result

Knows(list, a) == \E i \in DOMAIN list : list[i] = a
Ahead(list, a, b) == \E i \in DOMAIN list : list[i] = a /\ \A j \in 1..i : list[j] # b

(* What both rankings put first stays first, and what both know comes      *)
(* before what only one knows and puts no higher.                          *)
FusionAgrees ==
  answer.by = "fusion" =>
    \A i, j \in DOMAIN answer.result :
      (\A n \in {1, 2} : \/ Ahead(question.lists[n], answer.result[i], answer.result[j])
                         \/ ~Knows(question.lists[n], answer.result[j])) => i <= j

(* The question itself is among its parts, unless the model repeated it    *)
(* behind more parts than are kept.                                        *)
OriginalIsAsked ==
  answer.by = "decomposition" =>
    \/ "the question" \in Result
    \/ \E i \in DOMAIN question.lists[1] : i > MaxQueries /\ question.lists[1][i] = "the question"
=============================================================================
