-------------------------------- MODULE Topics --------------------------------
(***************************************************************************)
(* Topics of a conversation (crates/adaclaw-memory/src/topic.rs) and what  *)
(* the engine hides of its history when they change (the beginning of      *)
(* run_tool_loop in src/agents/engine.rs).  A message is the set of its    *)
(* words; the engine has no embedder, so topics are told by words.         *)
(***************************************************************************)
EXTENDS Recall

CONSTANTS
  Messages,        \* sets of words
  RollingWindow,   \* ROLLING_WINDOW
  Labels,          \* labels that topics may be registered with, sets of words
  MaxTurns         \* bound

ASSUME TopicsAssumption == RollingWindow \in Nat \ {0} /\ MaxTurns \in Nat

VARIABLES
  topic,           \* current_topic_id; topics are numbered as they are made
  recent,          \* recent_messages
  known,           \* known_topics: id and label
  newest,          \* the last topic id made
  shown,           \* the history: topic of each entry, and whether it is hidden
  spared           \* history: topics whose entries a change of topic did not hide

topicVars == <<topic, recent, known, newest, shown, spared>>

(* An engine begins with what the session store had, under no topic (0). *)
TopicsInit ==
  /\ topic = 1 /\ newest = 1 /\ recent = <<>> /\ known = <<>>
  /\ shown \in {<<>>, <<[topic |-> 0, hidden |-> FALSE]>>}
  /\ spared = {0}

-----------------------------------------------------------------------------
Words(messages) == UNION {messages[i] : i \in DOMAIN messages}

(* intersection_ratio is at least so many percent. *)
Covers(words, of, percent) ==
  of # {} /\ 100 * Cardinality(of \cap words) >= percent * Cardinality(of)

(* Mutant: the window grows by one too many. *)
PushedLate(m) ==
  LET all == Append(recent, m)
  IN IF Len(all) > RollingWindow + 1 THEN Tail(all) ELSE all

(* push_recent_message *)
Pushed(m) ==
  LET all == Append(recent, m)
  IN IF Len(all) > RollingWindow THEN Tail(all) ELSE all

(* check_with_keywords, after the message was pushed. *)
Verdict(m) ==
  LET all == Pushed(m)
      before == Words(SubSeq(all, 1, Len(all) - 1))
  IN CASE Len(all) < 2 \/ before = {} \/ Covers(m, before, 60) -> "same"
       [] Covers(m, before, 30) /\ ~Covers(m, before, 60) -> "drift"
       [] OTHER -> "switched"

(* find_or_create_topic_by_keywords: one of the known topics whose label   *)
(* is best covered by the recent messages, or a new one.                   *)
Candidates(m) == {i \in DOMAIN known : Covers(Words(Pushed(m)), known[i].label, 70)}
Share(i, m) == (100 * Cardinality(known[i].label \cap Words(Pushed(m)))) \div Cardinality(known[i].label)
NextTopics(m) ==
  IF Candidates(m) = {} THEN {newest + 1}
  ELSE {known[i].id : i \in {i \in Candidates(m) : \A j \in Candidates(m) : Share(j, m) <= Share(i, m)}}

-----------------------------------------------------------------------------
AddEntry(entries, t) == Append(entries, [topic |-> t, hidden |-> FALSE])

(* Mutant: what belongs to the topic that is left stays. *)
PrunedOld(t) == [i \in DOMAIN shown |-> [shown[i] EXCEPT !.hidden = @ \/ shown[i].topic # topic]]

(* prune_history_for_topic_switch *)
Pruned(t) == [i \in DOMAIN shown |-> [shown[i] EXCEPT !.hidden = @ \/ shown[i].topic # t]]

(* A message with the words of detect_clean_intent does not touch topics. *)
CleanTurn ==
  /\ shown' = AddEntry(shown, topic)
  /\ UNCHANGED <<topic, recent, known, newest, spared>>

StayTurn(m) ==
  /\ Verdict(m) \in {"same", "drift"}
  /\ recent' = Pushed(m)
  /\ shown' = AddEntry(shown, topic)
  /\ UNCHANGED <<topic, known, newest, spared>>

(* The topic has changed when the model is asked whether the user wants a  *)
(* clean slate; if so, nothing is hidden.                                  *)
SwitchTurn(m, clean) ==
  /\ Verdict(m) = "switched"
  /\ recent' = Pushed(m)
  /\ \E t \in NextTopics(m) :
       /\ topic' = t /\ newest' = IF t > newest THEN t ELSE newest
       /\ shown' = AddEntry(IF clean THEN shown ELSE Pruned(t), t)
       /\ spared' = IF clean THEN spared \cup {shown[i].topic : i \in {i \in DOMAIN shown : ~shown[i].hidden}}
                             ELSE {}
  /\ UNCHANGED known

(* register_topic *)
RegisterTopic(label) ==
  /\ Len(known) < MaxTurns
  /\ \A i \in DOMAIN known : known[i].id # topic
  /\ known' = Append(known, [id |-> topic, label |-> label])
  /\ UNCHANGED <<topic, recent, newest, shown, spared>>

TopicsNext ==
  \/ Len(shown) < MaxTurns /\ \/ CleanTurn
                              \/ \E m \in Messages : StayTurn(m) \/ \E clean \in BOOLEAN : SwitchTurn(m, clean)
  \/ \E label \in Labels : RegisterTopic(label)

TopicsSpec == TopicsInit /\ [][TopicsNext]_topicVars

-----------------------------------------------------------------------------
(* What the model is shown is of the present topic, but for what came from *)
(* the session store and what a wish for a clean slate left standing.      *)
VisibleIsCurrent ==
  \A i \in DOMAIN shown : ~shown[i].hidden => shown[i].topic \in {topic} \cup spared

TopicsTypeOK ==
  /\ topic \in 1..newest /\ newest \in 1..MaxTurns + 1
  /\ Len(recent) <= RollingWindow /\ \A i \in DOMAIN recent : recent[i] \in Messages
  /\ \A i, j \in DOMAIN known : i # j => known[i].id # known[j].id
  /\ \A i \in DOMAIN shown : shown[i].topic \in 0..newest

(* What memory shows belongs to the one it is shown to, and limits and     *)
(* rankings hide no more than they say: recall over all back-ends, and the *)
(* history of the present topic.                                           *)
MemoryShowsItsOwn ==
  /\ RecallObeys /\ RecallMissesOnlyFloods /\ GlobalsComeFirst
  /\ FusionAgrees /\ OriginalIsAsked
  /\ TopicsTypeOK /\ VisibleIsCurrent
=============================================================================
