----------------------------- MODULE WecomTasks ------------------------------
(***************************************************************************)
(* What becomes of the messages of the WeChat Work channel                 *)
(* (crates/adaclaw-channels/src/wechat_work.rs): each delivery is answered *)
(* at once and worked through by a task of its own, and a set of ids, that *)
(* all tasks share, keeps out what was delivered before.                   *)
(***************************************************************************)
EXTENDS Webhooks

CONSTANTS
  MsgIds,         \* msgid of a message; "" is a message without one
  Capacity,       \* ids that are remembered before all are forgotten, 1000
  MaxTasks        \* bound: deliveries

ASSUME WecomAssumption == Capacity \in Nat /\ MaxTasks \in Nat

VARIABLES
  tasks,          \* deliveries that a task works on: number -> id and step
  processed,      \* processed_msgs
  accepted        \* history: the ids that were let through, in order

wecomVars == <<tasks, processed, accepted>>

WecomInit == tasks = <<>> /\ processed = {} /\ accepted = <<>>

(* handle_wecom_message: the platform may deliver a message again. *)
Spawn ==
  /\ Len(tasks) < MaxTasks
  /\ \E id \in MsgIds : tasks' = Append(tasks, [id |-> id, step |-> "new"])
  /\ UNCHANGED <<processed, accepted>>

(* Mutant: the ids are looked up, and nobody writes them down. *)
RememberNothing(id) == UNCHANGED processed

(* Mutant: nothing is forgotten. *)
RememberAll(id) == processed' = processed \cup {id}

(* An id joins those remembered, after these were forgotten if there are   *)
(* more than Capacity.                                                     *)
Remember(id) ==
  processed' = (IF Cardinality(processed) > Capacity THEN {} ELSE processed) \cup {id}

(* process_wecom_message up to handle_message; is_duplicate holds the lock. *)
Check(n) ==
  LET id == tasks[n].id
  IN /\ tasks[n].step = "new"
     /\ \/ /\ id = ""
           /\ tasks' = [tasks EXCEPT ![n].step = "accepted"]
           /\ UNCHANGED <<processed, accepted>>
        \/ /\ id # "" /\ id \in processed
           /\ tasks' = [tasks EXCEPT ![n].step = "done"]
           /\ UNCHANGED <<processed, accepted>>
        \/ /\ id # "" /\ id \notin processed
           /\ Remember(id)
           /\ accepted' = Append(accepted, id)
           /\ tasks' = [tasks EXCEPT ![n].step = "accepted"]

(* handle_message; the message may be refused, or lost at a full bus. *)
PassOn(n) ==
  /\ tasks[n].step = "accepted"
  /\ tasks' = [tasks EXCEPT ![n].step = "done"]
  /\ UNCHANGED <<processed, accepted>>

WecomNext ==
  \/ Spawn
  \/ \E n \in DOMAIN tasks : Check(n) \/ PassOn(n)

WecomSpec == WecomInit /\ [][WecomNext]_wecomVars

-----------------------------------------------------------------------------
WecomTypeOK ==
  /\ \A n \in DOMAIN tasks : tasks[n].id \in MsgIds /\ tasks[n].step \in {"new", "accepted", "done"}
  /\ processed \subseteq MsgIds \ {""} /\ Cardinality(processed) <= Capacity + 1
  /\ accepted \in Seq(MsgIds \ {""})

(* An id is let through again only after all were forgotten, and that      *)
(* takes Capacity + 1 ids each time.                                       *)
WecomRepeats ==
  \A i \in DOMAIN accepted :
    Cardinality({j \in DOMAIN accepted : accepted[j] = accepted[i]})
      <= 1 + (Len(accepted) - 1) \div (Capacity + 1)

(* What platforms push is taken from genuine posts only and once per       *)
(* delivery, by the one channel of its kind, and again only after its id   *)
(* was forgotten.                                                          *)
PostsAreHandledOnce ==
  /\ WebhookTypeOK /\ GenuineOncePerDelivery /\ OneOfAKind
  /\ WecomTypeOK /\ WecomRepeats
=============================================================================
