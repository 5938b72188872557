------------------------------- MODULE Approval -------------------------------
(***************************************************************************)
(* Approvals of tool calls (crates/adaclaw-security/src/approval.rs) in    *)
(* Supervised mode: a call is decided by a sequence of looks at lists,     *)
(* each under a lock of its own, while others change the lists.  What no   *)
(* list decides is put to the user at the terminal, or becomes a pending   *)
(* request that its requester confirms or rejects before it expires.       *)
(*                                                                         *)
(* In ReadOnly mode every call is denied and in Full mode every call is    *)
(* approved, at once.                                                      *)
(***************************************************************************)
EXTENDS Naturals, Sequences, FiniteSets

CONSTANTS
  ToolNames,
  People,         \* requesters: sender, channel and reply target in one
  AutoLists, AskLists,   \* what auto_approve and always_ask may be at first
  RequestLife,    \* approval_timeout_minutes
  LogCap, LogCut, \* 10000 and 1000
  MaxCalls, MaxChanges, MaxMinutes   \* bounds

ASSUME ApprovalAssumption ==
  /\ AutoLists \subseteq SUBSET ToolNames /\ AskLists \subseteq SUBSET ToolNames
  /\ LogCap \in Nat /\ LogCut \in 1..LogCap
  /\ {RequestLife, MaxCalls, MaxChanges, MaxMinutes} \subseteq Nat

VARIABLES
  minute,
  interactive,    \* whether there is a terminal; chosen when the manager is made
  autoApprove, alwaysAsk, sessionList, nonCliList,   \* the lists
  applying,       \* tools between the two halves of apply_auto_approve
  onceLeft,       \* non_cli_allow_all_once
  requests,       \* ids in pending_requests
  calls,          \* of approve_tool: tool, requester, step, verdict and its reason
  auditLog,       \* the calls that were logged, in order
  grants,         \* history: how often allow-all-once was granted
  changes,        \* how often others changed the lists, for the bound
  everAuto,       \* history: tools that were ever on auto_approve
  made,           \* history: the requests by id: tool, requester and expiry
  settled,        \* history: requests confirmed or rejected: id, by whom, when
  cleared         \* history: requests dropped with their tool

approvalVars == <<minute, interactive, autoApprove, alwaysAsk, sessionList, nonCliList, applying,
                  onceLeft, requests, calls, auditLog, grants, changes, everAuto, made, settled, cleared>>
lists == <<autoApprove, alwaysAsk, sessionList, nonCliList, applying, everAuto, changes>>
book == <<requests, made, settled, cleared>>

ApprovalInit ==
  /\ minute = 0 /\ interactive \in BOOLEAN /\ cleared = {}
  /\ autoApprove \in AutoLists /\ alwaysAsk \in AskLists /\ everAuto = autoApprove
  /\ sessionList = {} /\ nonCliList = {} /\ applying = {} /\ onceLeft = 0 /\ grants = 0 /\ changes = 0
  /\ calls = <<>> /\ auditLog = <<>> /\ requests = {} /\ made = <<>> /\ settled = <<>>

Minute ==
  /\ minute < MaxMinutes
  /\ minute' = minute + 1
  /\ UNCHANGED <<interactive, lists, onceLeft, book, calls, auditLog, grants>>

-----------------------------------------------------------------------------
(* What others do to the lists meanwhile. *)

Change == changes < MaxChanges /\ changes' = changes + 1

GrantOnce ==
  /\ Change
  /\ onceLeft' = onceLeft + 1 /\ grants' = grants + 1
  /\ UNCHANGED <<minute, interactive, autoApprove, alwaysAsk, sessionList, nonCliList, applying, everAuto, book,
                 calls, auditLog>>

(* grant_non_cli_session and revoke_non_cli_session. *)
ChangeNonCli ==
  /\ Change
  /\ \E t \in ToolNames : nonCliList' \in {nonCliList \cup {t}, nonCliList \ {t}}
  /\ UNCHANGED <<minute, interactive, autoApprove, alwaysAsk, sessionList, applying, everAuto, onceLeft, book,
                 calls, auditLog, grants>>

(* apply_auto_approve: one list after the other. *)
ApplyAuto(t) ==
  /\ Change
  /\ autoApprove' = autoApprove \cup {t} /\ everAuto' = everAuto \cup {t}
  /\ applying' = applying \cup {t}
  /\ UNCHANGED <<minute, interactive, alwaysAsk, sessionList, nonCliList, onceLeft, book, calls, auditLog, grants>>

ApplyAutoEnds(t) ==
  /\ t \in applying
  /\ applying' = applying \ {t} /\ alwaysAsk' = alwaysAsk \ {t}
  /\ UNCHANGED <<minute, interactive, autoApprove, sessionList, nonCliList, everAuto, changes, onceLeft, book,
                 calls, auditLog, grants>>

RevokeAuto(t) ==
  /\ Change
  /\ autoApprove' = autoApprove \ {t}
  /\ UNCHANGED <<minute, interactive, alwaysAsk, sessionList, nonCliList, applying, everAuto, onceLeft, book,
                 calls, auditLog, grants>>

-----------------------------------------------------------------------------
(* approve_tool_internal. *)

Call(t, p) ==
  /\ Len(calls) < MaxCalls
  /\ calls' = Append(calls, [tool |-> t, by |-> p, step |-> "auto", approved |-> FALSE, reason |-> ""])
  /\ UNCHANGED <<minute, interactive, lists, onceLeft, book, auditLog, grants>>

To(n, step) == calls' = [calls EXCEPT ![n].step = step]
Decide(n, yes, why) ==
  calls' = [calls EXCEPT ![n].step = "log", ![n].approved = yes, ![n].reason = why]

(* A look at one list: found decides the call, else the next look follows. *)
Look(n, step, found, why, next) ==
  /\ calls[n].step = step
  /\ IF found THEN Decide(n, TRUE, why) ELSE To(n, next)
  /\ UNCHANGED <<minute, interactive, lists, book, auditLog, grants, onceLeft>>

LookAuto(n) == Look(n, "auto", calls[n].tool \in autoApprove, "auto_approve", "always")

(* Mutant: the list is not asked. *)
SkipAlways(n) ==
  /\ calls[n].step = "always"
  /\ To(n, "once")
  /\ UNCHANGED <<minute, interactive, lists, onceLeft, book, auditLog, grants>>

LookAlways(n) ==
  /\ calls[n].step = "always"
  /\ To(n, IF calls[n].tool \in alwaysAsk THEN "ask" ELSE "once")
  /\ UNCHANGED <<minute, interactive, lists, onceLeft, book, auditLog, grants>>

(* Mutant: looking and taking are not one step. *)
KeepOnce(n) == Look(n, "once", onceLeft > 0, "allow_all_once", "session")

(* consume_non_cli_allow_all_once *)
TakeOnce(n) ==
  /\ calls[n].step = "once"
  /\ IF onceLeft > 0 THEN Decide(n, TRUE, "allow_all_once") /\ onceLeft' = onceLeft - 1
                     ELSE To(n, "session") /\ UNCHANGED onceLeft
  /\ UNCHANGED <<minute, interactive, lists, book, auditLog, grants>>

LookSession(n) == Look(n, "session", calls[n].tool \in sessionList, "session_allowlist", "nonCli")
LookNonCli(n) == Look(n, "nonCli", calls[n].tool \in nonCliList, "non_cli_session", "ask")

(* prompt_interactive: yes, no, or always. *)
Prompt(n) ==
  /\ calls[n].step = "ask" /\ interactive
  /\ \/ \E yes \in BOOLEAN : Decide(n, yes, "cli") /\ UNCHANGED sessionList
     \/ Decide(n, TRUE, "cli") /\ sessionList' = sessionList \cup {calls[n].tool}
  /\ UNCHANGED <<minute, interactive, autoApprove, alwaysAsk, nonCliList, applying, everAuto, changes, onceLeft,
                 book, auditLog, grants>>

Expired(id) == made[id].expires <= minute
Live == {id \in requests : ~Expired(id)}

(* Mutant: every call makes a request of its own. *)
SameRequestNever(n) == {}

SameRequest(n) == {id \in Live : made[id].tool = calls[n].tool /\ made[id].by = calls[n].by}

(* create_pending_request; the call is denied. *)
RequestApproval(n) ==
  /\ calls[n].step = "ask" /\ ~interactive
  /\ IF SameRequest(n) # {}
     THEN requests' = Live /\ UNCHANGED made
     ELSE /\ made' = Append(made, [tool |-> calls[n].tool, by |-> calls[n].by,
                                   expires |-> minute + RequestLife])
          /\ requests' = Live \cup {Len(made')}
  /\ Decide(n, FALSE, "requested")
  /\ UNCHANGED <<minute, interactive, lists, onceLeft, auditLog, grants, settled, cleared>>

(* Mutant: the log is never cut. *)
RecordUncut(n) ==
  /\ calls[n].step = "log"
  /\ auditLog' = Append(auditLog, n)
  /\ To(n, "done")
  /\ UNCHANGED <<minute, interactive, lists, onceLeft, book, grants>>

(* record_decision_str *)
Record(n) ==
  /\ calls[n].step = "log"
  /\ auditLog' = Append(IF Len(auditLog) >= LogCap THEN SubSeq(auditLog, LogCut + 1, Len(auditLog))
                                                    ELSE auditLog, n)
  /\ To(n, "done")
  /\ UNCHANGED <<minute, interactive, lists, onceLeft, book, grants>>

-----------------------------------------------------------------------------
(* Mutant: a request that somebody else tried to settle is gone. *)
SettleDrops(id, p) ==
  /\ requests' = Live \ {id}
  /\ settled' = IF id \in Live /\ made[id].by = p
                THEN Append(settled, [id |-> id, by |-> p, at |-> minute]) ELSE settled
  /\ UNCHANGED <<minute, interactive, lists, onceLeft, calls, auditLog, grants, made, cleared>>

(* confirm_pending_request and reject_pending_request: what has expired    *)
(* goes first; a request that is somebody else's is put back.              *)
Settle(id, p) ==
  /\ LET mine == id \in Live /\ made[id].by = p
     IN /\ requests' = IF mine THEN Live \ {id} ELSE Live
        /\ settled' = IF mine THEN Append(settled, [id |-> id, by |-> p, at |-> minute]) ELSE settled
  /\ UNCHANGED <<minute, interactive, lists, onceLeft, calls, auditLog, grants, made, cleared>>

(* clear_pending_for_tool *)
ClearPending(t) ==
  /\ \E id \in requests : made[id].tool = t
  /\ requests' = {id \in requests : made[id].tool # t}
  /\ cleared' = cleared \cup (requests \ requests')
  /\ UNCHANGED <<minute, interactive, lists, onceLeft, calls, auditLog, grants, made, settled>>

ApprovalNext ==
  \/ Minute \/ GrantOnce \/ ChangeNonCli
  \/ \E t \in ToolNames :
       ApplyAuto(t) \/ ApplyAutoEnds(t) \/ RevokeAuto(t) \/ ClearPending(t)
  \/ \E t \in ToolNames, p \in People : Call(t, p)
  \/ \E n \in DOMAIN calls :
       \/ LookAuto(n) \/ LookAlways(n) \/ TakeOnce(n) \/ LookSession(n) \/ LookNonCli(n)
       \/ Prompt(n) \/ RequestApproval(n) \/ Record(n)
  \/ \E id \in DOMAIN made, p \in People : Settle(id, p)

ApprovalSpec == ApprovalInit /\ [][ApprovalNext]_approvalVars

-----------------------------------------------------------------------------
ApprovalTypeOK ==
  /\ minute \in 0..MaxMinutes /\ onceLeft \in 0..MaxChanges /\ changes \in 0..MaxChanges
  /\ autoApprove \cup alwaysAsk \cup sessionList \cup nonCliList \cup applying \subseteq ToolNames
  /\ requests \subseteq DOMAIN made
  /\ Len(auditLog) <= LogCap
  /\ \A i, j \in DOMAIN auditLog : i # j => auditLog[i] # auditLog[j]

ApprovedFor(why) == {n \in DOMAIN calls : calls[n].approved /\ calls[n].reason = why}

(* Each grant of allow-all-once lets one call through, and no call without *)
(* a grant, however many calls look at the counter at once.                *)
OnceIsOnce == Cardinality(ApprovedFor("allow_all_once")) + onceLeft = grants

(* A tool on always_ask that never was on auto_approve runs only when the  *)
(* user at the terminal says so.                                           *)
AlwaysAskIsAsked ==
  \A n \in DOMAIN calls :
    calls[n].approved /\ calls[n].tool \in alwaysAsk \ everAuto => calls[n].reason = "cli"

(* A request is settled at most once, by the one who made it, in time; and *)
(* until then it stays, whoever else tries, unless its tool is cleared.    *)
RequestsAreOwn ==
  /\ \A i \in DOMAIN settled : LET s == settled[i] IN
       made[s.id].by = s.by /\ (made[s.id].expires > s.at)
  /\ \A i, j \in DOMAIN settled : i # j => settled[i].id # settled[j].id
  /\ \A id \in DOMAIN made :
       ~Expired(id) => id \in requests \cup cleared \/ \E i \in DOMAIN settled : settled[i].id = id

(* Nobody has two live requests for one tool. *)
OneRequestEach ==
  \A i, j \in Live : i # j => made[i].tool # made[j].tool \/ made[i].by # made[j].by

(* What the approval manager promises its users, however their calls,      *)
(* answers and changes of the lists interleave.                            *)
ApprovalHolds ==
  /\ ApprovalTypeOK
  /\ OnceIsOnce
  /\ AlwaysAskIsAsked
  /\ RequestsAreOwn
  /\ OneRequestEach
=============================================================================
