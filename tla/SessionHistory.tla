--------------------------- MODULE SessionHistory ---------------------------
(***************************************************************************)
(* What one session of one agent remembers: the history kept by its engine *)
(* (src/src/agents/engine.rs), the context a turn builds from it and       *)
(* compacts on the way (src/src/agents/compact.rs), and the rows of the    *)
(* session store (crates/adaclaw-memory/src/session_store.rs), which       *)
(* detached tasks write in any order and a restart reads.                  *)
(*                                                                         *)
(* A message is known by its turn, its kind and the iteration it belongs   *)
(* to; a summary by the messages it was made of.  What the model answers,  *)
(* whether it calls tools and whether it finds the context too long are    *)
(* free choices.                                                           *)
(***************************************************************************)
EXTENDS Naturals, Sequences

CONSTANTS
  Threshold,      \* ROLLING_THRESHOLD, 30
  Keep,           \* ROLLING_KEEP, 15
  HardMax,        \* HARD_MAX_HISTORY, 60
  HardKeep,       \* HARD_KEEP_RECENT, 20
  RestoreLimit,   \* SESSION_RESTORE_LIMIT, 60
  MaxIterations,  \* DEFAULT_MAX_ITERATIONS, 10
  MaxTurns,       \* bound: messages of the user
  HistoryFaults          \* a subset of {"summary", "context", "store", "crash"}

ASSUME HistoryAssumption ==
  /\ Threshold \in Nat /\ Keep \in Nat /\ HardMax \in Nat /\ HardKeep \in Nat
  /\ RestoreLimit \in Nat /\ MaxIterations \in Nat \ {0} /\ MaxTurns \in Nat
  /\ Keep >= 1 /\ Keep + 2 <= Threshold /\ Threshold <= HardMax
  /\ HardKeep >= 1 /\ HardKeep < HardMax
  /\ HistoryFaults \subseteq {"summary", "context", "store", "crash"}

VARIABLES
  up,        \* the process runs
  phase,     \* of the turn in progress: "idle", "compact", "call"
  turn,      \* the number of the current or last turn
  iter,      \* how often the model has asked for tools in this turn
  retries,   \* context_retry
  history,   \* AgentEngine::history
  hidden,    \* how many of its entries a topic switch has hidden
  seen,      \* the topic manager has seen a message since the engine exists
  context,   \* the messages of the turn in progress
  shortened, \* how the turn has shortened them
  pending,   \* detached writes to the store
  rows,      \* the session's rows in the store
  lost       \* messages whose write failed

turnVars == <<phase, iter, retries, context, shortened>>
historyVars == <<up, phase, turn, iter, retries, history, hidden, seen, context, shortened, pending, rows, lost>>

MessageIds == (1..MaxTurns) \X {"user", "assistant", "call", "result"} \X (0..MaxIterations)
Entries == [kind : {"user", "assistant", "call", "result", "summary"}, of : SUBSET MessageIds]
Writes == [op : {"append", "compact"}, entry : Entries, at : (1..MaxTurns) \X (0..MaxIterations)]

Message(kind, t, i) == [kind |-> kind, of |-> {<<t, kind, i>>}]
Covered(q) == UNION {q[k].of : k \in DOMAIN q}

(* Entries are hidden all at once, so the hidden ones come first: a topic  *)
(* switch always makes a new topic id, for nothing registers old ones.     *)
Visible == SubSeq(history, hidden + 1, Len(history))

HistoryInit ==
  /\ up = TRUE
  /\ phase = "idle" /\ turn = 0 /\ iter = 0 /\ retries = 0
  /\ history = <<>> /\ hidden = 0 /\ seen = FALSE
  /\ context = <<>> /\ shortened = {}
  /\ pending = {} /\ rows = <<>> /\ lost = {}

-----------------------------------------------------------------------------
(* compact.rs. *)

(* Mutant: drops a fixed number instead of keeping one. *)
TrimFixed(q) ==
  IF Len(q) > HardMax THEN <<q[1]>> \o SubSeq(q, HardKeep, Len(q)) ELSE q

Trim(q) ==
  IF Len(q) > HardMax THEN <<q[1]>> \o SubSeq(q, Len(q) - HardKeep + 1, Len(q)) ELSE q

SumEnd(q) == IF Len(q) > Keep + 2 THEN Len(q) - Keep ELSE 2
Digest(q) == [kind |-> "summary", of |-> Covered(SubSeq(q, 2, SumEnd(q)))]
(* Mutant: one message more is dropped than summarised. *)
RolledOneMore(q) == <<q[1], Digest(q)>> \o SubSeq(q, SumEnd(q) + 2, Len(q))
Rolled(q) == <<q[1], Digest(q)>> \o SubSeq(q, SumEnd(q) + 1, Len(q))
HasSummary(q) == Len(q) >= 2 /\ q[2].kind = "summary"
OnlySummary(q) == SumEnd(q) = 2 /\ HasSummary(q)

(* engine.rs, force_compress_messages.  Only a summary has the role of the *)
(* system prompt, which is not among the messages.                         *)
Forced(q) ==
  LET start == IF q[1].kind = "summary" THEN 1 ELSE 0
      drop == (Len(q) - start - 1) \div 2
  IN IF Len(q) <= 4 THEN q
     ELSE SubSeq(q, 1, start) \o SubSeq(q, start + drop + 1, Len(q))

-----------------------------------------------------------------------------
(* push_history: the engine's copy at once, the store's by a task.         *)
Remember(kind, t) ==
  LET e == Message(kind, t, 0)
  IN /\ history' = Append(history, e)
     /\ pending' = pending \cup {[op |-> "append", entry |-> e, at |-> <<t, 0>>]}

(* The topic manager compares a message with earlier ones, so the first it *)
(* sees switches nothing; a clean answer is asked for without it.          *)
CheckTopic(topic) ==
  /\ topic = "switch" => seen
  /\ seen' = (seen \/ topic # "clean")

(* A switch hides what came before. *)
StartTurn(topic) ==
  /\ up /\ phase = "idle" /\ turn < MaxTurns
  /\ CheckTopic(topic)
  /\ turn' = turn + 1
  /\ hidden' = IF topic = "switch" THEN Len(history) ELSE hidden
  /\ Remember("user", turn + 1)
  /\ context' = SubSeq(history', hidden' + 1, Len(history'))
  /\ phase' = "compact" /\ iter' = 0 /\ retries' = 0 /\ shortened' = {}
  /\ UNCHANGED <<up, rows, lost>>

Due == \/ Len(context) >= Threshold
       \/ iter > 0    \* the usage the last response reported

(* auto_compact_history with a summary; a new one is stored by a task,     *)
(* "new" meaning that there was none at its place.                         *)
Summarise ==
  /\ up /\ phase = "compact"
  /\ Due /\ ~OnlySummary(context)
  /\ context' = Trim(Rolled(context))
  /\ shortened' = shortened \cup {"summary"}
  /\ pending' = IF HasSummary(context) THEN pending
                ELSE pending \cup {[op |-> "compact", entry |-> Digest(context), at |-> <<turn, iter>>]}
  /\ phase' = "call" /\ retries' = 0
  /\ UNCHANGED <<up, turn, iter, history, hidden, seen, rows, lost>>

(* Nothing to summarise, or no summary to be had. *)
KeepOrTrim ==
  /\ up /\ phase = "compact"
  /\ Len(context) < Threshold \/ OnlySummary(context) \/ "summary" \in HistoryFaults
  /\ context' = Trim(context)
  /\ shortened' = IF Len(context) > HardMax THEN shortened \cup {"trim"} ELSE shortened
  /\ phase' = "call" /\ retries' = 0
  /\ UNCHANGED <<up, turn, iter, history, hidden, seen, pending, rows, lost>>

(* Mutant: off by one. *)
ForceCompressOnceMore ==
  /\ up /\ phase = "call"
  /\ "context" \in HistoryFaults /\ retries <= 2
  /\ context' = Forced(context)
  /\ shortened' = shortened \cup {"force"}
  /\ retries' = retries + 1
  /\ UNCHANGED <<up, phase, turn, iter, history, hidden, seen, pending, rows, lost>>

(* The provider finds the context too long. *)
ForceCompress ==
  /\ up /\ phase = "call"
  /\ "context" \in HistoryFaults /\ retries < 2
  /\ context' = Forced(context)
  /\ shortened' = shortened \cup {"force"}
  /\ retries' = retries + 1
  /\ UNCHANGED <<up, phase, turn, iter, history, hidden, seen, pending, rows, lost>>

EndTurn == phase' = "idle" /\ iter' = 0 /\ retries' = 0 /\ context' = <<>> /\ shortened' = {}

(* The model asks for tools: only the turn's own context remembers it.     *)
CallTools ==
  /\ up /\ phase = "call"
  /\ IF iter + 1 < MaxIterations
       THEN /\ context' = context \o <<Message("call", turn, iter + 1), Message("result", turn, iter + 1)>>
            /\ iter' = iter + 1 /\ phase' = "compact"
            /\ UNCHANGED <<retries, shortened>>
       ELSE EndTurn
  /\ UNCHANGED <<up, turn, history, hidden, seen, pending, rows, lost>>

(* Mutant: the answer bypasses push_history. *)
AnswerUnstored ==
  /\ up /\ phase = "call"
  /\ history' = Append(history, Message("assistant", turn, 0))
  /\ EndTurn
  /\ UNCHANGED <<up, turn, hidden, seen, pending, rows, lost>>

Answer ==
  /\ up /\ phase = "call"
  /\ Remember("assistant", turn)
  /\ EndTurn
  /\ UNCHANGED <<up, turn, hidden, seen, rows, lost>>

TurnFails ==
  /\ up /\ phase = "call"
  /\ EndTurn
  /\ UNCHANGED <<up, turn, history, hidden, seen, pending, rows, lost>>

-----------------------------------------------------------------------------
(* session_store.rs: append adds a row, compact replaces all of them.      *)
Write(w) ==
  /\ up /\ w \in pending
  /\ pending' = pending \ {w}
  /\ rows' = IF w.op = "append" THEN Append(rows, w.entry) ELSE <<w.entry>>
  /\ UNCHANGED <<up, turn, history, hidden, seen, lost, turnVars>>

(* The error is logged by the task. *)
WriteFails(w) ==
  /\ "store" \in HistoryFaults
  /\ up /\ w \in pending
  /\ pending' = pending \ {w}
  /\ lost' = IF w.op = "append" THEN lost \cup w.entry.of ELSE lost
  /\ UNCHANGED <<up, turn, history, hidden, seen, rows, turnVars>>

(* The process stops, with whatever was not written yet.  The memory is    *)
(* gone; the variables keep its last value until the restart, unread.      *)
Stop ==
  /\ "crash" \in HistoryFaults
  /\ up
  /\ up' = FALSE
  /\ UNCHANGED <<turn, history, hidden, seen, pending, rows, lost, turnVars>>

(* Mutant: the restored rows go through push_history. *)
RestartStored ==
  /\ ~up
  /\ up' = TRUE
  /\ history' = rows
  /\ hidden' = 0 /\ seen' = FALSE
  /\ pending' = {[op |-> "append", entry |-> rows[k], at |-> <<1, 0>>] : k \in DOMAIN rows}
  /\ EndTurn
  /\ UNCHANGED <<turn, rows, lost>>

(* load_sync: the last rows, in the order they were written. *)
Restored ==
  IF Len(rows) > RestoreLimit THEN SubSeq(rows, Len(rows) - RestoreLimit + 1, Len(rows)) ELSE rows

(* with_session_store: what is restored is visible. *)
Restart ==
  /\ ~up
  /\ up' = TRUE
  /\ history' = Restored
  /\ hidden' = 0 /\ seen' = FALSE
  /\ pending' = {}
  /\ EndTurn
  /\ UNCHANGED <<turn, rows, lost>>

HistoryNext ==
  \/ \E topic \in {"same", "switch", "clean"} : StartTurn(topic)
  \/ Summarise \/ KeepOrTrim \/ ForceCompress \/ CallTools \/ Answer \/ TurnFails
  \/ \E w \in pending : Write(w) \/ WriteFails(w)
  \/ Stop \/ Restart

HistorySpec == HistoryInit /\ [][HistoryNext]_historyVars
-----------------------------------------------------------------------------
(* Properties. *)

HistoryTypeOK ==
  /\ up \in BOOLEAN /\ seen \in BOOLEAN
  /\ phase \in {"idle", "compact", "call"}
  /\ turn \in 0..MaxTurns
  /\ iter \in 0..MaxIterations
  /\ retries \in 0..2
  /\ history \in Seq(Entries) /\ hidden \in 0..Len(history)
  /\ context \in Seq(Entries)
  /\ shortened \subseteq {"summary", "trim", "force"}
  /\ pending \subseteq Writes
  /\ rows \in Seq(Entries)
  /\ lost \subseteq MessageIds

(* Whatever the turn did before, the model is never called with more       *)
(* messages than the hard limit, and compaction never reads past the end   *)
(* of a context that is short but heavy.                                   *)
ContextBounded ==
  /\ phase = "call" => Len(context) <= HardMax
  /\ phase = "compact" /\ Due => Len(context) >= SumEnd(context)

(* Rolling compaction forgets nothing: unless the turn was trimmed or      *)
(* compressed by force, the context stands for every visible message of    *)
(* the history, the question included, and for every tool call and result  *)
(* of the turn so far.                                                     *)
ContextComplete ==
  phase # "idle" /\ shortened \subseteq {"summary"} =>
    Covered(context) = Covered(Visible) \cup ({turn} \X {"call", "result"} \X (1..iter))

Twice(q) == \E j, k \in DOMAIN q :
              j # k /\ q[j].kind # "summary" /\ q[k].kind # "summary" /\ q[j].of \cap q[k].of # {}

(* Restarts do not make the conversation say things twice.                 *)
NothingTwice == ~Twice(history) /\ ~Twice(rows)

Appending == {w \in pending : w.op = "append"}
SummaryWritten == \E k \in DOMAIN rows : rows[k].kind = "summary"

(* Only a compaction makes the store forget: as long as none was written,  *)
(* every message the engine knows is in the store, is about to be, or      *)
(* failed to be written, across any number of restarts.                    *)
StoreRemembers ==
  up /\ ~SummaryWritten =>
    Covered(history) \subseteq Covered(rows) \cup (UNION {w.entry.of : w \in Appending}) \cup lost

(* engine.rs: a restart "will restore the conversation exactly where it    *)
(* left off": with every write done and within the restore limit, what the *)
(* engine knew before it knows after.                                      *)
RestartRemembers ==
  [][~up /\ up' /\ pending = {} /\ lost = {} /\ Len(rows) <= RestoreLimit
       => Covered(history) \subseteq Covered(history')]_historyVars

(* engine.rs: the assistant turn is recorded with its calls, which the     *)
(* providers require alongside their results.                              *)
ResultsKeepCalls ==
  phase = "call" =>
    \A k \in DOMAIN context : context[k].kind = "result" =>
      k > 1 /\ context[k-1].kind = "call"

(* The rows of the session store say nothing twice and forget nothing that *)
(* no compaction took, while every variable keeps its type.                *)
StoreIsTrue ==
  HistoryTypeOK /\ NothingTwice /\ StoreRemembers
=============================================================================
