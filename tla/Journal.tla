------------------------------- MODULE Journal -------------------------------
(***************************************************************************)
(* The two logs of one JSON object a line: the runtime trace               *)
(* (src/observability/trace.rs), which may be rolled to its last lines     *)
(* after every entry, and the audit log (crates/adaclaw-security,          *)
(* audit.rs), which grows.  One task at a time has the lock and writes; a  *)
(* reader (the command line, the API) takes no lock, so what it gets is    *)
(* what the file holds at any moment.  The text of an entry and the end of *)
(* its line are two writes.                                                *)
(***************************************************************************)
EXTENDS Naturals, Sequences, FiniteSets

CONSTANTS
  Keeps,        \* max_entries, 0 for a log that is not rolled
  MaxEntries, MaxMishaps   \* bounds

ASSUME JournalAssumption == Keeps \subseteq Nat

VARIABLES
  keep,
  lines,        \* the file: what each line holds, entries by number, 0 for a torn one
  lineOpen,     \* whether the last line is without its end
  writing,      \* the entry being written, and how far that is
  inHand,       \* the lines that trim_to_last writes back
  entered,      \* history: entries whose record or log returned, in order
  lastEntry,
  mishaps,      \* history: crashes and failed writes
  wiped         \* history: one of them while the file was written back

journalVars == <<keep, lines, lineOpen, writing, inHand, entered, lastEntry, mishaps, wiped>>

NotWriting == [entry |-> 0, at |-> "none"]

JournalInit ==
  /\ keep \in Keeps
  /\ lines = <<>> /\ lineOpen = FALSE
  /\ writing = NotWriting /\ inHand = <<>>
  /\ entered = <<>> /\ lastEntry = 0
  /\ mishaps = 0 /\ wiped = FALSE

-----------------------------------------------------------------------------
(* record, and log of the audit log: the lock is taken. *)
BeginEntry ==
  /\ writing.at = "none" /\ lastEntry < MaxEntries
  /\ lastEntry' = lastEntry + 1
  /\ writing' = [entry |-> lastEntry', at |-> "text"]
  /\ UNCHANGED <<keep, lines, lineOpen, inHand, entered, mishaps, wiped>>

WithText(e) ==
  IF lineOpen THEN [lines EXCEPT ![Len(lines)] = Append(@, e)] ELSE Append(lines, <<e>>)

WriteText ==
  /\ writing.at = "text"
  /\ lines' = WithText(writing.entry) /\ lineOpen' = TRUE
  /\ writing' = [writing EXCEPT !.at = "end of line"]
  /\ UNCHANGED <<keep, inHand, entered, lastEntry, mishaps, wiped>>

WriteEnd ==
  /\ writing.at = "end of line"
  /\ lineOpen' = FALSE
  /\ writing' = [writing EXCEPT !.at = "written"]
  /\ UNCHANGED <<keep, lines, inHand, entered, lastEntry, mishaps, wiped>>

(* The disk is full: some of the text or none is written, or no end of the *)
(* line.  The error is logged at most.                                     *)
WriteStops ==
  /\ writing.at \in {"text", "end of line"} /\ mishaps < MaxMishaps
  /\ \/ /\ writing.at = "text"
        /\ lines' = WithText(0) /\ lineOpen' = TRUE
     \/ UNCHANGED <<lines, lineOpen>>
  /\ writing' = [writing EXCEPT !.at = "written"]
  /\ mishaps' = mishaps + 1
  /\ UNCHANGED <<keep, inHand, entered, lastEntry, wiped>>

(* Mutant: one line too few. *)
KeptOneLess(all) == SubSeq(all, Len(all) - keep + 2, Len(all))

(* Mutant: what follows a line that cannot be parsed is not looked at. *)
KeptWhileGood(all) ==
  LET bad == {i \in DOMAIN all : Len(all[i]) # 1 \/ all[i] = <<0>>}
      good == IF bad = {} THEN Len(all) ELSE (CHOOSE i \in bad : \A j \in bad : i <= j) - 1
  IN IF good < Len(all) THEN SubSeq(all, 1, good) ELSE SubSeq(all, Len(all) - keep + 1, Len(all))

KeptLines(all) == SubSeq(all, Len(all) - keep + 1, Len(all))

(* trim_to_last reads the file; lines that cannot be parsed count as well. *)
TrimToLast ==
  /\ writing.at = "written" /\ keep > 0 /\ Len(lines) > keep
  /\ inHand' = KeptLines(lines)
  /\ writing' = [writing EXCEPT !.at = "truncate"]
  /\ UNCHANGED <<keep, lines, lineOpen, entered, lastEntry, mishaps, wiped>>

(* fs::write empties the file and then writes. *)
Truncate ==
  /\ writing.at = "truncate"
  /\ lines' = <<>> /\ lineOpen' = FALSE
  /\ writing' = [writing EXCEPT !.at = "write back"]
  /\ UNCHANGED <<keep, inHand, entered, lastEntry, mishaps, wiped>>

Returns ==
  /\ entered' = Append(entered, writing.entry)
  /\ writing' = NotWriting /\ inHand' = <<>>

WriteBack ==
  /\ writing.at = "write back"
  /\ lines' = inHand /\ lineOpen' = FALSE
  /\ Returns
  /\ UNCHANGED <<keep, lastEntry, mishaps, wiped>>

WriteBackFails ==
  /\ writing.at \in {"truncate", "write back"} /\ mishaps < MaxMishaps
  /\ mishaps' = mishaps + 1
  /\ wiped' = (writing.at = "write back" \/ wiped)
  /\ Returns
  /\ UNCHANGED <<keep, lines, lineOpen, lastEntry>>

NothingToTrim ==
  /\ writing.at = "written" /\ (keep = 0 \/ Len(lines) <= keep)
  /\ Returns
  /\ UNCHANGED <<keep, lines, lineOpen, lastEntry, mishaps, wiped>>

(* The process ends and starts again; the file is opened for appending. *)
Restarts ==
  /\ writing.at # "none" /\ mishaps < MaxMishaps
  /\ writing' = NotWriting /\ inHand' = <<>>
  /\ mishaps' = mishaps + 1
  /\ wiped' = (writing.at = "write back" \/ wiped)
  /\ UNCHANGED <<keep, lines, lineOpen, entered, lastEntry>>

JournalNext ==
  \/ BeginEntry \/ WriteText \/ WriteEnd \/ WriteStops
  \/ TrimToLast \/ Truncate \/ WriteBack \/ WriteBackFails \/ NothingToTrim
  \/ Restarts

JournalSpec == JournalInit /\ [][JournalNext]_journalVars

-----------------------------------------------------------------------------
(* load_events_from_path, read_all: a line that is not one entry is left   *)
(* out without a word.                                                     *)
Readable == {i \in DOMAIN lines : Len(lines[i]) = 1 /\ lines[i] # <<0>>}
EntriesRead == {lines[i][1] : i \in Readable}

Last(s, n) == IF n = 0 \/ Len(s) <= n THEN s ELSE SubSeq(s, Len(s) - n + 1, Len(s))
EntriesIn(s) == {s[i] : i \in DOMAIN s}

(* Whenever somebody reads, entries come in the order of their calls and   *)
(* none comes twice; between two entries and as long as nothing has gone   *)
(* wrong, the file holds the last ones, as many as are to be kept, each on *)
(* a line of its own, and nothing else.                                    *)
LatestAreRead ==
  /\ \A i, j \in Readable : i < j => lines[i][1] < lines[j][1]
  /\ writing.at = "none" /\ mishaps = 0 =>
       LET latest == Last(entered, keep) IN lines = [i \in DOMAIN latest |-> <<latest[i]>>]

(* A crash or a full disk costs little, unless it strikes while the file   *)
(* is written back: its own entry, and the next one, which lands on the    *)
(* line that was not ended.                                                *)
MishapsCostLittle ==
  writing.at = "none" /\ ~wiped =>
    Cardinality(EntriesIn(Last(entered, keep)) \ EntriesRead) <= 2 * mishaps
=============================================================================
