----------------------------- MODULE LastActive -----------------------------
(***************************************************************************)
(* The conversation a user was last active in (src/src/state/mod.rs): one  *)
(* value in memory, and a file that detached tasks replace by writing      *)
(* "state-<pid>.tmp" and renaming it.                                      *)
(*                                                                         *)
(* The file system is the one of POSIX: a path names a file, opening a     *)
(* path for writing empties the file it names, a rename moves the path and *)
(* leaves a file that is still being written as it is.  A file is known by *)
(* the save that created it, and 0 is none.  Reads of the last value have  *)
(* no effect and are part of the steps that use it.                        *)
(***************************************************************************)
EXTENDS Naturals

CONSTANTS
  Conversations,   \* what update_last_active is told: a channel and a session id
  Nobody,          \* DaemonState::default
  Empty, Torn,     \* content of a file that is not a whole state
  MaxSaves,        \* bound: saves
  DiskFaults       \* whether saves may fail

ASSUME LastActiveAssumption ==
  /\ {Nobody, Empty, Torn} \cap Conversations = {}
  /\ Nobody # Empty /\ Nobody # Torn /\ Empty # Torn
  /\ MaxSaves \in Nat /\ DiskFaults \in BOOLEAN

VARIABLES
  up,          \* the daemon runs
  last,        \* last_channel and last_session_id
  saves,       \* the saves so far: what each stores, where it is, the file it has open
  tmp, file,   \* the files named state-<pid>.tmp and state.json
  data,        \* file -> its content
  overlapped,  \* a save began while another was under way
  failed,      \* a save failed
  kept         \* what the last rename put in place

stateVars == <<last, saves, tmp, file, data, overlapped, failed, kept>>

Saves == 1..MaxSaves
Files == 0..MaxSaves
Contents == Conversations \cup {Empty, Torn}
Stages == {"none", "new", "opened", "written", "missed", "over"}
Under == {"new", "opened", "written", "missed"}

Saving == {k \in Saves : saves[k].stage \in Under}
Made == {k \in Saves : saves[k].stage # "none"}

InitState ==
  /\ up = TRUE
  /\ last = Nobody
  /\ saves = [k \in Saves |-> [what |-> Nobody, stage |-> "none", into |-> 0]]
  /\ tmp = 0 /\ file = 0
  /\ data = [k \in Saves |-> Empty]
  /\ overlapped = FALSE /\ failed = FALSE
  /\ kept = Nobody

(* update_last_active.  Only the dispatch loop calls it, one message after *)
(* another, so its two locks cannot come apart.                            *)
Record(c) ==
  IF last = c
    THEN UNCHANGED stateVars
    ELSE \E k \in Saves \ Made :
           /\ \A j \in Saves \ Made : k <= j
           /\ last' = c
           /\ saves' = [saves EXCEPT ![k] = [what |-> c, stage |-> "new", into |-> 0]]
           /\ overlapped' = (overlapped \/ Saving # {})
           /\ UNCHANGED <<tmp, file, data, failed, kept>>

-----------------------------------------------------------------------------
(* save_to_disk, one system call after the other. *)

(* Mutant: the state file is written in place. *)
OpenInPlace(k) ==
  /\ saves[k].stage = "new"
  /\ LET f == IF file = 0 THEN k ELSE file
     IN /\ file' = f
        /\ data' = [data EXCEPT ![f] = Empty]
        /\ saves' = [saves EXCEPT ![k] = [what |-> @.what, stage |-> "opened", into |-> f]]
  /\ UNCHANGED <<last, tmp, overlapped, failed, kept>>

(* fs::write opens the file, creating or emptying it ... *)
OpenTmp(k) ==
  /\ saves[k].stage = "new"
  /\ LET f == IF tmp = 0 THEN k ELSE tmp
     IN /\ tmp' = f
        /\ data' = [data EXCEPT ![f] = Empty]
        /\ saves' = [saves EXCEPT ![k] = [what |-> @.what, stage |-> "opened", into |-> f]]
  /\ UNCHANGED <<last, file, overlapped, failed, kept>>

(* ... and writes from its start: over another save's text, whatever of it *)
(* is longer stays.                                                        *)
WriteTmp(k) ==
  /\ saves[k].stage = "opened"
  /\ \E content \in {saves[k].what, Torn} :
       /\ content = Torn => data[saves[k].into] # Empty
       /\ data' = [data EXCEPT ![saves[k].into] = content]
  /\ saves' = [saves EXCEPT ![k].stage = "written"]
  /\ UNCHANGED <<last, tmp, file, overlapped, failed, kept>>

(* The path is renamed, whoever's file it names by now. *)
RenameTmp(k) ==
  /\ saves[k].stage = "written"
  /\ tmp # 0
  /\ file' = tmp /\ tmp' = 0
  /\ kept' = saves[k].what
  /\ saves' = [saves EXCEPT ![k].stage = "over"]
  /\ UNCHANGED <<last, data, overlapped, failed>>

RenameMissed(k) ==
  /\ saves[k].stage = "written"
  /\ tmp = 0
  /\ saves' = [saves EXCEPT ![k].stage = "missed"]
  /\ failed' = TRUE
  /\ UNCHANGED <<last, tmp, file, data, overlapped, kept>>

RemoveTmp(k) ==
  /\ saves[k].stage = "missed"
  /\ tmp' = 0
  /\ saves' = [saves EXCEPT ![k].stage = "over"]
  /\ UNCHANGED <<last, file, data, overlapped, failed, kept>>

(* Opening or writing fails: the task logs it and ends. *)
SaveFails(k) ==
  /\ DiskFaults
  /\ saves[k].stage \in {"new", "opened"}
  /\ saves' = [saves EXCEPT ![k].stage = "over"]
  /\ failed' = TRUE
  /\ UNCHANGED <<last, tmp, file, data, overlapped, kept>>

SaveStep(k) ==
  OpenTmp(k) \/ WriteTmp(k) \/ RenameTmp(k) \/ RenameMissed(k) \/ RemoveTmp(k) \/ SaveFails(k)

(* load_from_disk: what cannot be parsed counts as nothing. *)
Stored == IF file = 0 \/ data[file] \notin Conversations THEN Nobody ELSE data[file]

(* The process ends, with the saves that were under way. *)
StopSaving ==
  /\ saves' = [k \in Saves |-> IF k \in Saving THEN [saves[k] EXCEPT !.stage = "over"] ELSE saves[k]]
  /\ UNCHANGED <<last, tmp, file, data, overlapped, failed, kept>>

(* A new process has another temporary file. *)
Load ==
  /\ last' = Stored
  /\ tmp' = 0
  /\ UNCHANGED <<saves, file, data, overlapped, failed, kept>>
-----------------------------------------------------------------------------
StateTypeOK ==
  /\ up \in BOOLEAN
  /\ last \in Conversations \cup {Nobody}
  /\ saves \in [Saves -> [what : Conversations \cup {Nobody}, stage : Stages, into : Files]]
  /\ tmp \in Files /\ file \in Files
  /\ data \in [Saves -> Contents]
  /\ overlapped \in BOOLEAN /\ failed \in BOOLEAN
  /\ kept \in Conversations \cup {Nobody}

(* As long as saves follow one another, the file always holds the whole    *)
(* state of the last save that got as far as its rename, so that a crash   *)
(* at any point loses nothing older; and when all have succeeded it holds  *)
(* what the memory holds.                                                  *)
Durable ==
  ~overlapped =>
    /\ Stored = kept
    /\ file # 0 => data[file] \in Conversations
    /\ up /\ Saving = {} /\ ~failed => Stored = last
=============================================================================
