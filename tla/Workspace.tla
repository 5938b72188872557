------------------------------ MODULE Workspace ------------------------------
(***************************************************************************)
(* The tools that work on the files of the workspace (crates/adaclaw-tools,*)
(* file.rs and shell.rs): file_read, file_write with and without append,   *)
(* and shell.  The calls of a model's answer run at the same time, and all *)
(* agents share the workspace, so calls on a file overlap freely.  One     *)
(* file is looked at; its content is a sequence of pieces <<call, number>>.*)
(* safe_path, which reads only, lets every call pass here.                 *)
(*                                                                         *)
(* Outside src/: the runtime's threads for blocking work, where a piece of *)
(* an append is written after it was handed over, and the shell's child    *)
(* process, which nobody ends when its time is up; it appends a piece.     *)
(***************************************************************************)
EXTENDS Naturals, Sequences

CONSTANTS
  FileCalls,    \* the calls of the tools
  Does,         \* what each does: "read", "write", "append" or "shell"
  Pieces,       \* in how many pieces an append or a write comes
  MaxPieces, MaxTroubles   \* bounds; troubles are full disks and exits

ASSUME WorkspaceAssumption ==
  /\ Does \in [FileCalls -> {"read", "write", "append", "shell"}]
  /\ Pieces \in [FileCalls -> 1..MaxPieces] /\ MaxPieces \in Nat
  /\ \A c \in FileCalls : Does[c] = "shell" => Pieces[c] = 1

VARIABLES
  fileText,     \* the pieces that the file holds
  running,      \* "new", "begun", "emptied", "done", or "gone" with the daemon
  toldOf,       \* the result: "none", "ok" or "error"
  handed,       \* pieces handed to the runtime, or all that a command does
  landed,       \* which of them were dealt with
  missed,       \* history: pieces that were not written
  texts,        \* what reads have returned
  touched,      \* history: calls that a write overlapped, from its begin on
  troubles

workspaceVars == <<fileText, running, toldOf, handed, landed, missed, texts, touched, troubles>>

Of(kind) == {c \in FileCalls : Does[c] = kind}
TextOf(c) == [i \in 1..Pieces[c] |-> <<c, i>>]

WorkspaceInit ==
  /\ fileText = <<>>
  /\ running = [c \in FileCalls |-> "new"] /\ toldOf = [c \in FileCalls |-> "none"]
  /\ handed = [c \in FileCalls |-> 0] /\ landed = [c \in FileCalls |-> {}]
  /\ missed = {} /\ texts = [c \in Of("read") |-> <<>>]
  /\ touched = {} /\ troubles = 0

Told(c, result) ==
  /\ toldOf' = [toldOf EXCEPT ![c] = result]
  /\ running' = [running EXCEPT ![c] = "done"]

-----------------------------------------------------------------------------
Under(kind) == {c \in Of(kind) : running[c] \in {"begun", "emptied"}}
Begun == {c \in FileCalls : running[c] # "new"}

(* execute, up to where the file is opened or the command spawned. *)
BeginCall(c) ==
  /\ running[c] = "new"
  /\ running' = [running EXCEPT ![c] = "begun"]
  /\ handed' = [handed EXCEPT ![c] = IF Does[c] = "shell" THEN 1 ELSE 0]
  /\ touched' = touched \cup (IF Does[c] = "write" THEN Begun ELSE {})
                        \cup (IF Under("write") # {} THEN {c} ELSE {})
  /\ UNCHANGED <<fileText, toldOf, landed, missed, texts, troubles>>

(* read_to_string. *)
ReadFile(c) ==
  /\ Does[c] = "read" /\ running[c] = "begun"
  /\ texts' = [texts EXCEPT ![c] = fileText]
  /\ Told(c, "ok")
  /\ UNCHANGED <<fileText, handed, landed, missed, touched, troubles>>

(* fs::write empties the file first ... *)
EmptyFile(c) ==
  /\ Does[c] = "write" /\ running[c] = "begun"
  /\ fileText' = <<>>
  /\ running' = [running EXCEPT ![c] = "emptied"]
  /\ UNCHANGED <<toldOf, handed, landed, missed, texts, touched, troubles>>

(* ... and then writes from the beginning, over what came in between. *)
Over(text, old) == [i \in 1..(IF Len(old) > Len(text) THEN Len(old) ELSE Len(text)) |->
                      IF i <= Len(text) THEN text[i] ELSE old[i]]

(* Mutant: written in the background as well. *)
WriteLater(c) ==
  /\ Does[c] = "write" /\ running[c] = "emptied"
  /\ handed' = [handed EXCEPT ![c] = Pieces[c]]
  /\ Told(c, "ok")
  /\ UNCHANGED <<fileText, landed, missed, texts, touched, troubles>>

WriteAnew(c) ==
  /\ Does[c] = "write" /\ running[c] = "emptied"
  /\ fileText' = Over(TextOf(c), fileText)
  /\ Told(c, "ok")
  /\ UNCHANGED <<handed, landed, missed, texts, touched, troubles>>

WriteAnewFails(c) ==
  /\ Does[c] = "write" /\ running[c] \in {"begun", "emptied"} /\ troubles < MaxTroubles
  /\ Told(c, "error")
  /\ troubles' = troubles + 1
  /\ UNCHANGED <<fileText, handed, landed, missed, texts, touched>>

InFlight(c) == 1..handed[c] \ landed[c]

(* Mutant: nor for the piece before. *)
HandOnAtOnce(c) ==
  /\ Does[c] = "append" /\ running[c] = "begun"
  /\ handed' = [handed EXCEPT ![c] = @ + 1]
  /\ IF handed[c] + 1 = Pieces[c] THEN Told(c, "ok") ELSE UNCHANGED <<running, toldOf>>
  /\ UNCHANGED <<fileText, landed, missed, texts, touched, troubles>>

(* write_all of an append waits for the piece before, and not for its own. *)
HandOn(c) ==
  /\ Does[c] = "append" /\ running[c] = "begun"
  /\ InFlight(c) = {}
  /\ IF \E i \in 1..handed[c] : <<c, i>> \in missed
       THEN Told(c, "error") /\ UNCHANGED handed
       ELSE /\ handed' = [handed EXCEPT ![c] = @ + 1]
            /\ IF handed[c] + 1 = Pieces[c] THEN Told(c, "ok") ELSE UNCHANGED <<running, toldOf>>
  /\ UNCHANGED <<fileText, landed, missed, texts, touched, troubles>>

(* Mutant: not opened for appending. *)
LandInPlace(c, i) ==
  /\ i \in InFlight(c)
  /\ landed' = [landed EXCEPT ![c] = @ \cup {i}]
  /\ fileText' = Over(SubSeq(TextOf(c), 1, i), fileText)
  /\ UNCHANGED <<running, toldOf, handed, missed, texts, touched, troubles>>

(* The runtime's thread, or the command, appends to what the file is now. *)
Land(c, i) ==
  /\ i \in InFlight(c)
  /\ landed' = [landed EXCEPT ![c] = @ \cup {i}]
  /\ fileText' = Append(fileText, <<c, i>>)
  /\ UNCHANGED <<running, toldOf, handed, missed, texts, touched, troubles>>

(* The disk is full: that of the last piece nobody hears of. *)
LandFails(c, i) ==
  /\ i \in InFlight(c) /\ troubles < MaxTroubles
  /\ landed' = [landed EXCEPT ![c] = @ \cup {i}]
  /\ missed' = missed \cup {<<c, i>>}
  /\ troubles' = troubles + 1
  /\ UNCHANGED <<fileText, running, toldOf, handed, texts, touched>>

(* The command has ended. *)
ShellReturns(c) ==
  /\ Does[c] = "shell" /\ running[c] = "begun" /\ InFlight(c) = {}
  /\ Told(c, IF <<c, 1>> \in missed THEN "error" ELSE "ok")
  /\ UNCHANGED <<fileText, handed, landed, missed, texts, touched, troubles>>

(* timeout: the command runs on. *)
ShellTimesOut(c) ==
  /\ Does[c] = "shell" /\ running[c] = "begun" /\ InFlight(c) # {}
  /\ Told(c, "error")
  /\ UNCHANGED <<fileText, handed, landed, missed, texts, touched, troubles>>

(* The daemon ends: pieces handed over may be lost, commands run on. *)
Exits ==
  /\ troubles < MaxTroubles
  /\ running' = [c \in FileCalls |-> IF running[c] \in {"begun", "emptied"} THEN "gone" ELSE running[c]]
  /\ missed' = missed \cup {p \in Of("append") \X (1..MaxPieces) : p[2] \in InFlight(p[1])}
  /\ landed' = [c \in FileCalls |-> IF Does[c] = "shell" THEN landed[c] ELSE 1..handed[c]]
  /\ troubles' = troubles + 1
  /\ UNCHANGED <<fileText, toldOf, handed, texts, touched>>

WorkspaceNext ==
  \/ \E c \in FileCalls :
       \/ BeginCall(c) \/ ReadFile(c)
       \/ EmptyFile(c) \/ WriteAnew(c) \/ WriteAnewFails(c)
       \/ HandOn(c) \/ \E i \in InFlight(c) : Land(c, i) \/ LandFails(c, i)
       \/ ShellReturns(c) \/ ShellTimesOut(c)
  \/ Exits

WorkspaceSpec == WorkspaceInit /\ [][WorkspaceNext]_workspaceVars

-----------------------------------------------------------------------------
(* The pieces of a call come in their order and none comes twice, in the   *)
(* file and in all that was read, whoever else writes at the time.         *)
Orderly(text) ==
  \A i, j \in DOMAIN text : i < j /\ text[i][1] = text[j][1] => text[i][2] < text[j][2]

PiecesInOrder == Orderly(fileText) /\ \A c \in Of("read") : Orderly(texts[c])

(* What an append or a command said it did is in the file as soon as it is *)
(* written, if nobody wrote the file anew since it began: not at once, and *)
(* not if the disk was full for the last piece.                            *)
SaidIsDone ==
  \A c \in Of("append") \cup Of("shell") :
    toldOf[c] = "ok" /\ c \notin touched /\ InFlight(c) = {} =>
      \A p \in {TextOf(c)[i] : i \in 1..Pieces[c]} \ missed : \E i \in DOMAIN fileText : fileText[i] = p

(* A file that was written anew begins with what was written, whatever is  *)
(* appended meanwhile, until somebody else writes it anew.                 *)
WrittenIsRead ==
  \A c \in Of("write") :
    toldOf[c] = "ok" /\ c \notin touched =>
      Len(fileText) >= Pieces[c] /\ SubSeq(fileText, 1, Pieces[c]) = TextOf(c)
=============================================================================
