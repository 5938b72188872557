-------------------------------- MODULE Estop --------------------------------
(***************************************************************************)
(* The emergency stop (crates/adaclaw-security/src/estop.rs): a state in   *)
(* memory behind a readers-writer lock, and a file that every change is    *)
(* written to, so that the stop survives a restart.  Callers engage and    *)
(* clear it concurrently; saving holds the lock as a reader.               *)
(***************************************************************************)
EXTENDS Naturals, FiniteSets

CONSTANTS
  Callers,
  Levels,        \* "ToolFreeze", "DomainBlock", "NetworkKill", "KillAll"
  MaxLoads       \* bound: starts of the process

ASSUME EstopAssumption ==
  Levels \subseteq {"ToolFreeze", "DomainBlock", "NetworkKill", "KillAll"} /\ MaxLoads \in Nat

VARIABLES
  stop,          \* EstopState in memory
  file,          \* what is in the file, Torn while that is no state
  caller,        \* what each caller is doing, and the state it is about to write
  processUp,
  saveFailed,    \* history: the last save to end has failed
  cut,           \* history: the process ended during a save, or after a failed one
  loads

estopVars == <<stop, file, caller, processUp, saveFailed, cut, loads>>

Off == [active |-> FALSE, level |-> "none", otp |-> FALSE]
Torn == [active |-> FALSE, level |-> "torn", otp |-> FALSE]
On(l, otp) == [active |-> TRUE, level |-> l, otp |-> otp]
Stops == {Off} \cup [active : {TRUE}, level : Levels, otp : BOOLEAN]
Idle == [step |-> "idle", json |-> Off]

EstopInit ==
  /\ stop = Off /\ file = Off /\ caller = [c \in Callers |-> Idle]
  /\ processUp = TRUE /\ saveFailed = FALSE /\ cut = FALSE /\ loads = 0

At(c, s) == processUp /\ caller[c].step = s
GoTo(c, s) == caller' = [caller EXCEPT ![c].step = s]
Saving == {c \in Callers : caller[c].step \in {"save", "write"}}

(* Mutant: persist lets go of the lock before it writes. *)
NotLocked == FALSE

Locked == \E c \in Callers : caller[c].step = "write"

-----------------------------------------------------------------------------
(* engage: a new state, whatever the old one was. *)
Engage(c, l, otp) ==
  /\ At(c, "idle") /\ ~Locked
  /\ stop' = On(l, otp)
  /\ GoTo(c, "save")
  /\ UNCHANGED <<file, processUp, saveFailed, cut, loads>>

(* clear looks whether a code is asked for, and lets go of the lock. *)
AskClear(c, verified) ==
  /\ At(c, "idle")
  /\ stop.otp => verified
  /\ GoTo(c, "clear")
  /\ UNCHANGED <<stop, file, processUp, saveFailed, cut, loads>>

(* Mutant: the stop is switched off, and its level stays. *)
ClearActive(c) ==
  /\ At(c, "clear") /\ ~Locked
  /\ stop' = [stop EXCEPT !.active = FALSE]
  /\ GoTo(c, "save")
  /\ UNCHANGED <<file, processUp, saveFailed, cut, loads>>

ClearAll(c) ==
  /\ At(c, "clear") /\ ~Locked
  /\ stop' = Off
  /\ GoTo(c, "save")
  /\ UNCHANGED <<file, processUp, saveFailed, cut, loads>>

(* persist takes the lock as a reader and keeps it; opening the file       *)
(* empties it.                                                             *)
OpenFile(c) ==
  /\ At(c, "save")
  /\ file' = Torn
  /\ caller' = [caller EXCEPT ![c] = [step |-> "write", json |-> stop]]
  /\ UNCHANGED <<stop, processUp, saveFailed, cut, loads>>

WriteFile(c) ==
  /\ At(c, "write")
  /\ file' = caller[c].json
  /\ saveFailed' = FALSE
  /\ caller' = [caller EXCEPT ![c] = Idle]
  /\ UNCHANGED <<stop, processUp, cut, loads>>

(* The file cannot be opened, or the disk is full: the caller gets an      *)
(* error, and the state stays as it was set.                               *)
SaveFails(c) ==
  /\ At(c, "save") \/ At(c, "write")
  /\ saveFailed' = TRUE
  /\ caller' = [caller EXCEPT ![c] = Idle]
  /\ UNCHANGED <<stop, file, processUp, cut, loads>>

ProcessEnds ==
  /\ processUp /\ processUp' = FALSE
  /\ cut' = (saveFailed \/ Saving # {})
  /\ caller' = [c \in Callers |-> Idle]
  /\ UNCHANGED <<stop, file, saveFailed, loads>>

(* Mutant: the file is not read. *)
LoadNothing ==
  /\ ~processUp /\ loads < MaxLoads
  /\ processUp' = TRUE /\ loads' = loads + 1
  /\ stop' = Off /\ saveFailed' = FALSE
  /\ UNCHANGED <<file, caller, cut>>

(* new: a file that cannot be read or parsed is no stop. *)
LoadStop ==
  /\ ~processUp /\ loads < MaxLoads
  /\ processUp' = TRUE /\ loads' = loads + 1
  /\ stop' = (IF file = Torn THEN Off ELSE file) /\ saveFailed' = FALSE
  /\ UNCHANGED <<file, caller, cut>>

EstopNext ==
  \/ \E c \in Callers :
       \/ \E l \in Levels, otp \in BOOLEAN : Engage(c, l, otp)
       \/ \E verified \in BOOLEAN : AskClear(c, verified)
       \/ ClearAll(c) \/ OpenFile(c) \/ WriteFile(c) \/ SaveFails(c)
  \/ ProcessEnds \/ LoadStop

EstopSpec == EstopInit /\ [][EstopNext]_estopVars

-----------------------------------------------------------------------------
(* What the levels forbid; nobody asks whether the stop is active. *)
IsKilled == stop.level = "KillAll"
IsNetworkKilled == stop.level \in {"NetworkKill", "KillAll"}
IsToolFrozen == stop.level \in {"ToolFreeze", "NetworkKill", "KillAll"}

EstopTypeOK ==
  /\ stop \in Stops /\ file \in Stops \cup {Torn}
  /\ caller \in [Callers -> [step : {"idle", "clear", "save", "write"}, json : Stops]]
  /\ processUp \in BOOLEAN /\ saveFailed \in BOOLEAN /\ cut \in BOOLEAN
  /\ loads \in 0..MaxLoads
  /\ ~stop.active => ~IsKilled /\ ~IsNetworkKilled /\ ~IsToolFrozen

(* When every save has come back with success, the file holds what is in   *)
(* memory, in whatever order the callers set and saved it; an unreadable   *)
(* file stands for no stop.                                                *)
FileFollowsState ==
  processUp /\ Saving = {} /\ ~saveFailed => stop = IF file = Torn THEN Off ELSE file

(* A restart neither starts nor ends a stop, unless a save had failed or   *)
(* was under way when the process ended.                                   *)
StopSurvives == [][loads' # loads /\ ~cut => stop' = stop]_estopVars

(* The stop is where it was put: in memory and in the file alike, and after*)
(* a restart.                                                              *)
StopIsKept ==
  /\ [](EstopTypeOK /\ FileFollowsState)
  /\ StopSurvives
=============================================================================
