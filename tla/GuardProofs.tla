----------------------------- MODULE GuardProofs -----------------------------
(***************************************************************************)
(* Proofs about the guards of a call: the emergency stop, the rate         *)
(* limiter, approvals, the codes by which a client shows who it is, and    *)
(* the lists of who may talk to a channel.                                 *)
(* They share no state; each is proved about its own specification, for    *)
(* every number of callers, messages and calls.                            *)
(***************************************************************************)
EXTENDS Estop, RateLimiter, Approval, Allowlist, TLAPS, FiniteSetTheorems, WellFoundedInduction, SequenceTheorems

-----------------------------------------------------------------------------
(* The emergency stop.  A caller that writes holds the lock, so what it    *)
(* writes is what memory still says; and once the process is gone, nobody  *)
(* is at work.                                                             *)

FileState == IF file = Torn THEN Off ELSE file

WriterInv == \A c \in Callers : caller[c].step = "write" => caller[c].json = stop

DownInv == ~processUp => /\ \A c \in Callers : caller[c].step = "idle"
                         /\ ~cut => stop = FileState

EstopInv == EstopTypeOK /\ FileFollowsState /\ WriterInv /\ DownInv

LEMMA StopsAreReadable ==
  ASSUME NEW s \in Stops
  PROVE  /\ s # Torn
         /\ ~s.active => s.level \notin {"ToolFreeze", "NetworkKill", "KillAll"}
<1>1. CASE s = Off
  BY <1>1 DEF Off, Torn
<1>2. CASE s \in [active : {TRUE}, level : Levels, otp : BOOLEAN]
  <2>1. s.active = TRUE
    BY <1>2
  <2> QED BY <2>1 DEF Torn
<1> QED BY <1>1, <1>2 DEF Stops

LEMMA EstopInitHolds == EstopInit => EstopInv
<1> SUFFICES ASSUME EstopInit PROVE EstopInv
  OBVIOUS
<1>1. Off \in Stops /\ stop = Off /\ file = Off /\ Off # Torn /\ processUp = TRUE /\ saveFailed = FALSE /\ cut = FALSE
  BY StopsAreReadable DEF EstopInit, Stops
<1>2. caller = [c \in Callers |-> Idle] /\ Idle \in [step : {"idle", "clear", "save", "write"}, json : Stops]
  BY <1>1 DEF EstopInit, Idle
<1>3. loads \in 0..MaxLoads
  BY EstopAssumption DEF EstopInit
<1>4. EstopTypeOK
  BY <1>1, <1>2, <1>3, StopsAreReadable DEF EstopTypeOK, IsKilled, IsNetworkKilled, IsToolFrozen
<1>5. \A c \in Callers : caller[c].step = "idle"
  BY <1>2 DEF Idle
<1>6. FileFollowsState /\ WriterInv /\ DownInv
  BY <1>1, <1>5 DEF FileFollowsState, WriterInv, DownInv
<1> QED BY <1>4, <1>6 DEF EstopInv

(* A caller that goes to another step changes nothing else.                *)
LEMMA EngageKeeps ==
  ASSUME EstopInv, NEW c \in Callers, NEW s \in Stops,
         processUp, ~Locked, stop' = s, GoTo(c, "save"),
         UNCHANGED <<file, processUp, saveFailed, cut, loads>>
  PROVE  EstopInv'
<1> USE DEF EstopInv
<1>1. caller' \in [Callers -> [step : {"idle", "clear", "save", "write"}, json : Stops]]
  BY DEF EstopTypeOK, GoTo
<1>2. caller'[c].step = "save" /\ \A d \in Callers : caller'[d].step # "write"
  BY DEF EstopTypeOK, GoTo, Locked
<1>3. EstopTypeOK'
  BY <1>1, StopsAreReadable DEF EstopTypeOK, IsKilled, IsNetworkKilled, IsToolFrozen
<1>4. FileFollowsState'
  BY <1>2 DEF FileFollowsState, Saving
<1>5. WriterInv' /\ DownInv'
  BY <1>2 DEF WriterInv, DownInv
<1> QED BY <1>3, <1>4, <1>5

LEMMA EstopStep ==
  ASSUME EstopInv, [EstopNext]_estopVars
  PROVE  EstopInv'
<1> USE DEF EstopInv
<1>1. ASSUME NEW c \in Callers, NEW l \in Levels, NEW otp \in BOOLEAN, Engage(c, l, otp) PROVE EstopInv'
  <2>1. On(l, otp) \in Stops
    BY DEF On, Stops
  <2> QED BY <1>1, <2>1, EngageKeeps DEF Engage, At
<1>2. ASSUME NEW c \in Callers, NEW v \in BOOLEAN, AskClear(c, v) PROVE EstopInv'
  <2>1. /\ caller' \in [Callers -> [step : {"idle", "clear", "save", "write"}, json : Stops]]
        /\ caller'[c].step = "clear" /\ caller[c].step = "idle"
        /\ \A d \in Callers : d # c => caller'[d] = caller[d]
        /\ UNCHANGED <<stop, file, processUp, saveFailed, cut, loads>> /\ processUp
    BY <1>2 DEF EstopTypeOK, AskClear, At, GoTo
  <2>2. EstopTypeOK'
    BY <2>1 DEF EstopTypeOK, IsKilled, IsNetworkKilled, IsToolFrozen
  <2>3. Saving' = {} => Saving = {}
    BY <2>1 DEF Saving
  <2>4. FileFollowsState' /\ WriterInv' /\ DownInv'
    BY <2>1, <2>3 DEF FileFollowsState, WriterInv, DownInv
  <2> QED BY <2>2, <2>4
<1>3. ASSUME NEW c \in Callers, ClearAll(c) PROVE EstopInv'
  BY <1>3, EngageKeeps DEF ClearAll, At, Stops
<1>4. ASSUME NEW c \in Callers, OpenFile(c) PROVE EstopInv'
  <2>1. /\ caller' = [caller EXCEPT ![c] = [step |-> "write", json |-> stop]]
        /\ caller' \in [Callers -> [step : {"idle", "clear", "save", "write"}, json : Stops]]
        /\ caller'[c].step = "write" /\ caller'[c].json = stop
        /\ UNCHANGED <<stop, processUp, saveFailed, cut, loads>> /\ processUp /\ file' = Torn
    BY <1>4 DEF EstopTypeOK, OpenFile, At
  <2>2. EstopTypeOK'
    BY <2>1 DEF EstopTypeOK, IsKilled, IsNetworkKilled, IsToolFrozen
  <2>3. FileFollowsState'
    BY <2>1 DEF FileFollowsState, Saving
  <2>4. WriterInv' /\ DownInv'
    BY <2>1 DEF WriterInv, DownInv, EstopTypeOK
  <2> QED BY <2>2, <2>3, <2>4
<1>5. ASSUME NEW c \in Callers, WriteFile(c) PROVE EstopInv'
  <2>1. /\ caller' \in [Callers -> [step : {"idle", "clear", "save", "write"}, json : Stops]]
        /\ caller'[c].step = "idle" /\ \A d \in Callers : d # c => caller'[d] = caller[d]
        /\ UNCHANGED <<stop, processUp, cut, loads>> /\ processUp
        /\ file' = stop /\ saveFailed' = FALSE /\ stop \in Stops
    BY <1>5 DEF EstopTypeOK, WriteFile, At, Idle, WriterInv, Stops
  <2>2. EstopTypeOK'
    BY <2>1 DEF EstopTypeOK, IsKilled, IsNetworkKilled, IsToolFrozen
  <2>3. FileFollowsState' /\ WriterInv' /\ DownInv'
    BY <2>1, StopsAreReadable DEF FileFollowsState, WriterInv, DownInv
  <2> QED BY <2>2, <2>3
<1>6. ASSUME NEW c \in Callers, SaveFails(c) PROVE EstopInv'
  <2>1. /\ caller' \in [Callers -> [step : {"idle", "clear", "save", "write"}, json : Stops]]
        /\ caller'[c].step = "idle" /\ \A d \in Callers : d # c => caller'[d] = caller[d]
        /\ UNCHANGED <<stop, file, processUp, cut, loads>> /\ processUp /\ saveFailed' = TRUE
    BY <1>6 DEF EstopTypeOK, SaveFails, At, Idle, Stops
  <2> QED BY <2>1 DEF EstopTypeOK, FileFollowsState, WriterInv, DownInv, IsKilled, IsNetworkKilled, IsToolFrozen
<1>7. CASE ProcessEnds
  <2>1. /\ caller' \in [Callers -> [step : {"idle", "clear", "save", "write"}, json : Stops]]
        /\ \A d \in Callers : caller'[d].step = "idle"
        /\ UNCHANGED <<stop, file, saveFailed, loads>> /\ processUp /\ processUp' = FALSE
        /\ cut' \in BOOLEAN /\ (~cut' => ~saveFailed /\ Saving = {})
    BY <1>7 DEF EstopTypeOK, ProcessEnds, Idle, Stops
  <2>2. EstopTypeOK'
    BY <2>1 DEF EstopTypeOK, IsKilled, IsNetworkKilled, IsToolFrozen
  <2>3. FileFollowsState' /\ WriterInv' /\ DownInv'
    BY <2>1 DEF FileFollowsState, WriterInv, DownInv, FileState
  <2> QED BY <2>2, <2>3
<1>8. CASE LoadStop
  <2>1. /\ stop' = FileState /\ stop' \in Stops /\ UNCHANGED <<file, caller, cut>>
        /\ processUp' = TRUE /\ saveFailed' = FALSE /\ loads' \in 0..MaxLoads
        /\ \A c \in Callers : caller[c].step = "idle"
    <3>1. loads' \in 0..MaxLoads
      BY <1>8, EstopAssumption DEF LoadStop, EstopTypeOK
    <3>2. FileState \in Stops
      BY DEF FileState, EstopTypeOK, Stops
    <3> QED BY <1>8, <3>1, <3>2 DEF LoadStop, FileState, DownInv
  <2>2. EstopTypeOK'
    BY <2>1, StopsAreReadable DEF EstopTypeOK, IsKilled, IsNetworkKilled, IsToolFrozen
  <2>3. FileFollowsState' /\ WriterInv' /\ DownInv'
    BY <2>1 DEF FileFollowsState, WriterInv, DownInv, FileState
  <2> QED BY <2>2, <2>3
<1>9. CASE UNCHANGED estopVars
  BY <1>9 DEF estopVars, EstopTypeOK, FileFollowsState, WriterInv, DownInv, Saving, FileState,
              IsKilled, IsNetworkKilled, IsToolFrozen
<1> QED BY <1>1, <1>2, <1>3, <1>4, <1>5, <1>6, <1>7, <1>8, <1>9 DEF EstopNext

(* Only a start reads the file.                                            *)
LEMMA LoadsReturnTheStop ==
  ASSUME EstopInv, [EstopNext]_estopVars
  PROVE  loads' # loads /\ ~cut => stop' = stop
<1>1. CASE LoadStop
  BY <1>1 DEF EstopInv, DownInv, LoadStop, FileState
<1>2. CASE ~LoadStop
  BY <1>2 DEF EstopNext, estopVars, Engage, AskClear, ClearAll, OpenFile, WriteFile, SaveFails, ProcessEnds
<1> QED BY <1>1, <1>2

(* The stop is in memory and in the file alike whenever no save is under   *)
(* way or failed, and a restart neither starts nor ends one.               *)
THEOREM StopStaysWhereItWasPut == EstopSpec => StopIsKept
<1>1. EstopInv => EstopTypeOK /\ FileFollowsState
  BY DEF EstopInv
<1>2. EstopInv /\ [EstopNext]_estopVars => [loads' # loads /\ ~cut => stop' = stop]_estopVars
  BY LoadsReturnTheStop
<1> QED BY EstopInitHolds, EstopStep, <1>1, <1>2, PTL DEF EstopSpec, StopIsKept, StopSurvives

-----------------------------------------------------------------------------
(* The rate limiter.  What a window still holds of the messages let past   *)
(* is exactly what its counter remembers.                                  *)

Verdicts == {"userPassed", "userFull", "passed", "channelFull"}
Messages == [from : From, at : Nat, decided : Nat, verdict : Verdicts]
Spendings == [day : Nat, cost : Nat]

RateTypeOK ==
  /\ now \in Nat
  /\ attempt \in Seq(Messages)
  /\ userEvents \in [From -> SUBSET Attempts] /\ channelEvents \in SUBSET Attempts
  /\ dailyCost \in [total : Nat, day : Nat]
  /\ spent \in Seq(Spendings)
  /\ \A n \in Attempts : attempt[n].at <= now /\ attempt[n].decided <= now

UserInv ==
  PerUser > 0 => \A u \in From :
    /\ userEvents[u] \subseteq Admitted(u)
    /\ \A n \in Admitted(u) : IsRecent(attempt[n].at) => n \in userEvents[u]

ChannelInv ==
  PerChannel > 0 =>
    /\ channelEvents \subseteq Passed
    /\ \A n \in Passed : IsRecent(attempt[n].decided) => n \in channelEvents

DayInv ==
  dailyCost.day <= Day /\ \A i \in DOMAIN spent : spent[i].day <= dailyCost.day

RateInv == RateTypeOK /\ UserInv /\ ChannelInv /\ DayInv /\ RateHolds

UserWindow(u, t) == {n \in Admitted(u) : InWindow(attempt[n].at, t)}
ChannelWindow(t) == {n \in Passed : InWindow(attempt[n].decided, t)}

(* Sets of messages are finite.                                            *)
LEMMA MessageSets ==
  ASSUME NEW k \in Nat, NEW S \in SUBSET (1..k)
  PROVE  /\ IsFiniteSet(S) /\ Cardinality(S) \in Nat
         /\ \A T \in SUBSET S : Cardinality(T) \in Nat /\ Cardinality(T) <= Cardinality(S)
         /\ \A x : Cardinality(S \cup {x}) <= Cardinality(S) + 1
<1>1. IsFiniteSet(1..k)
  BY FS_Interval
<1>2. IsFiniteSet(S) /\ Cardinality(S) \in Nat
  BY <1>1, FS_Subset, FS_CardinalityType
<1>3. ASSUME NEW T \in SUBSET S PROVE Cardinality(T) \in Nat /\ Cardinality(T) <= Cardinality(S)
  BY <1>2, FS_Subset, FS_CardinalityType
<1>4. ASSUME NEW x PROVE Cardinality(S \cup {x}) <= Cardinality(S) + 1
  BY <1>2, FS_AddElement
<1> QED BY <1>2, <1>3, <1>4

(* What the types say of each message, and of the constants.               *)
LEMMA RateNumbers ==
  /\ PerUser \in Nat /\ PerChannel \in Nat /\ WindowWidth \in Nat /\ Budget \in Nat
  /\ DayLength \in Nat \ {0} /\ \A c \in Costs : c \in Nat
BY RateAssumption

LEMMA RateTypes ==
  ASSUME RateTypeOK
  PROVE  /\ now \in Nat /\ Len(attempt) \in Nat /\ Attempts = 1..Len(attempt)
         /\ \A n \in Attempts : /\ attempt[n].at \in Nat /\ attempt[n].decided \in Nat
                               /\ attempt[n].at <= now /\ attempt[n].decided <= now
                               /\ attempt[n].from \in From /\ attempt[n].verdict \in Verdicts
         /\ \A u : Admitted(u) \subseteq Attempts
         /\ Passed \subseteq Attempts
<1>1. attempt \in Seq(Messages) /\ now \in Nat
  BY DEF RateTypeOK
<1>2. Len(attempt) \in Nat /\ Attempts = 1..Len(attempt)
  BY <1>1 DEF Attempts
<1>3. \A n \in Attempts : attempt[n] \in Messages
  BY <1>1, <1>2
<1>4. \A n \in Attempts : attempt[n].at <= now /\ attempt[n].decided <= now
  BY DEF RateTypeOK
<1>5. (\A u : Admitted(u) \subseteq Attempts) /\ Passed \subseteq Attempts
  BY DEF Admitted, Passed
<1> QED BY <1>1, <1>2, <1>3, <1>4, <1>5 DEF Messages

LEMMA DaysAreNumbers ==
  ASSUME NEW a \in Nat
  PROVE  a \div DayLength \in Nat
BY RateAssumption

LEMMA WindowsOfNow ==
  ASSUME RateTypeOK, UserInv, ChannelInv
  PROVE  /\ PerUser > 0 => \A u \in From : RecentOf(u) = UserWindow(u, now)
         /\ PerChannel > 0 => RecentOfChannel = ChannelWindow(now)
<1>1. \A n \in Attempts : /\ IsRecent(attempt[n].at) <=> InWindow(attempt[n].at, now)
                          /\ IsRecent(attempt[n].decided) <=> InWindow(attempt[n].decided, now)
  BY RateAssumption DEF RateTypeOK, IsRecent, InWindow
<1>2. ASSUME PerUser > 0, NEW u \in From PROVE RecentOf(u) = UserWindow(u, now)
  <2>1. Admitted(u) \subseteq Attempts
    BY DEF Admitted
  <2> QED BY <1>1, <1>2, <2>1 DEF UserInv, RecentOf, UserWindow
<1>3. ASSUME PerChannel > 0 PROVE RecentOfChannel = ChannelWindow(now)
  <2>1. Passed \subseteq Attempts
    BY DEF Passed
  <2> QED BY <1>1, <1>3, <2>1 DEF ChannelInv, RecentOfChannel, ChannelWindow
<1> QED BY <1>2, <1>3

(* The limits, with names for the windows.                                 *)
LEMMA LimitsByWindow ==
  LimitsHold <=> \A t \in 0..now :
    /\ PerUser > 0 => \A u \in From : Cardinality(UserWindow(u, t)) <= PerUser
    /\ PerChannel > 0 => Cardinality(ChannelWindow(t)) <= PerChannel
BY DEF LimitsHold, UserWindow, ChannelWindow

LEMMA RateInitHolds == RateInit => RateInv
<1> SUFFICES ASSUME RateInit PROVE RateInv
  OBVIOUS
<1>1. Attempts = {} /\ attempt = <<>> /\ spent = <<>> /\ now = 0
  BY DEF RateInit, Attempts
<1>2. RateTypeOK
  BY <1>1 DEF RateInit, RateTypeOK
<1>3. UserInv /\ ChannelInv
  BY <1>1 DEF RateInit, UserInv, ChannelInv, Admitted, Passed
<1>4. 0 \div DayLength = 0
  BY RateAssumption
<1>5. DayInv
  BY <1>1, <1>4 DEF RateInit, DayInv, Day
<1>6. LimitsHold
  <2>1. (\A u \in From : \A t : UserWindow(u, t) = {}) /\ \A t : ChannelWindow(t) = {}
    BY <1>1 DEF UserWindow, ChannelWindow, Admitted, Passed
  <2>2. Cardinality({}) = 0
    BY FS_EmptySet
  <2>3. PerUser \in Nat /\ PerChannel \in Nat
    BY RateAssumption
  <2> QED BY <2>1, <2>2, <2>3, LimitsByWindow
<1>7. RefusedForAReason
  BY <1>1 DEF RefusedForAReason
<1>8. DayIsCounted
  <2> DEFINE none == [i \in 0..0 |-> 0]
  <2>1. Len(spent) = 0 /\ dailyCost.total = 0 /\ DOMAIN spent = {}
    BY <1>1 DEF RateInit
  <2>2. none \in [0..Len(spent) -> 0..dailyCost.total] /\ none[0] = 0 /\ none[Len(spent)] = dailyCost.total
    BY <2>1
  <2> QED BY <2>1, <2>2 DEF DayIsCounted
<1> QED BY <1>2, <1>3, <1>5, <1>6, <1>7, <1>8 DEF RateInv, RateHolds

(* Days go on.                                                             *)
LEMMA DaysGoOn ==
  ASSUME NEW a \in Nat
  PROVE  a \div DayLength <= (a + 1) \div DayLength
  BY RateAssumption

LEMMA TickKeeps ==
  ASSUME RateInv, Tick
  PROVE  RateInv'
<1> USE DEF RateInv
<1>1. /\ now' = now + 1 /\ now \in Nat
      /\ UNCHANGED <<userEvents, channelEvents, attempt, dailyCost, spent>>
      /\ Attempts' = Attempts
  BY DEF Tick, RateTypeOK, Attempts
<1>2. RateTypeOK'
  <2>1. \A n \in Attempts : attempt[n].at <= now + 1 /\ attempt[n].decided <= now + 1
    BY <1>1, RateTypes
  <2> QED BY <1>1, <2>1 DEF RateTypeOK
<1>3. \A u : Admitted(u)' = Admitted(u)
  BY <1>1 DEF Admitted
<1>4. Passed' = Passed
  BY <1>1 DEF Passed
<1>5. \A n \in Attempts : /\ IsRecent(attempt[n].at)' => IsRecent(attempt[n].at)
                          /\ IsRecent(attempt[n].decided)' => IsRecent(attempt[n].decided)
  BY <1>1, RateTypes, RateNumbers DEF IsRecent
<1>6. UserInv' /\ ChannelInv'
  <2>1. Passed \subseteq Attempts /\ \A u : Admitted(u) \subseteq Attempts
    BY DEF Passed, Admitted
  <2> QED BY <1>1, <1>3, <1>4, <1>5, <2>1 DEF UserInv, ChannelInv
<1>7. DayInv'
  <2>1. Day <= Day' /\ Day \in Int /\ Day' \in Int
    BY <1>1, DaysGoOn, RateAssumption DEF Day
  <2> QED BY <1>1, <2>1 DEF DayInv, RateTypeOK
<1>8. LimitsHold'
  <2>1. \A u, t : UserWindow(u, t)' = UserWindow(u, t)
    BY <1>1, <1>3 DEF UserWindow, InWindow
  <2>2. \A t : ChannelWindow(t)' = ChannelWindow(t)
    BY <1>1, <1>4 DEF ChannelWindow, InWindow
  <2>3. \A n \in Attempts : /\ InWindow(attempt[n].at, now + 1) => InWindow(attempt[n].at, now)
                            /\ InWindow(attempt[n].decided, now + 1) => InWindow(attempt[n].decided, now)
    BY <1>1, RateTypes, RateNumbers DEF InWindow
  <2>4. ASSUME NEW S \in SUBSET Attempts, NEW T \in SUBSET S
        PROVE  Cardinality(T) <= Cardinality(S) /\ Cardinality(T) \in Nat /\ Cardinality(S) \in Nat
    <3>1. S \in SUBSET (1..Len(attempt)) /\ Len(attempt) \in Nat
      BY RateTypes
    <3> QED BY <3>1, MessageSets
  <2>5. ASSUME PerUser > 0, NEW u \in From PROVE Cardinality(UserWindow(u, now + 1)) <= PerUser
    <3>1. UserWindow(u, now) \in SUBSET Attempts /\ UserWindow(u, now + 1) \in SUBSET UserWindow(u, now)
      BY <2>3 DEF UserWindow, Admitted
    <3>2. Cardinality(UserWindow(u, now)) <= PerUser
      BY <1>1, <2>5, LimitsByWindow DEF RateHolds
    <3> QED BY <2>4, <3>1, <3>2, RateAssumption
  <2>6. ASSUME PerChannel > 0 PROVE Cardinality(ChannelWindow(now + 1)) <= PerChannel
    <3>1. ChannelWindow(now) \in SUBSET Attempts /\ ChannelWindow(now + 1) \in SUBSET ChannelWindow(now)
      BY <2>3 DEF ChannelWindow, Passed
    <3>2. Cardinality(ChannelWindow(now)) <= PerChannel
      BY <1>1, <2>6, LimitsByWindow DEF RateHolds
    <3> QED BY <2>4, <3>1, <3>2, RateAssumption
  <2>7. ASSUME NEW t \in 0..now + 1
        PROVE  /\ PerUser > 0 => \A u \in From : Cardinality(UserWindow(u, t)) <= PerUser
               /\ PerChannel > 0 => Cardinality(ChannelWindow(t)) <= PerChannel
    <3>1. CASE t = now + 1
      BY <2>5, <2>6, <3>1
    <3>2. CASE t \in 0..now
      BY <3>2, LimitsByWindow DEF RateHolds
    <3> QED BY <1>1, <3>1, <3>2
  <2> HIDE DEF RateInv
  <2> QED BY <1>1, <2>1, <2>2, <2>7 DEF LimitsHold, UserWindow, ChannelWindow
<1>9. RefusedForAReason' /\ DayIsCounted'
  BY <1>1, <1>3, <1>4 DEF RateHolds, RefusedForAReason, DayIsCounted, InWindow
<1> QED BY <1>2, <1>6, <1>7, <1>8, <1>9 DEF RateHolds

(* A cost is added to its day, and a new day begins at nothing.            *)
LEMMA CostKeeps ==
  ASSUME RateInv, NEW cost \in Costs, RecordCost(cost)
  PROVE  RateInv'
<1> USE DEF RateInv
<1>1. /\ UNCHANGED <<now, userEvents, channelEvents, attempt>> /\ cost \in Nat
      /\ Attempts' = Attempts
      /\ spent' = Append(spent, [day |-> Day, cost |-> cost])
      /\ spent \in Seq(Spendings) /\ dailyCost \in [total : Nat, day : Nat]
  BY RateNumbers DEF RecordCost, RateTypeOK, Attempts
<1>2. Day \in Nat /\ dailyCost' \in [total : Nat, day : Nat] /\ dailyCost'.day = Day
  <2>1. Day \in Nat
    BY DaysAreNumbers, RateTypes DEF Day
  <2> QED BY <1>1, <2>1 DEF RecordCost
<1>3. RateTypeOK' /\ UserInv' /\ ChannelInv'
  <2>1. spent' \in Seq(Spendings)
    BY <1>1, <1>2 DEF Spendings
  <2>2. RateTypeOK'
    BY <1>1, <1>2, <2>1 DEF RateTypeOK
  <2>3. (\A u : Admitted(u)' = Admitted(u)) /\ Passed' = Passed /\ \A n : IsRecent(n)' = IsRecent(n)
    BY <1>1 DEF Admitted, Passed, IsRecent
  <2>4. UserInv' /\ ChannelInv'
    BY <1>1, <2>3, RateTypes DEF UserInv, ChannelInv
  <2> QED BY <2>2, <2>4
<1>4. LimitsHold' /\ RefusedForAReason'
  <2> HIDE DEF RateInv
  <2>1. (\A u : Admitted(u)' = Admitted(u)) /\ Passed' = Passed
    BY <1>1 DEF Admitted, Passed
  <2>2. LimitsHold /\ RefusedForAReason
    BY DEF RateInv, RateHolds
  <2> QED BY <1>1, <2>1, <2>2 DEF LimitsHold, RefusedForAReason, InWindow
<1> DEFINE k == Len(spent)
<1>5. /\ Len(spent') = k + 1 /\ k \in Nat /\ DOMAIN spent = 1..k /\ DOMAIN spent' = 1..(k + 1)
      /\ \A i \in 1..k : spent'[i] = spent[i]
      /\ spent'[k + 1] = [day |-> Day, cost |-> cost]
  BY <1>1
<1>6. /\ \A i \in 1..k : spent[i].day \in Nat /\ spent[i].cost \in Nat
      /\ dailyCost.day \in Nat /\ dailyCost.total \in Nat
  <2>1. \A i \in 1..k : spent[i] \in Spendings
    BY <1>1, <1>5
  <2> QED BY <1>1, <2>1 DEF Spendings
<1>7. DayInv'
  <2>1. Day' = Day
    BY <1>1 DEF Day
  <2>2. \A i \in 1..k : spent[i].day <= Day
    BY <1>2, <1>5, <1>6 DEF DayInv
  <2> QED BY <1>1, <1>2, <1>5, <2>1, <2>2 DEF DayInv
<1>8. DayIsCounted'
  <2>1. CASE Day = dailyCost.day
    <3>1. PICK sum \in [0..k -> 0..dailyCost.total] :
            /\ sum[0] = 0 /\ sum[k] = dailyCost.total
            /\ \A i \in 1..k : sum[i] = sum[i - 1] + IF spent[i].day = dailyCost.day THEN spent[i].cost ELSE 0
      BY <1>5 DEF RateHolds, DayIsCounted
    <3>2. dailyCost'.total = dailyCost.total + cost
      BY <1>1, <2>1 DEF RecordCost
    <3> DEFINE longer == [i \in 0..(k + 1) |-> IF i = k + 1 THEN dailyCost.total + cost ELSE sum[i]]
    <3>3. longer \in [0..(k + 1) -> 0..dailyCost'.total]
      BY <1>1, <1>5, <3>2
    <3>4. longer[0] = 0 /\ longer[k + 1] = dailyCost'.total
      BY <1>5, <3>1, <3>2
    <3>5. ASSUME NEW i \in 1..(k + 1)
          PROVE  longer[i] = longer[i - 1] + IF spent'[i].day = dailyCost'.day THEN spent'[i].cost ELSE 0
      <4>1. CASE i = k + 1
        <5>1. k \in 0..(k + 1) /\ k # k + 1 /\ i - 1 = k /\ i \in 0..(k + 1)
          <6>1. k \in Nat
            BY <1>5
          <6> QED BY <4>1, <6>1
        <5>2. longer[i] = dailyCost.total + cost /\ longer[k] = sum[k]
          BY <4>1, <5>1
        <5>3. spent'[i].day = dailyCost'.day /\ spent'[i].cost = cost
          BY <1>2, <1>5, <4>1
        <5> QED BY <1>1, <1>6, <3>1, <5>1, <5>2, <5>3
      <4>2. CASE i \in 1..k
        BY <1>2, <1>5, <2>1, <3>1, <4>2
      <4> QED BY <1>5, <4>1, <4>2
    <3> HIDE DEF longer
    <3> QED BY <1>5, <3>3, <3>4, <3>5 DEF DayIsCounted
  <2>2. CASE Day # dailyCost.day
    <3>1. dailyCost'.total = cost
      BY <2>2 DEF RecordCost
    <3>2. \A i \in 1..k : spent[i].day # Day
      BY <1>2, <1>5, <1>6, <2>2 DEF DayInv
    <3> DEFINE fresh == [i \in 0..(k + 1) |-> IF i = k + 1 THEN cost ELSE 0]
    <3>3. fresh \in [0..(k + 1) -> 0..dailyCost'.total]
      BY <1>1, <3>1
    <3>4. fresh[0] = 0 /\ fresh[k + 1] = dailyCost'.total
      BY <1>5, <3>1
    <3>5. ASSUME NEW i \in 1..(k + 1)
          PROVE  fresh[i] = fresh[i - 1] + IF spent'[i].day = dailyCost'.day THEN spent'[i].cost ELSE 0
      <4>1. CASE i = k + 1
        <5>1. k \in 0..(k + 1) /\ k # k + 1 /\ i - 1 = k /\ i \in 0..(k + 1)
          <6>1. k \in Nat
            BY <1>5
          <6> QED BY <4>1, <6>1
        <5>2. fresh[i] = cost /\ fresh[k] = 0
          BY <4>1, <5>1
        <5>3. spent'[i].day = dailyCost'.day /\ spent'[i].cost = cost
          BY <1>2, <1>5, <4>1
        <5> QED BY <1>1, <5>1, <5>2, <5>3
      <4>2. CASE i \in 1..k
        BY <1>2, <1>5, <3>2, <4>2
      <4> QED BY <1>5, <4>1, <4>2
    <3> HIDE DEF fresh
    <3> QED BY <1>5, <3>3, <3>4, <3>5 DEF DayIsCounted
  <2> QED BY <2>1, <2>2
<1> QED BY <1>3, <1>4, <1>7, <1>8 DEF RateHolds

(* The messages a refusal counts, by name.                                 *)
UserReason(n) == {m \in Admitted(attempt[n].from) : m < n /\ InWindow(attempt[m].at, attempt[n].at)}
ChannelReason(n) == {m \in Passed : InWindow(attempt[m].decided, attempt[n].decided)}

LEMMA ReasonsBySet ==
  RefusedForAReason <=> \A n \in Attempts :
    /\ attempt[n].verdict = "userFull" => Cardinality(UserReason(n)) >= PerUser
    /\ attempt[n].verdict = "channelFull" => Cardinality(ChannelReason(n)) >= PerChannel
BY DEF RefusedForAReason, UserReason, ChannelReason

LEMMA RoomLeft ==
  ASSUME NEW k \in Nat, NEW S \in SUBSET (1..k), NEW limit \in Nat, limit > 0
  PROVE  /\ HasRoom(S, limit) => \A x : Cardinality(S \cup {x}) <= limit
         /\ ~HasRoom(S, limit) => Cardinality(S) >= limit
<1>1. Cardinality(S) \in Nat
  BY MessageSets
<1>2. ASSUME NEW x PROVE Cardinality(S \cup {x}) <= Cardinality(S) + 1 /\ Cardinality(S \cup {x}) \in Nat
  BY MessageSets, FS_AddElement, FS_CardinalityType
<1>3. HasRoom(S, limit) <=> Cardinality(S) < limit
  BY DEF HasRoom
<1> QED BY <1>1, <1>2, <1>3

(* A sequence and one more behind it.                                      *)
LEMMA OneMore ==
  ASSUME NEW S, NEW s \in Seq(S), NEW e \in S
  PROVE  /\ Append(s, e) \in Seq(S) /\ Len(s) \in Nat /\ Len(Append(s, e)) = Len(s) + 1
         /\ DOMAIN s = 1..Len(s) /\ DOMAIN Append(s, e) = 1..(Len(s) + 1)
         /\ DOMAIN Append(s, e) = DOMAIN s \cup {Len(s) + 1}
         /\ Len(s) + 1 \notin DOMAIN s /\ \A n \in DOMAIN s : n < Len(s) + 1
         /\ \A n \in DOMAIN s : Append(s, e)[n] = s[n]
         /\ Append(s, e)[Len(s) + 1] = e
OBVIOUS

(* A message is written down behind the others.                            *)
NewMessage(u, v) == [from |-> u, at |-> now, decided |-> now, verdict |-> v]
Sent(u, v) == attempt' = Append(attempt, NewMessage(u, v))

LEMMA MessageIsNew ==
  ASSUME RateTypeOK, NEW u \in From, NEW v \in {"userPassed", "userFull"}, now' = now,
         NEW N, N = Len(attempt) + 1, Sent(u, v)
  PROVE  /\ N \in Nat /\ N \notin Attempts /\ Attempts' = Attempts \cup {N} /\ Attempts' = 1..N
         /\ attempt' \in Seq(Messages)
         /\ \A n \in Attempts : attempt'[n] = attempt[n] /\ n < N
         /\ attempt'[N].from = u /\ attempt'[N].at = now
         /\ attempt'[N].decided = now /\ attempt'[N].verdict = v
         /\ Passed' = Passed
         /\ \A w : Admitted(w)' = IF w = u /\ v = "userPassed" THEN Admitted(w) \cup {N} ELSE Admitted(w)
<1> DEFINE message == NewMessage(u, v)
<1>1. message \in Messages
  BY RateTypes DEF Messages, Verdicts, NewMessage
<1>2. attempt \in Seq(Messages)
  BY DEF RateTypeOK
<1>3. /\ message.from = u /\ message.at = now /\ message.decided = now /\ message.verdict = v
      /\ attempt' = Append(attempt, message)
  BY DEF Sent, NewMessage
<1> HIDE DEF message
<1>4. /\ N \in Nat /\ N \notin Attempts /\ Attempts' = Attempts \cup {N} /\ Attempts' = 1..N
      /\ attempt' \in Seq(Messages)
      /\ \A n \in Attempts : attempt'[n] = attempt[n] /\ n < N
      /\ attempt'[N] = message
  <2>1. /\ Append(attempt, message) \in Seq(Messages) /\ Len(attempt) \in Nat
        /\ DOMAIN Append(attempt, message) = 1..(Len(attempt) + 1)
        /\ DOMAIN Append(attempt, message) = DOMAIN attempt \cup {Len(attempt) + 1}
        /\ Len(attempt) + 1 \notin DOMAIN attempt /\ \A n \in DOMAIN attempt : n < Len(attempt) + 1
        /\ \A n \in DOMAIN attempt : Append(attempt, message)[n] = attempt[n]
        /\ Append(attempt, message)[Len(attempt) + 1] = message
    BY <1>1, <1>2, OneMore
  <2>2. Len(attempt) + 1 \in Nat
    BY <2>1
  <2> QED BY <1>3, <2>1, <2>2 DEF Attempts
<1>5. attempt'[N].verdict = v /\ attempt'[N].from = u
  BY <1>3, <1>4
<1>6. Passed' = Passed
  <2>1. ASSUME NEW n PROVE n \in Passed' <=> n \in Passed
    <3>1. n \in Attempts' <=> n \in Attempts \/ n = N
      BY <1>4
    <3>2. n \in Attempts => attempt'[n].verdict = attempt[n].verdict
      BY <1>4
    <3> QED BY <1>4, <1>5, <3>1, <3>2 DEF Passed
  <2> QED BY <2>1
<1>7. ASSUME NEW w
      PROVE  Admitted(w)' = IF w = u /\ v = "userPassed" THEN Admitted(w) \cup {N} ELSE Admitted(w)
  <2>1. ASSUME NEW n
        PROVE  n \in Admitted(w)' <=> n \in Admitted(w) \/ (n = N /\ w = u /\ v = "userPassed")
    <3>1. n \in Attempts' <=> n \in Attempts \/ n = N
      BY <1>4
    <3>2. n \in Attempts => attempt'[n].verdict = attempt[n].verdict /\ attempt'[n].from = attempt[n].from
      BY <1>4
    <3> QED BY <1>4, <1>5, <3>1, <3>2 DEF Admitted
  <2>2. CASE w = u /\ v = "userPassed"
    BY <2>1, <2>2
  <2>3. CASE ~(w = u /\ v = "userPassed")
    BY <2>1, <2>3
  <2> QED BY <2>2, <2>3
<1> QED BY <1>3, <1>4, <1>6, <1>7

LEMMA CheckUserKeeps ==
  ASSUME RateInv, NEW u \in From, CheckUser(u)
  PROVE  RateInv'
<1>1. RateTypeOK /\ UserInv /\ ChannelInv /\ DayInv /\ LimitsHold /\ RefusedForAReason /\ DayIsCounted
  BY DEF RateInv, RateHolds
<1>2. UNCHANGED <<now, channelEvents, dailyCost, spent>>
  BY DEF CheckUser
<1>3. PICK v \in {"userPassed", "userFull"} :
        /\ Sent(u, v)
        /\ v = "userPassed" <=> HasRoom(RecentOf(u), PerUser)
        /\ userEvents' = [userEvents EXCEPT ![u] = IF v = "userPassed"
             THEN Recorded(userEvents[u], RecentOf(u), Len(attempt) + 1, PerUser) ELSE RecentOf(u)]
  <2>1. CASE HasRoom(RecentOf(u), PerUser)
    <3> WITNESS "userPassed" \in {"userPassed", "userFull"}
    <3> QED BY <2>1 DEF CheckUser, Sent, NewMessage
  <2>2. CASE ~HasRoom(RecentOf(u), PerUser)
    <3> WITNESS "userFull" \in {"userPassed", "userFull"}
    <3> QED BY <2>2 DEF CheckUser, Sent, NewMessage
  <2> QED BY <2>1, <2>2
<1>4. PICK N \in Nat : N = Len(attempt) + 1
  <2>1. Len(attempt) + 1 \in Nat
    BY <1>1, RateTypes
  <2> QED BY <2>1
<1>5. /\ N \notin Attempts /\ Attempts' = Attempts \cup {N} /\ Attempts' = 1..N
      /\ attempt' \in Seq(Messages) /\ \A n \in Attempts : attempt'[n] = attempt[n] /\ n < N
      /\ attempt'[N].from = u /\ attempt'[N].at = now /\ attempt'[N].decided = now /\ attempt'[N].verdict = v
      /\ Passed' = Passed
      /\ \A w : Admitted(w)' = IF w = u /\ v = "userPassed" THEN Admitted(w) \cup {N} ELSE Admitted(w)
  BY <1>1, <1>2, <1>3, <1>4, MessageIsNew
<1>6. /\ now \in Nat /\ Attempts = 1..Len(attempt) /\ Len(attempt) \in Nat
      /\ \A n \in Attempts : attempt[n].at \in Nat /\ attempt[n].at <= now /\ attempt[n].decided <= now
      /\ Passed \subseteq Attempts /\ \A w : Admitted(w) \subseteq Attempts
  BY <1>1, RateTypes
<1>7. RecentOf(u) \subseteq userEvents[u] /\ userEvents[u] \in SUBSET Attempts
  BY <1>1 DEF RecentOf, RateTypeOK
<1>8. RateTypeOK'
  <2>1. \A n \in Attempts' : attempt'[n].at <= now' /\ attempt'[n].decided <= now'
    BY <1>2, <1>5, <1>6
  <2>2. userEvents' \in [From -> SUBSET Attempts']
    <3>1. userEvents \in [From -> SUBSET Attempts'] 
      BY <1>1, <1>5 DEF RateTypeOK
    <3>2. (IF v = "userPassed" THEN Recorded(userEvents[u], RecentOf(u), Len(attempt) + 1, PerUser)
                                ELSE RecentOf(u)) \in SUBSET Attempts'
      BY <1>4, <1>5, <1>7 DEF Recorded
    <3> QED BY <1>3, <3>1, <3>2
  <2>3. channelEvents' \in SUBSET Attempts'
    BY <1>1, <1>2, <1>5 DEF RateTypeOK
  <2> QED BY <1>1, <1>2, <1>5, <2>1, <2>2, <2>3 DEF RateTypeOK
<1>9. \A t : IsRecent(t)' = IsRecent(t)
  BY <1>2 DEF IsRecent
<1>10. UserInv'
  <2> SUFFICES ASSUME PerUser > 0, NEW w \in From
               PROVE  /\ userEvents'[w] \subseteq Admitted(w)'
                      /\ \A n \in Admitted(w)' : IsRecent(attempt[n].at)' => n \in userEvents'[w]
    BY DEF UserInv
  <2>1. /\ userEvents[w] \subseteq Admitted(w)
        /\ \A n \in Admitted(w) : IsRecent(attempt[n].at) => n \in userEvents[w]
    BY <1>1 DEF UserInv
  <2>2. \A n \in Admitted(w) : IsRecent(attempt[n].at)' <=> IsRecent(attempt[n].at)
    BY <1>2, <1>5, <1>6 DEF IsRecent
  <2>3. CASE w # u
    <3>1. userEvents'[w] = userEvents[w] /\ Admitted(w)' = Admitted(w)
      BY <1>1, <1>3, <1>5, <2>3 DEF RateTypeOK
    <3> QED BY <2>1, <2>2, <3>1
  <2>4. CASE w = u
    <3>1. userEvents'[w] = IF v = "userPassed" THEN RecentOf(u) \cup {N} ELSE RecentOf(u)
      BY <1>1, <1>3, <1>4, <2>4 DEF RateTypeOK, Recorded
    <3>2. \A n \in Admitted(w) : IsRecent(attempt[n].at) => n \in RecentOf(u)
      BY <2>1, <2>4 DEF RecentOf
    <3> QED BY <1>5, <1>7, <2>1, <2>2, <2>4, <3>1, <3>2
  <2> QED BY <2>3, <2>4
<1>11. ChannelInv'
  BY <1>1, <1>2, <1>5, <1>6, <1>9 DEF ChannelInv
<1>12. DayInv' /\ DayIsCounted'
  BY <1>1, <1>2 DEF DayInv, Day, DayIsCounted
<1>13. \A t : ChannelWindow(t)' = ChannelWindow(t)
  BY <1>5, <1>6 DEF ChannelWindow, InWindow
<1>14. ASSUME NEW w \in From, NEW t \in 0..now,  ~(w = u /\ v = "userPassed" /\ t = now)
       PROVE  UserWindow(w, t)' = UserWindow(w, t)
  <2>1. ~(N \in Admitted(w)' /\ InWindow(attempt'[N].at, t))
    BY <1>5, <1>6, <1>14 DEF InWindow
  <2>2. \A n : n # N => (n \in Admitted(w)' <=> n \in Admitted(w))
    BY <1>5
  <2>3. N \notin Admitted(w)
    BY <1>5, <1>6
  <2> QED BY <1>5, <1>6, <2>1, <2>2, <2>3 DEF UserWindow, InWindow
<1>15. LimitsHold'
  <2> SUFFICES ASSUME NEW t \in 0..now
               PROVE  /\ PerUser > 0 => \A w \in From : Cardinality(UserWindow(w, t)') <= PerUser
                      /\ PerChannel > 0 => Cardinality(ChannelWindow(t)') <= PerChannel
    BY <1>2, LimitsByWindow DEF LimitsHold, UserWindow, ChannelWindow
  <2>1. PerChannel > 0 => Cardinality(ChannelWindow(t)') <= PerChannel
    BY <1>1, <1>13, LimitsByWindow
  <2>2. ASSUME PerUser > 0, NEW w \in From PROVE Cardinality(UserWindow(w, t)') <= PerUser
    <3>1. CASE w = u /\ v = "userPassed" /\ t = now
      <4>1. RecentOf(u) = UserWindow(u, now)
        BY <1>1, <2>2, WindowsOfNow
      <4>2. UserWindow(w, t)' \subseteq RecentOf(u) \cup {N}
        <5> SUFFICES ASSUME NEW m \in UserWindow(w, t)', m # N PROVE m \in UserWindow(u, now)
          BY <4>1
        <5>1. m \in Admitted(u)' /\ InWindow(attempt[m].at, t)'
          BY <3>1 DEF UserWindow
        <5>2. m \in Admitted(u) /\ attempt'[m] = attempt[m]
          BY <1>5, <1>6, <5>1
        <5> QED BY <1>2, <3>1, <5>1, <5>2 DEF UserWindow, InWindow
      <4>3. Cardinality(RecentOf(u) \cup {N}) <= PerUser
        BY <1>3, <1>6, <1>7, <2>2, <3>1, RoomLeft, RateNumbers
      <4>4. RecentOf(u) \cup {N} \in SUBSET (1..N)
        BY <1>5, <1>7
      <4>5. /\ Cardinality(UserWindow(w, t)') <= Cardinality(RecentOf(u) \cup {N})
            /\ Cardinality(UserWindow(w, t)') \in Nat /\ Cardinality(RecentOf(u) \cup {N}) \in Nat
        BY <4>2, <4>4, MessageSets
      <4> QED BY <4>3, <4>5, RateNumbers
    <3>2. CASE ~(w = u /\ v = "userPassed" /\ t = now)
      BY <1>1, <1>14, <2>2, <3>2, LimitsByWindow
    <3> QED BY <3>1, <3>2
  <2> QED BY <2>1, <2>2
<1>16. RefusedForAReason'
  <2> SUFFICES ASSUME NEW n \in Attempts'
               PROVE  /\ attempt'[n].verdict = "userFull" => Cardinality(UserReason(n)') >= PerUser
                      /\ attempt'[n].verdict = "channelFull" => Cardinality(ChannelReason(n)') >= PerChannel
    BY DEF RefusedForAReason, UserReason, ChannelReason
  <2>1. CASE n \in Attempts
    <3>1. attempt'[n] = attempt[n] /\ n < N
      BY <1>5, <2>1
    <3>2. ChannelReason(n)' = ChannelReason(n)
      BY <1>5, <1>6, <3>1 DEF ChannelReason, InWindow
    <3>3. UserReason(n)' = UserReason(n)
      <4>1. ~(N < n)
        BY <1>6, <2>1, <3>1
      <4>2. ASSUME NEW m PROVE m \in UserReason(n)' <=> m \in UserReason(n)
        <5>1. CASE m = N
          BY <1>5, <4>1, <5>1 DEF UserReason, Admitted
        <5>2. CASE m # N
          <6>1. m \in Attempts' <=> m \in Attempts
            BY <1>5, <5>2
          <6>2. m \in Attempts => attempt'[m] = attempt[m]
            BY <1>5
          <6> QED BY <3>1, <6>1, <6>2 DEF UserReason, Admitted, InWindow
        <5> QED BY <5>1, <5>2
      <4> QED BY <4>2
    <3> QED BY <1>1, <2>1, <3>1, <3>2, <3>3, ReasonsBySet
  <2>2. CASE n = N /\ v = "userFull"
    <3>1. ~HasRoom(RecentOf(u), PerUser) /\ PerUser > 0
      BY <1>3, <2>2, RateNumbers DEF HasRoom
    <3>2. UserReason(N)' = RecentOf(u)
      <4>1. RecentOf(u) = UserWindow(u, now)
        BY <1>1, <3>1, WindowsOfNow
      <4>2. Admitted(u)' = Admitted(u)
        BY <1>5, <2>2
      <4> QED BY <1>5, <1>6, <4>1, <4>2 DEF UserReason, UserWindow, InWindow
    <3> QED BY <1>5, <1>6, <1>7, <2>2, <3>1, <3>2, RoomLeft, RateNumbers
  <2>3. CASE n = N /\ v = "userPassed"
    BY <1>5, <2>3
  <2> QED BY <1>5, <2>1, <2>2, <2>3
<1> QED BY <1>8, <1>10, <1>11, <1>12, <1>15, <1>16 DEF RateInv, RateHolds

(* A decided message keeps its number and its first half.                  *)
LEMMA MessageIsDecided ==
  ASSUME RateTypeOK, NEW n \in Attempts, attempt[n].verdict = "userPassed", now' = now,
         NEW v \in {"passed", "channelFull"},
         attempt' = [attempt EXCEPT ![n].verdict = v, ![n].decided = now]
  PROVE  /\ Attempts' = Attempts /\ attempt' \in Seq(Messages)
         /\ \A m \in Attempts : m # n => attempt'[m] = attempt[m]
         /\ \A m \in Attempts : attempt'[m].at = attempt[m].at /\ attempt'[m].from = attempt[m].from
         /\ attempt'[n].verdict = v /\ attempt'[n].decided = now
         /\ n \notin Passed /\ Passed' = IF v = "passed" THEN Passed \cup {n} ELSE Passed
         /\ \A u : Admitted(u)' = Admitted(u)
<1>1. attempt \in Seq(Messages) /\ Attempts = DOMAIN attempt /\ n \in DOMAIN attempt /\ now \in Nat
  BY DEF RateTypeOK, Attempts
<1>2. attempt[n] \in Messages
  BY <1>1
<1>3. /\ attempt'[n] = [attempt[n] EXCEPT !.verdict = v, !.decided = now]
      /\ \A m \in Attempts : m # n => attempt'[m] = attempt[m]
      /\ Attempts' = Attempts
  BY <1>1 DEF Attempts
<1>4. /\ attempt'[n].from = attempt[n].from /\ attempt'[n].at = attempt[n].at
      /\ attempt'[n].verdict = v /\ attempt'[n].decided = now /\ attempt'[n] \in Messages
  BY <1>1, <1>2, <1>3 DEF Messages, Verdicts
<1>5. attempt' \in Seq(Messages)
  <2>1. attempt' = [attempt EXCEPT ![n] = attempt'[n]]
    BY <1>1, <1>3
  <2> QED BY <1>1, <1>4, <2>1
<1>6. \A m \in Attempts : attempt'[m].at = attempt[m].at /\ attempt'[m].from = attempt[m].from
  BY <1>3, <1>4
<1>7. n \notin Passed
  BY DEF Passed
<1>8. \A m : m # n => (m \in Passed' <=> m \in Passed)
  BY <1>3 DEF Passed
<1>9. n \in Passed' <=> v = "passed"
  BY <1>1, <1>3, <1>4 DEF Passed
<1>10. ASSUME NEW u PROVE Admitted(u)' = Admitted(u)
  <2>1. ASSUME NEW m PROVE m \in Admitted(u)' <=> m \in Admitted(u)
    BY <1>3, <1>4 DEF Admitted
  <2> QED BY <2>1
<1>11. Passed' = IF v = "passed" THEN Passed \cup {n} ELSE Passed
  <2>1. CASE v = "passed"
    BY <1>7, <1>8, <1>9, <2>1
  <2>2. CASE v # "passed"
    BY <1>7, <1>8, <1>9, <2>2
  <2> QED BY <2>1, <2>2
<1> QED BY <1>3, <1>4, <1>5, <1>6, <1>7, <1>10, <1>11

LEMMA CheckChannelKeeps ==
  ASSUME RateInv, NEW n \in Attempts, CheckChannel(n)
  PROVE  RateInv'
<1>1. RateTypeOK /\ UserInv /\ ChannelInv /\ DayInv /\ LimitsHold /\ RefusedForAReason /\ DayIsCounted
  BY DEF RateInv, RateHolds
<1>2. attempt[n].verdict = "userPassed" /\ UNCHANGED <<now, userEvents, dailyCost, spent>>
  BY DEF CheckChannel
<1>3. PICK v \in {"passed", "channelFull"} :
        /\ attempt' = [attempt EXCEPT ![n].verdict = v, ![n].decided = now]
        /\ v = "passed" <=> HasRoom(RecentOfChannel, PerChannel)
        /\ channelEvents' = IF v = "passed" THEN Recorded(channelEvents, RecentOfChannel, n, PerChannel)
                                            ELSE RecentOfChannel
  <2>1. CASE HasRoom(RecentOfChannel, PerChannel)
    <3> WITNESS "passed" \in {"passed", "channelFull"}
    <3> QED BY <2>1 DEF CheckChannel
  <2>2. CASE ~HasRoom(RecentOfChannel, PerChannel)
    <3> WITNESS "channelFull" \in {"passed", "channelFull"}
    <3> QED BY <2>2 DEF CheckChannel
  <2> QED BY <2>1, <2>2
<1>4. /\ Attempts' = Attempts /\ attempt' \in Seq(Messages)
      /\ \A m \in Attempts : m # n => attempt'[m] = attempt[m]
      /\ \A m \in Attempts : attempt'[m].at = attempt[m].at /\ attempt'[m].from = attempt[m].from
      /\ attempt'[n].verdict = v /\ attempt'[n].decided = now
      /\ n \notin Passed /\ Passed' = IF v = "passed" THEN Passed \cup {n} ELSE Passed
      /\ \A u : Admitted(u)' = Admitted(u)
  BY <1>1, <1>2, <1>3, MessageIsDecided
<1>5. /\ now \in Nat /\ Attempts = 1..Len(attempt) /\ Len(attempt) \in Nat
      /\ \A m \in Attempts : attempt[m].at <= now /\ attempt[m].decided <= now
      /\ Passed \subseteq Attempts /\ \A u : Admitted(u) \subseteq Attempts
  BY <1>1, RateTypes
<1>6. RecentOfChannel \subseteq channelEvents /\ channelEvents \in SUBSET Attempts
  BY <1>1 DEF RecentOfChannel, RateTypeOK
<1>7. RateTypeOK'
  <2>1. \A m \in Attempts' : attempt'[m].at <= now' /\ attempt'[m].decided <= now'
    BY <1>2, <1>4, <1>5
  <2>2. channelEvents' \in SUBSET Attempts'
    BY <1>3, <1>4, <1>6 DEF Recorded
  <2>3. userEvents' \in [From -> SUBSET Attempts']
    BY <1>1, <1>2, <1>4 DEF RateTypeOK
  <2> QED BY <1>1, <1>2, <1>4, <2>1, <2>2, <2>3 DEF RateTypeOK
<1>8. UserInv' /\ DayInv' /\ DayIsCounted'
  <2>1. \A u : \A m \in Admitted(u) : IsRecent(attempt[m].at)' <=> IsRecent(attempt[m].at)
    BY <1>2, <1>4, <1>5 DEF IsRecent
  <2> QED BY <1>1, <1>2, <1>4, <2>1 DEF UserInv, DayInv, Day, DayIsCounted
<1>9. \A m \in Passed : attempt'[m] = attempt[m]
  BY <1>4, <1>5
<1>10. ChannelInv'
  <2> SUFFICES ASSUME PerChannel > 0
               PROVE  /\ channelEvents' \subseteq Passed'
                      /\ \A m \in Passed' : IsRecent(attempt[m].decided)' => m \in channelEvents'
    BY DEF ChannelInv
  <2>1. channelEvents \subseteq Passed /\ \A m \in Passed : IsRecent(attempt[m].decided) => m \in channelEvents
    BY <1>1 DEF ChannelInv
  <2>2. \A m \in Passed : IsRecent(attempt[m].decided)' <=> IsRecent(attempt[m].decided)
    BY <1>2, <1>9 DEF IsRecent
  <2>3. \A m \in Passed : IsRecent(attempt[m].decided) => m \in RecentOfChannel
    BY <2>1 DEF RecentOfChannel
  <2>4. channelEvents' = IF v = "passed" THEN RecentOfChannel \cup {n} ELSE RecentOfChannel
    BY <1>3 DEF Recorded
  <2> QED BY <1>4, <1>6, <2>1, <2>2, <2>3, <2>4
<1>11. /\ \A u, t : UserWindow(u, t)' = UserWindow(u, t)
       /\ \A m \in Attempts : UserReason(m)' = UserReason(m)
  <2>1. ASSUME NEW u, NEW t PROVE UserWindow(u, t)' = UserWindow(u, t)
    BY <1>4, <1>5 DEF UserWindow, InWindow
  <2>2. ASSUME NEW m \in Attempts PROVE UserReason(m)' = UserReason(m)
    <3> SUFFICES ASSUME NEW k PROVE k \in UserReason(m)' <=> k \in UserReason(m)
      OBVIOUS
    <3>1. attempt'[m].from = attempt[m].from /\ attempt'[m].at = attempt[m].at
      BY <1>4
    <3>2. \A f : k \in Admitted(f)' <=> k \in Admitted(f)
      BY <1>4
    <3>3. k \in Attempts => attempt'[k].at = attempt[k].at
      BY <1>4
    <3>4. \A f : (k \in Attempts' /\ attempt'[k].from = f /\ attempt'[k].verdict # "userFull")
                 <=> (k \in Attempts /\ attempt[k].from = f /\ attempt[k].verdict # "userFull")
      BY <3>2 DEF Admitted
    <3> QED BY <3>1, <3>3, <3>4 DEF UserReason, Admitted, InWindow
  <2> QED BY <2>1, <2>2
<1>12. PerChannel > 0 => RecentOfChannel = ChannelWindow(now)
  BY <1>1, WindowsOfNow
<1>13. ASSUME NEW t \in 0..now, v # "passed" \/ t # now
       PROVE  ChannelWindow(t)' = ChannelWindow(t)
  <2> SUFFICES ASSUME NEW m PROVE m \in ChannelWindow(t)' <=> m \in ChannelWindow(t)
    OBVIOUS
  <2>1. m # n => (m \in Passed' <=> m \in Passed)
    BY <1>4
  <2>2. m \in Passed => (InWindow(attempt[m].decided, t)' <=> InWindow(attempt[m].decided, t))
    BY <1>9 DEF InWindow
  <2>3. n \notin ChannelWindow(t)' /\ n \notin ChannelWindow(t)
    BY <1>4, <1>5, <1>13 DEF ChannelWindow, InWindow
  <2> QED BY <2>1, <2>2, <2>3 DEF ChannelWindow
<1>14. LimitsHold'
  <2> SUFFICES ASSUME NEW t \in 0..now
               PROVE  /\ PerUser > 0 => \A u \in From : Cardinality(UserWindow(u, t)') <= PerUser
                      /\ PerChannel > 0 => Cardinality(ChannelWindow(t)') <= PerChannel
    BY <1>2 DEF LimitsHold, UserWindow, ChannelWindow
  <2>1. PerUser > 0 => \A u \in From : Cardinality(UserWindow(u, t)') <= PerUser
    BY <1>1, <1>11, LimitsByWindow
  <2>2. ASSUME PerChannel > 0 PROVE Cardinality(ChannelWindow(t)') <= PerChannel
    <3>1. CASE v = "passed" /\ t = now
      <4>1. ChannelWindow(t)' \subseteq RecentOfChannel \cup {n}
        <5> SUFFICES ASSUME NEW m \in ChannelWindow(t)', m # n PROVE m \in ChannelWindow(now)
          BY <1>12, <2>2
        <5>1. m \in Passed' /\ InWindow(attempt[m].decided, t)'
          BY DEF ChannelWindow
        <5>2. m \in Passed /\ attempt'[m] = attempt[m]
          BY <1>4, <1>9, <5>1
        <5> QED BY <3>1, <5>1, <5>2 DEF ChannelWindow, InWindow
      <4>2. Cardinality(RecentOfChannel \cup {n}) <= PerChannel
        BY <1>3, <1>5, <1>6, <2>2, <3>1, RoomLeft, RateNumbers
      <4>3. RecentOfChannel \cup {n} \in SUBSET (1..Len(attempt))
        BY <1>5, <1>6
      <4>4. /\ Cardinality(ChannelWindow(t)') <= Cardinality(RecentOfChannel \cup {n})
            /\ Cardinality(ChannelWindow(t)') \in Nat /\ Cardinality(RecentOfChannel \cup {n}) \in Nat
        BY <1>5, <4>1, <4>3, MessageSets
      <4> QED BY <4>2, <4>4, RateNumbers
    <3>2. CASE ~(v = "passed" /\ t = now)
      BY <1>1, <1>13, <2>2, <3>2, LimitsByWindow
    <3> QED BY <3>1, <3>2
  <2> QED BY <2>1, <2>2
<1>15. RefusedForAReason'
  <2> SUFFICES ASSUME NEW m \in Attempts
               PROVE  /\ attempt'[m].verdict = "userFull" => Cardinality(UserReason(m)') >= PerUser
                      /\ attempt'[m].verdict = "channelFull" => Cardinality(ChannelReason(m)') >= PerChannel
    BY <1>4 DEF RefusedForAReason, UserReason, ChannelReason
  <2>1. CASE m # n
    <3>1. attempt'[m] = attempt[m]
      BY <1>4, <2>1
    <3>2. ChannelReason(m) \subseteq ChannelReason(m)'
      BY <1>4, <1>9, <3>1 DEF ChannelReason, InWindow
    <3>3. ChannelReason(m)' \in SUBSET (1..Len(attempt))
      BY <1>4, <1>5 DEF ChannelReason
    <3>4. /\ Cardinality(ChannelReason(m)) <= Cardinality(ChannelReason(m)')
          /\ Cardinality(ChannelReason(m)) \in Nat /\ Cardinality(ChannelReason(m)') \in Nat
      BY <1>5, <3>2, <3>3, MessageSets
    <3>5. /\ attempt[m].verdict = "userFull" => Cardinality(UserReason(m)) >= PerUser
          /\ attempt[m].verdict = "channelFull" => Cardinality(ChannelReason(m)) >= PerChannel
      BY <1>1, ReasonsBySet
    <3>6. UserReason(m)' = UserReason(m)
      BY <1>11
    <3> QED BY <3>1, <3>4, <3>5, <3>6, RateNumbers
  <2>2. CASE m = n /\ v = "channelFull"
    <3>1. ~HasRoom(RecentOfChannel, PerChannel) /\ PerChannel > 0
      BY <1>3, <2>2, RateNumbers DEF HasRoom
    <3>2. Passed' = Passed
      BY <1>4, <2>2
    <3>3. ChannelReason(m)' = RecentOfChannel
      BY <1>4, <1>9, <1>12, <2>2, <3>1, <3>2 DEF ChannelReason, ChannelWindow, InWindow
    <3> QED BY <1>4, <1>5, <1>6, <2>2, <3>1, <3>3, RoomLeft, RateNumbers
  <2>3. CASE m = n /\ v = "passed"
    BY <1>4, <2>3
  <2> QED BY <2>1, <2>2, <2>3
<1> QED BY <1>7, <1>8, <1>10, <1>14, <1>15 DEF RateInv, RateHolds

LEMMA RateStep ==
  ASSUME RateInv, [RateNext]_rateVars
  PROVE  RateInv'
<1>1. CASE UNCHANGED rateVars
  <2>1. UNCHANGED <<now, userEvents, channelEvents, attempt, dailyCost, spent>>
    BY <1>1 DEF rateVars
  <2>2. (\A u : Admitted(u)' = Admitted(u)) /\ Passed' = Passed /\ Attempts' = Attempts
    BY <2>1 DEF Admitted, Passed, Attempts
  <2>3. RateTypeOK' /\ UserInv' /\ ChannelInv' /\ DayInv'
    BY <2>1, <2>2 DEF RateInv, RateTypeOK, UserInv, ChannelInv, DayInv, IsRecent, Day
  <2>4. LimitsHold' /\ RefusedForAReason' /\ DayIsCounted'
    BY <2>1, <2>2 DEF RateInv, RateHolds, LimitsHold, RefusedForAReason, DayIsCounted, InWindow
  <2> QED BY <2>3, <2>4 DEF RateInv, RateHolds
<1> QED BY <1>1, TickKeeps, CheckUserKeeps, CheckChannelKeeps, CostKeeps DEF RateNext

(* However the two halves of the checks interleave, no window holds more   *)
(* than its limit, a refusal has its reason, and the cost of the day is    *)
(* all that was recorded on it.                                            *)
THEOREM LimitsAreKept == RateSpec => []RateHolds
<1>1. RateInv => RateHolds
  BY DEF RateInv
<1> QED BY RateInitHolds, RateStep, <1>1, PTL DEF RateSpec

-----------------------------------------------------------------------------
(* Approvals.  What a call may still do is told by its step: before it is  *)
(* decided it is not approved, and behind the look at always_ask its tool  *)
(* is not one that must be asked about.                                    *)

Steps == {"auto", "always", "once", "session", "nonCli", "ask", "log", "done"}
Reasons == {"", "auto_approve", "allow_all_once", "session_allowlist", "non_cli_session", "cli", "requested"}
CallRecords == [tool : ToolNames, by : People, step : Steps, approved : BOOLEAN, reason : Reasons]
RequestRecords == [tool : ToolNames, by : People, expires : Nat]
Settlements == [id : Nat, by : People, at : Nat]

ApprovalTypes ==
  /\ minute \in Nat /\ minute <= MaxMinutes /\ interactive \in BOOLEAN
  /\ autoApprove \in SUBSET ToolNames /\ alwaysAsk \in SUBSET ToolNames /\ sessionList \in SUBSET ToolNames
  /\ nonCliList \in SUBSET ToolNames /\ applying \in SUBSET ToolNames
  /\ onceLeft \in Nat /\ grants \in Nat /\ changes \in Nat /\ onceLeft <= changes /\ changes <= MaxChanges
  /\ calls \in Seq(CallRecords) /\ made \in Seq(RequestRecords)
  /\ settled \in Seq(Settlements) /\ auditLog \in Seq(Nat)
  /\ requests \in SUBSET DOMAIN made /\ cleared \in SUBSET DOMAIN made

MustAsk == alwaysAsk \ everAuto

CallIsSound(n) ==
  /\ calls[n].step \notin {"log", "done"} => ~calls[n].approved
  /\ calls[n].step \in {"once", "session", "nonCli"} => calls[n].tool \notin MustAsk
  /\ calls[n].approved /\ calls[n].tool \in MustAsk => calls[n].reason = "cli"

CallInv == autoApprove \subseteq everAuto /\ \A n \in DOMAIN calls : CallIsSound(n)

LogInv ==
  /\ Len(auditLog) <= LogCap
  /\ \A i \in DOMAIN auditLog : auditLog[i] \in DOMAIN calls /\ calls[auditLog[i]].step = "done"
  /\ \A i, j \in DOMAIN auditLog : i # j => auditLog[i] # auditLog[j]

BookInv ==
  /\ RequestsAreOwn /\ OneRequestEach
  /\ \A i \in DOMAIN settled : settled[i].id \in DOMAIN made /\ settled[i].id \notin requests

ApprovalInv == ApprovalTypes /\ CallInv /\ OnceIsOnce /\ LogInv /\ BookInv

LEMMA ApprovalInitHolds == ApprovalInit => ApprovalInv
<1> SUFFICES ASSUME ApprovalInit PROVE ApprovalInv
  OBVIOUS
<1>1. ApprovalTypes
  BY ApprovalAssumption DEF ApprovalInit, ApprovalTypes
<1>2. DOMAIN calls = {} /\ DOMAIN auditLog = {} /\ DOMAIN settled = {} /\ DOMAIN made = {} /\ Len(auditLog) = 0
  BY DEF ApprovalInit
<1>3. CallInv
  BY <1>2 DEF ApprovalInit, CallInv
<1>4. OnceIsOnce
  <2>1. ApprovedFor("allow_all_once") = {}
    BY <1>2 DEF ApprovedFor
  <2> QED BY <2>1, FS_EmptySet DEF OnceIsOnce, ApprovalInit
<1>5. LogInv
  BY <1>2, ApprovalAssumption DEF LogInv
<1>6. BookInv
  BY <1>2 DEF ApprovalInit, BookInv, RequestsAreOwn, OneRequestEach, Live
<1> QED BY <1>1, <1>3, <1>4, <1>5, <1>6 DEF ApprovalInv

(* One call takes a step, the others stay as they are.                     *)
Moved(n) ==
  /\ calls' \in Seq(CallRecords) /\ DOMAIN calls' = DOMAIN calls
  /\ \A m \in DOMAIN calls : m # n => calls'[m] = calls[m]
  /\ calls'[n].tool = calls[n].tool

LEMMA CallGoesOn ==
  ASSUME ApprovalTypes, NEW n \in DOMAIN calls, NEW s \in Steps, To(n, s)
  PROVE  /\ Moved(n) /\ calls'[n].step = s
         /\ calls'[n].approved = calls[n].approved /\ calls'[n].reason = calls[n].reason
<1>1. calls \in Seq(CallRecords) /\ calls[n] \in CallRecords
  BY DEF ApprovalTypes
<1>2. DOMAIN calls' = DOMAIN calls /\ \A m \in DOMAIN calls : m # n => calls'[m] = calls[m]
  BY DEF To
<1>3. calls'[n] = [calls[n] EXCEPT !.step = s]
  BY DEF To
<1>4. calls'[n] \in CallRecords
  BY <1>1, <1>3 DEF CallRecords
<1>5. calls' \in Seq(CallRecords)
  <2>1. calls' = [calls EXCEPT ![n] = calls'[n]]
    BY <1>3 DEF To
  <2> QED BY <1>1, <1>4, <2>1
<1>6. /\ calls'[n].step = s /\ calls'[n].tool = calls[n].tool
      /\ calls'[n].approved = calls[n].approved /\ calls'[n].reason = calls[n].reason
  BY <1>1, <1>3 DEF CallRecords
<1> QED BY <1>2, <1>5, <1>6 DEF Moved

LEMMA CallIsDecided ==
  ASSUME ApprovalTypes, NEW n \in DOMAIN calls, NEW yes \in BOOLEAN, NEW why \in Reasons, Decide(n, yes, why)
  PROVE  /\ Moved(n) /\ calls'[n].step = "log"
         /\ calls'[n].approved = yes /\ calls'[n].reason = why
<1>1. calls \in Seq(CallRecords) /\ calls[n] \in CallRecords
  BY DEF ApprovalTypes
<1>2. DOMAIN calls' = DOMAIN calls /\ \A m \in DOMAIN calls : m # n => calls'[m] = calls[m]
  BY DEF Decide
<1>3. calls'[n] = [calls[n] EXCEPT !.step = "log", !.approved = yes, !.reason = why]
  BY DEF Decide
<1>4. calls'[n] \in CallRecords
  BY <1>1, <1>3 DEF CallRecords, Steps
<1>5. calls' \in Seq(CallRecords)
  <2>1. calls' = [calls EXCEPT ![n] = calls'[n]]
    BY <1>2, <1>3 DEF Decide
  <2> QED BY <1>1, <1>4, <2>1
<1>6. calls'[n].step = "log" /\ calls'[n].tool = calls[n].tool /\ calls'[n].approved = yes /\ calls'[n].reason = why
  BY <1>1, <1>3 DEF CallRecords
<1> QED BY <1>2, <1>5, <1>6 DEF Moved

(* A step of a call that is not logged yet disturbs no other call, nor     *)
(* what is in the log.                                                     *)
LEMMA OneCallMoves ==
  ASSUME ApprovalInv, NEW n \in DOMAIN calls, Moved(n), calls[n].step # "done",
         UNCHANGED <<autoApprove, alwaysAsk, everAuto, auditLog>>, CallIsSound(n)'
  PROVE  CallInv' /\ LogInv'
<1>1. MustAsk' = MustAsk
  BY DEF MustAsk
<1>2. \A m \in DOMAIN calls : m # n => CallIsSound(m)'
  BY <1>1 DEF ApprovalInv, CallInv, CallIsSound, Moved
<1>3. CallInv'
  BY <1>2 DEF ApprovalInv, CallInv, Moved
<1>4. LogInv'
  BY DEF ApprovalInv, LogInv, Moved
<1> QED BY <1>3, <1>4

LEMMA ApprovedStay ==
  ASSUME NEW n \in DOMAIN calls, Moved(n), NEW why,
         (calls'[n].approved /\ calls'[n].reason = why) <=> (calls[n].approved /\ calls[n].reason = why)
  PROVE  ApprovedFor(why)' = ApprovedFor(why)
<1>1. ASSUME NEW m PROVE m \in ApprovedFor(why)' <=> m \in ApprovedFor(why)
  BY DEF ApprovedFor, Moved
<1> QED BY <1>1

LEMMA BookStays ==
  ASSUME BookInv, UNCHANGED <<minute, requests, made, settled, cleared>>
  PROVE  BookInv'
BY DEF BookInv, RequestsAreOwn, OneRequestEach, Live, Expired

(* A look that finds nothing.                                              *)
LEMMA ToKeeps ==
  ASSUME ApprovalInv, NEW n \in DOMAIN calls, NEW s \in Steps \ {"log", "done"}, To(n, s),
         calls[n].step \notin {"log", "done"},
         s \in {"once", "session", "nonCli"} => calls[n].tool \notin MustAsk,
         UNCHANGED <<minute, interactive, lists, onceLeft, book, auditLog, grants>>
  PROVE  ApprovalInv'
<1>1. /\ UNCHANGED <<minute, interactive, autoApprove, alwaysAsk, sessionList, nonCliList, applying, everAuto>>
      /\ UNCHANGED <<changes, onceLeft, requests, made, settled, cleared, auditLog, grants>>
  BY DEF lists, book
<1>2. /\ Moved(n) /\ calls'[n].step = s
      /\ calls'[n].approved = calls[n].approved /\ calls'[n].reason = calls[n].reason
  BY CallGoesOn DEF ApprovalInv
<1>3. CallIsSound(n)'
  BY <1>1, <1>2 DEF ApprovalInv, CallInv, CallIsSound, MustAsk, Moved
<1>4. CallInv' /\ LogInv'
  BY <1>1, <1>2, <1>3, OneCallMoves
<1>5. ApprovalTypes'
  BY <1>1, <1>2 DEF ApprovalInv, ApprovalTypes, Moved
<1>6. OnceIsOnce'
  <2>1. ApprovedFor("allow_all_once")' = ApprovedFor("allow_all_once")
    BY <1>2, ApprovedStay
  <2> QED BY <1>1, <2>1 DEF ApprovalInv, OnceIsOnce
<1> QED BY <1>1, <1>4, <1>5, <1>6, BookStays DEF ApprovalInv

(* A decision.                                                             *)
LEMMA DecideKeeps ==
  ASSUME ApprovalInv, NEW n \in DOMAIN calls, NEW yes \in BOOLEAN, NEW why \in Reasons, Decide(n, yes, why),
         calls[n].step \notin {"log", "done"},
         yes /\ why # "cli" => calls[n].tool \notin MustAsk,
         UNCHANGED <<autoApprove, alwaysAsk, everAuto, auditLog>>
  PROVE  /\ CallInv' /\ LogInv' /\ calls' \in Seq(CallRecords)
         /\ why # "allow_all_once" => ApprovedFor("allow_all_once")' = ApprovedFor("allow_all_once")
<1>1. Moved(n) /\ calls'[n].step = "log" /\ calls'[n].approved = yes /\ calls'[n].reason = why
  BY CallIsDecided DEF ApprovalInv
<1>2. CallIsSound(n)'
  BY <1>1 DEF CallIsSound, MustAsk, Moved
<1>3. ~calls[n].approved
  BY DEF ApprovalInv, CallInv, CallIsSound
<1>4. ASSUME why # "allow_all_once" PROVE ApprovedFor("allow_all_once")' = ApprovedFor("allow_all_once")
  BY <1>1, <1>3, <1>4, ApprovedStay
<1> QED BY <1>1, <1>2, <1>4, OneCallMoves DEF Moved

(* A decision by a list.                                                   *)
LEMMA ListDecides ==
  ASSUME ApprovalInv, NEW n \in DOMAIN calls, NEW why \in Reasons, Decide(n, TRUE, why),
         why # "allow_all_once", calls[n].step \notin {"log", "done"}, calls[n].tool \notin MustAsk,
         UNCHANGED <<minute, interactive, lists, onceLeft, book, auditLog, grants>>
  PROVE  ApprovalInv'
<1>1. /\ UNCHANGED <<minute, interactive, autoApprove, alwaysAsk, sessionList, nonCliList, applying, everAuto>>
      /\ UNCHANGED <<changes, onceLeft, requests, made, settled, cleared, auditLog, grants>>
  BY DEF lists, book
<1>2. /\ CallInv' /\ LogInv' /\ calls' \in Seq(CallRecords)
      /\ ApprovedFor("allow_all_once")' = ApprovedFor("allow_all_once")
  BY <1>1, DecideKeeps
<1>3. ApprovalTypes'
  BY <1>1, <1>2 DEF ApprovalInv, ApprovalTypes
<1>4. OnceIsOnce'
  BY <1>1, <1>2 DEF ApprovalInv, OnceIsOnce
<1> QED BY <1>1, <1>2, <1>3, <1>4, BookStays DEF ApprovalInv

LEMMA LooksKeep ==
  ASSUME ApprovalInv, NEW n \in DOMAIN calls,
         LookAuto(n) \/ LookAlways(n) \/ LookSession(n) \/ LookNonCli(n)
  PROVE  ApprovalInv'
<1>1. CASE LookAuto(n)
  <2>1. /\ calls[n].step = "auto" /\ (To(n, "always") \/ (calls[n].tool \in autoApprove /\ Decide(n, TRUE, "auto_approve")))
        /\ UNCHANGED <<minute, interactive, lists, onceLeft, book, auditLog, grants>>
    BY <1>1 DEF LookAuto, Look
  <2>2. calls[n].tool \in autoApprove => calls[n].tool \notin MustAsk
    BY DEF ApprovalInv, CallInv, MustAsk
  <2> QED BY <2>1, <2>2, ToKeeps, ListDecides DEF Steps, Reasons
<1>2. CASE LookAlways(n)
  <2>1. /\ calls[n].step = "always"
        /\ To(n, "ask") \/ (calls[n].tool \notin alwaysAsk /\ To(n, "once"))
        /\ UNCHANGED <<minute, interactive, lists, onceLeft, book, auditLog, grants>>
    BY <1>2 DEF LookAlways
  <2>2. calls[n].tool \notin alwaysAsk => calls[n].tool \notin MustAsk
    BY DEF MustAsk
  <2> QED BY <2>1, <2>2, ToKeeps DEF Steps
<1>3. CASE LookSession(n)
  <2>1. /\ calls[n].step = "session" /\ (To(n, "nonCli") \/ Decide(n, TRUE, "session_allowlist"))
        /\ UNCHANGED <<minute, interactive, lists, onceLeft, book, auditLog, grants>>
    BY <1>3 DEF LookSession, Look
  <2>2. calls[n].tool \notin MustAsk
    BY <2>1 DEF ApprovalInv, CallInv, CallIsSound
  <2> QED BY <2>1, <2>2, ToKeeps, ListDecides DEF Steps, Reasons
<1>4. CASE LookNonCli(n)
  <2>1. /\ calls[n].step = "nonCli" /\ (To(n, "ask") \/ Decide(n, TRUE, "non_cli_session"))
        /\ UNCHANGED <<minute, interactive, lists, onceLeft, book, auditLog, grants>>
    BY <1>4 DEF LookNonCli, Look
  <2>2. calls[n].tool \notin MustAsk
    BY <2>1 DEF ApprovalInv, CallInv, CallIsSound
  <2> QED BY <2>1, <2>2, ToKeeps, ListDecides DEF Steps, Reasons
<1> QED BY <1>1, <1>2, <1>3, <1>4

(* The one step that looks at the counter takes from it too.               *)
LEMMA TakeOnceKeeps ==
  ASSUME ApprovalInv, NEW n \in DOMAIN calls, TakeOnce(n)
  PROVE  ApprovalInv'
<1>1. CASE onceLeft > 0
  <2>1. /\ calls[n].step = "once" /\ Decide(n, TRUE, "allow_all_once") /\ onceLeft' = onceLeft - 1
        /\ UNCHANGED <<minute, interactive, autoApprove, alwaysAsk, sessionList, nonCliList, applying, everAuto>>
        /\ UNCHANGED <<changes, requests, made, settled, cleared, auditLog, grants>>
    BY <1>1 DEF TakeOnce, lists, book
  <2>2. calls[n].tool \notin MustAsk /\ ~calls[n].approved
    BY <2>1 DEF ApprovalInv, CallInv, CallIsSound
  <2>3. CallInv' /\ LogInv' /\ calls' \in Seq(CallRecords)
    BY <2>1, <2>2, DecideKeeps DEF Reasons
  <2>4. onceLeft \in Nat /\ grants \in Nat /\ changes \in Nat /\ onceLeft <= changes
    BY DEF ApprovalInv, ApprovalTypes
  <2>5. onceLeft' \in Nat /\ onceLeft' <= changes
    BY <1>1, <2>1, <2>4
  <2>6. ApprovalTypes'
    BY <2>1, <2>3, <2>5 DEF ApprovalInv, ApprovalTypes
  <2>7. OnceIsOnce'
    <3>1. Moved(n) /\ calls'[n].approved = TRUE /\ calls'[n].reason = "allow_all_once"
      BY <2>1, CallIsDecided DEF Reasons, ApprovalInv
    <3>2. \A m : m \in ApprovedFor("allow_all_once")' <=> m \in ApprovedFor("allow_all_once") \/ m = n
      BY <2>2, <3>1 DEF ApprovedFor, Moved
    <3>3. ApprovedFor("allow_all_once")' = ApprovedFor("allow_all_once") \cup {n}
      BY <3>2
    <3>4. n \notin ApprovedFor("allow_all_once")
      BY <2>2 DEF ApprovedFor
    <3>5. IsFiniteSet(ApprovedFor("allow_all_once")) /\ Cardinality(ApprovedFor("allow_all_once")) \in Nat
      <4>1. Len(calls) \in Nat /\ ApprovedFor("allow_all_once") \in SUBSET (1..Len(calls))
        BY DEF ApprovedFor, ApprovalInv, ApprovalTypes
      <4> QED BY <4>1, MessageSets
    <3>6. Cardinality(ApprovedFor("allow_all_once")') = Cardinality(ApprovedFor("allow_all_once")) + 1
      BY <3>3, <3>4, <3>5, FS_AddElement
    <3> QED BY <2>1, <2>4, <3>5, <3>6 DEF ApprovalInv, OnceIsOnce
  <2> QED BY <2>1, <2>3, <2>6, <2>7, BookStays DEF ApprovalInv
<1>2. CASE ~(onceLeft > 0)
  <2>1. /\ calls[n].step = "once" /\ To(n, "session")
        /\ UNCHANGED <<minute, interactive, lists, onceLeft, book, auditLog, grants>>
    BY <1>2 DEF TakeOnce
  <2>2. calls[n].tool \notin MustAsk
    BY <2>1 DEF ApprovalInv, CallInv, CallIsSound
  <2> QED BY <2>1, <2>2, ToKeeps DEF Steps
<1> QED BY <1>1, <1>2

LEMMA PromptKeeps ==
  ASSUME ApprovalInv, NEW n \in DOMAIN calls, Prompt(n)
  PROVE  ApprovalInv'
<1>1. PICK yes \in BOOLEAN : Decide(n, yes, "cli")
  BY DEF Prompt
<1>2. /\ calls[n].step = "ask" /\ sessionList' \in {sessionList, sessionList \cup {calls[n].tool}}
      /\ UNCHANGED <<minute, interactive, autoApprove, alwaysAsk, nonCliList, applying, everAuto>>
      /\ UNCHANGED <<changes, onceLeft, requests, made, settled, cleared, auditLog, grants>>
  BY DEF Prompt, book
<1>3. /\ CallInv' /\ LogInv' /\ calls' \in Seq(CallRecords)
      /\ ApprovedFor("allow_all_once")' = ApprovedFor("allow_all_once")
  BY <1>1, <1>2, DecideKeeps DEF Reasons
<1>4. sessionList' \in SUBSET ToolNames
  <2>1. calls[n] \in CallRecords /\ sessionList \in SUBSET ToolNames
    BY DEF ApprovalInv, ApprovalTypes
  <2>2. calls[n].tool \in ToolNames
    BY <2>1 DEF CallRecords
  <2> QED BY <1>2, <2>1, <2>2
<1>5. ApprovalTypes'
  BY <1>2, <1>3, <1>4 DEF ApprovalInv, ApprovalTypes
<1>6. OnceIsOnce'
  BY <1>2, <1>3 DEF ApprovalInv, OnceIsOnce
<1> QED BY <1>2, <1>3, <1>5, <1>6, BookStays DEF ApprovalInv

(* The requests that are left are those that were live; a new one is the   *)
(* only one of its requester for its tool.                                 *)
LEMMA RequestKeeps ==
  ASSUME ApprovalInv, NEW n \in DOMAIN calls, RequestApproval(n)
  PROVE  ApprovalInv'
<1>1. /\ calls[n].step = "ask" /\ Decide(n, FALSE, "requested")
      /\ UNCHANGED <<minute, interactive, autoApprove, alwaysAsk, sessionList, nonCliList, applying, everAuto>>
      /\ UNCHANGED <<changes, onceLeft, auditLog, grants, settled, cleared>>
  BY DEF RequestApproval, lists
<1>2. /\ CallInv' /\ LogInv' /\ calls' \in Seq(CallRecords)
      /\ ApprovedFor("allow_all_once")' = ApprovedFor("allow_all_once")
  BY <1>1, DecideKeeps DEF Reasons
<1>3. OnceIsOnce'
  BY <1>1, <1>2 DEF ApprovalInv, OnceIsOnce
<1>4. Live \subseteq requests /\ requests \in SUBSET DOMAIN made /\ minute \in Nat
  BY DEF Live, ApprovalInv, ApprovalTypes
<1>5. CASE SameRequest(n) # {}
  <2>1. requests' = Live /\ made' = made
    BY <1>5 DEF RequestApproval
  <2>2. ApprovalTypes'
    BY <1>1, <1>2, <1>4, <2>1 DEF ApprovalInv, ApprovalTypes
  <2>3. BookInv'
    BY <1>1, <1>4, <2>1 DEF ApprovalInv, BookInv, RequestsAreOwn, OneRequestEach, Live, Expired
  <2> QED BY <1>2, <1>3, <2>2, <2>3 DEF ApprovalInv
<1>6. CASE SameRequest(n) = {}
  <2> DEFINE new == [tool |-> calls[n].tool, by |-> calls[n].by, expires |-> minute + RequestLife]
  <2>1. made' = Append(made, new) /\ requests' = Live \cup {Len(made')}
    BY <1>6 DEF RequestApproval
  <2>2. new \in RequestRecords /\ new.tool = calls[n].tool /\ new.by = calls[n].by
    <3>1. calls[n] \in CallRecords
      BY DEF ApprovalInv, ApprovalTypes
    <3> QED BY <1>4, <3>1, ApprovalAssumption DEF CallRecords, RequestRecords
  <2> HIDE DEF new
  <2>3. made \in Seq(RequestRecords)
    BY DEF ApprovalInv, ApprovalTypes
  <2>4. PICK N \in Nat : N = Len(made) + 1
    BY <2>3
  <2>5. /\ made' \in Seq(RequestRecords) /\ N \notin DOMAIN made /\ DOMAIN made' = DOMAIN made \cup {N}
        /\ Len(made') = N /\ made'[N] = new /\ \A id \in DOMAIN made : made'[id] = made[id]
    BY <2>1, <2>2, <2>3, <2>4, OneMore
  <2>6. ApprovalTypes'
    <3>1. requests' \in SUBSET DOMAIN made' /\ cleared' \in SUBSET DOMAIN made'
      BY <1>1, <1>4, <2>1, <2>5 DEF ApprovalInv, ApprovalTypes
    <3> QED BY <1>1, <1>2, <2>5, <3>1 DEF ApprovalInv, ApprovalTypes
  <2>7. \A id \in DOMAIN made : Expired(id)' <=> Expired(id)
    BY <1>1, <2>5 DEF Expired
  <2>8. /\ \A i \in DOMAIN settled : settled[i].id \in DOMAIN made /\ settled[i].id \notin requests
        /\ RequestsAreOwn /\ OneRequestEach
    BY DEF ApprovalInv, BookInv
  <2>9. \A i \in DOMAIN settled' : settled'[i].id \in DOMAIN made' /\ settled'[i].id \notin requests'
    BY <1>1, <1>4, <2>1, <2>5, <2>8
  <2>10. RequestsAreOwn'
    <3>1. \A i \in DOMAIN settled : made'[settled[i].id] = made[settled[i].id]
      BY <2>5, <2>8
    <3>2. ASSUME NEW id \in DOMAIN made', ~Expired(id)'
          PROVE  id \in requests' \cup cleared' \/ \E i \in DOMAIN settled' : settled'[i].id = id
      <4>1. CASE id = N
        BY <2>1, <2>5, <4>1
      <4>2. CASE id \in DOMAIN made
        <5>1. ~Expired(id)
          BY <2>7, <3>2, <4>2
        <5> QED BY <1>1, <2>1, <2>8, <4>2, <5>1 DEF RequestsAreOwn, Live
      <4> QED BY <2>5, <4>1, <4>2
    <3> QED BY <1>1, <2>8, <3>1, <3>2 DEF RequestsAreOwn
  <2>11. OneRequestEach'
    <3>1. \A id \in Live' : id = N \/ (id \in Live /\ made'[id] = made[id])
      BY <1>4, <2>1, <2>5, <2>7 DEF Live
    <3>2. \A id \in Live : made[id].tool # calls[n].tool \/ made[id].by # calls[n].by
      BY <1>6 DEF SameRequest
    <3> QED BY <2>2, <2>5, <2>8, <3>1, <3>2 DEF OneRequestEach
  <2> QED BY <1>2, <1>3, <2>6, <2>9, <2>10, <2>11 DEF ApprovalInv, BookInv
<1> QED BY <1>5, <1>6

(* The log is cut before it is full, and what is left of it is still in    *)
(* order and of calls that are done.                                       *)
LEMMA RecordKeeps ==
  ASSUME ApprovalInv, NEW n \in DOMAIN calls, Record(n)
  PROVE  ApprovalInv'
<1>1. /\ calls[n].step = "log" /\ To(n, "done")
      /\ UNCHANGED <<minute, interactive, autoApprove, alwaysAsk, sessionList, nonCliList, applying, everAuto>>
      /\ UNCHANGED <<changes, onceLeft, requests, made, settled, cleared, grants>>
  BY DEF Record, lists, book
<1>2. /\ Moved(n) /\ calls'[n].step = "done"
      /\ calls'[n].approved = calls[n].approved /\ calls'[n].reason = calls[n].reason
  BY <1>1, CallGoesOn DEF ApprovalInv, Steps
<1>3. calls \in Seq(CallRecords) /\ auditLog \in Seq(Nat) /\ DOMAIN calls = 1..Len(calls) /\ n \in Nat
  BY DEF ApprovalInv, ApprovalTypes
<1>4. CallInv'
  <2>1. MustAsk' = MustAsk
    BY <1>1 DEF MustAsk
  <2>2. \A m \in DOMAIN calls : CallIsSound(m)'
    BY <1>1, <1>2, <2>1 DEF ApprovalInv, CallInv, CallIsSound, Moved
  <2> QED BY <1>1, <1>2, <2>2 DEF ApprovalInv, CallInv, Moved
<1>5. OnceIsOnce'
  <2>1. ApprovedFor("allow_all_once")' = ApprovedFor("allow_all_once")
    BY <1>2, ApprovedStay
  <2> QED BY <1>1, <2>1 DEF ApprovalInv, OnceIsOnce
<1>6. PICK dropped \in 0..Len(auditLog), kept \in Seq(Nat) :
        /\ auditLog' = Append(kept, n)
        /\ Len(kept) = Len(auditLog) - dropped /\ Len(kept) < LogCap
        /\ \A i \in 1..Len(kept) : kept[i] = auditLog[i + dropped]
  <2>1. LogCap \in Nat /\ LogCut \in 1..LogCap /\ Len(auditLog) \in Nat /\ Len(auditLog) <= LogCap
    BY <1>3, ApprovalAssumption DEF ApprovalInv, LogInv
  <2>2. CASE Len(auditLog) >= LogCap
    <3> DEFINE kept == SubSeq(auditLog, LogCut + 1, Len(auditLog))
    <3>1. kept \in Seq(Nat) /\ Len(kept) = Len(auditLog) - LogCut
      BY <1>3, <2>1, <2>2
    <3>2. \A i \in 1..Len(kept) : kept[i] = auditLog[i + LogCut]
      <4>1. \A i \in 1..Len(kept) : kept[i] = auditLog[LogCut + 1 + i - 1]
        BY <1>3, <2>1, <2>2
      <4> QED BY <2>1, <3>1, <4>1
    <3>3. auditLog' = Append(kept, n)
      BY <2>2 DEF Record
    <3>4. LogCut \in 0..Len(auditLog) /\ Len(kept) < LogCap
      BY <2>1, <2>2, <3>1
    <3> QED BY <3>1, <3>2, <3>3, <3>4
  <2>3. CASE ~(Len(auditLog) >= LogCap)
    <3>1. auditLog' = Append(auditLog, n)
      BY <2>3 DEF Record
    <3>2. 0 \in 0..Len(auditLog) /\ Len(auditLog) = Len(auditLog) - 0 /\ Len(auditLog) < LogCap
      BY <2>1, <2>3
    <3>3. \A i \in 1..Len(auditLog) : auditLog[i] = auditLog[i + 0]
      BY <1>3
    <3> QED BY <1>3, <3>1, <3>2, <3>3
  <2> QED BY <2>2, <2>3
<1>7. LogInv'
  <2>1. Len(kept) \in Nat /\ Len(auditLog) \in Nat /\ dropped \in Nat /\ LogCap \in Nat /\ DOMAIN auditLog = 1..Len(auditLog)
    BY <1>3, ApprovalAssumption
  <2>2. /\ Len(auditLog') = Len(kept) + 1 /\ DOMAIN auditLog' = 1..(Len(kept) + 1)
        /\ auditLog'[Len(kept) + 1] = n /\ \A i \in 1..Len(kept) : auditLog'[i] = kept[i]
    BY <1>3, <1>6
  <2>3. \A i \in 1..Len(kept) : i + dropped \in DOMAIN auditLog /\ auditLog'[i] = auditLog[i + dropped]
    <3>1. Len(kept) = Len(auditLog) - dropped /\ \A i \in 1..Len(kept) : kept[i] = auditLog[i + dropped]
      BY <1>6
    <3>2. \A i \in 1..Len(kept) : i + dropped \in 1..Len(auditLog)
      BY <2>1, <3>1
    <3> QED BY <2>1, <2>2, <3>1, <3>2
  <2>4. \A i \in DOMAIN auditLog : auditLog[i] # n
    BY <1>1 DEF ApprovalInv, LogInv
  <2>5. Len(auditLog') <= LogCap
    BY <1>6, <2>1, <2>2
  <2>6. ASSUME NEW i \in DOMAIN auditLog' PROVE auditLog'[i] \in DOMAIN calls' /\ calls'[auditLog'[i]].step = "done"
    <3>1. CASE i \in 1..Len(kept)
      <4>1. auditLog'[i] \in DOMAIN calls /\ calls[auditLog'[i]].step = "done" /\ auditLog'[i] # n
        BY <2>3, <2>4, <3>1 DEF ApprovalInv, LogInv
      <4> QED BY <1>2, <4>1 DEF Moved
    <3>2. CASE i = Len(kept) + 1
      BY <1>2, <2>2, <3>2 DEF Moved
    <3> QED BY <2>1, <2>2, <3>1, <3>2
  <2>7. ASSUME NEW i \in DOMAIN auditLog', NEW j \in DOMAIN auditLog', i # j PROVE auditLog'[i] # auditLog'[j]
    <3>1. CASE i \in 1..Len(kept) /\ j \in 1..Len(kept)
      <4>1. i + dropped # j + dropped
        BY <2>1, <2>7, <3>1
      <4> QED BY <2>3, <3>1, <4>1 DEF ApprovalInv, LogInv
    <3>2. CASE i = Len(kept) + 1 /\ j \in 1..Len(kept)
      BY <2>2, <2>3, <2>4, <3>2
    <3>3. CASE j = Len(kept) + 1 /\ i \in 1..Len(kept)
      BY <2>2, <2>3, <2>4, <3>3
    <3> QED BY <2>1, <2>2, <2>7, <3>1, <3>2, <3>3
  <2> QED BY <2>5, <2>6, <2>7 DEF LogInv
<1>8. ApprovalTypes'
  <2>1. auditLog' \in Seq(Nat)
    BY <1>3, <1>6
  <2> QED BY <1>1, <1>2, <2>1 DEF ApprovalInv, ApprovalTypes, Moved
<1> QED BY <1>1, <1>4, <1>5, <1>7, <1>8, BookStays DEF ApprovalInv

LEMMA CallKeeps ==
  ASSUME ApprovalInv, NEW t \in ToolNames, NEW p \in People, Call(t, p)
  PROVE  ApprovalInv'
<1> DEFINE new == [tool |-> t, by |-> p, step |-> "auto", approved |-> FALSE, reason |-> ""]
<1>1. /\ calls' = Append(calls, new)
      /\ UNCHANGED <<minute, interactive, autoApprove, alwaysAsk, sessionList, nonCliList, applying, everAuto>>
      /\ UNCHANGED <<changes, onceLeft, requests, made, settled, cleared, auditLog, grants>>
  BY DEF Call, lists, book
<1>2. new \in CallRecords /\ new.step = "auto" /\ ~new.approved
  BY DEF CallRecords, Steps, Reasons
<1> HIDE DEF new
<1>3. calls \in Seq(CallRecords)
  BY DEF ApprovalInv, ApprovalTypes
<1>4. PICK N \in Nat : N = Len(calls) + 1
  BY <1>3
<1>5. /\ calls' \in Seq(CallRecords) /\ N \notin DOMAIN calls /\ DOMAIN calls' = DOMAIN calls \cup {N}
      /\ calls'[N] = new /\ \A n \in DOMAIN calls : calls'[n] = calls[n]
  BY <1>1, <1>2, <1>3, <1>4, OneMore
<1>6. MustAsk' = MustAsk
  BY <1>1 DEF MustAsk
<1>7. CallInv'
  <2>1. \A n \in DOMAIN calls : CallIsSound(n)'
    BY <1>5, <1>6 DEF ApprovalInv, CallInv, CallIsSound
  <2>2. CallIsSound(N)'
    BY <1>2, <1>5 DEF CallIsSound
  <2> QED BY <1>1, <1>5, <2>1, <2>2 DEF ApprovalInv, CallInv
<1>8. OnceIsOnce'
  <2>1. \A m : m \in ApprovedFor("allow_all_once")' <=> m \in ApprovedFor("allow_all_once")
    BY <1>2, <1>5 DEF ApprovedFor
  <2>2. ApprovedFor("allow_all_once")' = ApprovedFor("allow_all_once")
    BY <2>1
  <2> QED BY <1>1, <2>2 DEF ApprovalInv, OnceIsOnce
<1>9. LogInv' /\ ApprovalTypes'
  BY <1>1, <1>5 DEF ApprovalInv, LogInv, ApprovalTypes
<1> QED BY <1>1, <1>7, <1>8, <1>9, BookStays DEF ApprovalInv

(* What others do to the lists: the tools that must be asked about only    *)
(* become fewer.                                                           *)
LEMMA ListsKeep ==
  ASSUME ApprovalInv, ApprovalTypes', autoApprove' \subseteq everAuto', MustAsk' \subseteq MustAsk,
         onceLeft' - onceLeft = grants' - grants,
         UNCHANGED <<minute, calls, auditLog, requests, made, settled, cleared>>
  PROVE  ApprovalInv'
<1>1. CallInv'
  BY DEF ApprovalInv, CallInv, CallIsSound
<1>2. LogInv'
  BY DEF ApprovalInv, LogInv
<1>3. OnceIsOnce'
  <2>1. ApprovedFor("allow_all_once")' = ApprovedFor("allow_all_once")
    BY DEF ApprovedFor
  <2>2. onceLeft \in Nat /\ grants \in Nat /\ onceLeft' \in Nat /\ grants' \in Nat
    BY DEF ApprovalInv, ApprovalTypes
  <2>3. Cardinality(ApprovedFor("allow_all_once")) \in Nat
    <3>1. Len(calls) \in Nat /\ ApprovedFor("allow_all_once") \in SUBSET (1..Len(calls))
      BY DEF ApprovedFor, ApprovalInv, ApprovalTypes
    <3> QED BY <3>1, MessageSets
  <2> QED BY <2>1, <2>2, <2>3 DEF ApprovalInv, OnceIsOnce
<1> QED BY <1>1, <1>2, <1>3, BookStays DEF ApprovalInv

LEMMA OthersKeep ==
  ASSUME ApprovalInv,
         GrantOnce \/ ChangeNonCli \/ \E t \in ToolNames : ApplyAuto(t) \/ ApplyAutoEnds(t) \/ RevokeAuto(t)
  PROVE  ApprovalInv'
<1>1. /\ UNCHANGED <<minute, calls, auditLog, requests, made, settled, cleared, interactive, sessionList>>
      /\ changes' = changes \/ (changes < MaxChanges /\ changes' = changes + 1)
  BY DEF GrantOnce, ChangeNonCli, ApplyAuto, ApplyAutoEnds, RevokeAuto, Change, book
<1>2. \/ UNCHANGED <<onceLeft, grants>>
      \/ onceLeft' = onceLeft + 1 /\ grants' = grants + 1 /\ changes < MaxChanges /\ changes' = changes + 1
  BY DEF GrantOnce, ChangeNonCli, ApplyAuto, ApplyAutoEnds, RevokeAuto, Change
<1>3. /\ autoApprove' \in SUBSET ToolNames /\ alwaysAsk' \in SUBSET ToolNames
      /\ nonCliList' \in SUBSET ToolNames /\ applying' \in SUBSET ToolNames
      /\ autoApprove' \subseteq everAuto' /\ MustAsk' \subseteq MustAsk
  BY DEF GrantOnce, ChangeNonCli, ApplyAuto, ApplyAutoEnds, RevokeAuto, ApprovalInv, ApprovalTypes, CallInv, MustAsk
<1>4. onceLeft \in Nat /\ grants \in Nat /\ changes \in Nat /\ onceLeft <= changes /\ changes <= MaxChanges
      /\ MaxChanges \in Nat
  BY ApprovalAssumption DEF ApprovalInv, ApprovalTypes
<1>5. /\ onceLeft' \in Nat /\ grants' \in Nat /\ changes' \in Nat /\ onceLeft' <= changes' /\ changes' <= MaxChanges
      /\ onceLeft' - onceLeft = grants' - grants
  BY <1>1, <1>2, <1>4
<1>6. ApprovalTypes'
  BY <1>1, <1>3, <1>5 DEF ApprovalInv, ApprovalTypes
<1> QED BY <1>1, <1>3, <1>5, <1>6, ListsKeep

(* Time only lets requests expire.                                         *)
LEMMA MinuteKeeps ==
  ASSUME ApprovalInv, Minute
  PROVE  ApprovalInv'
<1>1. /\ minute' = minute + 1 /\ minute < MaxMinutes /\ minute \in Nat /\ MaxMinutes \in Nat
      /\ UNCHANGED <<interactive, autoApprove, alwaysAsk, sessionList, nonCliList, applying, everAuto>>
      /\ UNCHANGED <<changes, onceLeft, requests, made, settled, cleared, calls, auditLog, grants>>
  BY ApprovalAssumption DEF Minute, lists, book, ApprovalInv, ApprovalTypes
<1>2. ApprovalTypes'
  BY <1>1 DEF ApprovalInv, ApprovalTypes
<1>3. CallInv' /\ LogInv' /\ OnceIsOnce'
  BY <1>1 DEF ApprovalInv, CallInv, CallIsSound, MustAsk, LogInv, OnceIsOnce, ApprovedFor
<1>4. \A id \in DOMAIN made : Expired(id) => Expired(id)'
  <2>1. \A id \in DOMAIN made : made[id].expires \in Nat
    <3>1. \A id \in DOMAIN made : made[id] \in RequestRecords
      BY DEF ApprovalInv, ApprovalTypes
    <3> QED BY <3>1 DEF RequestRecords
  <2> QED BY <1>1, <2>1 DEF Expired
<1>5. Live' \subseteq Live
  BY <1>1, <1>4 DEF Live, ApprovalInv, ApprovalTypes
<1>6. BookInv'
  BY <1>1, <1>4, <1>5 DEF ApprovalInv, BookInv, RequestsAreOwn, OneRequestEach
<1> QED BY <1>2, <1>3, <1>6 DEF ApprovalInv

(* What is done to requests touches no call.                               *)
LEMMA RequestsApart ==
  ASSUME ApprovalInv, requests' \in SUBSET requests, settled' \in Seq(Settlements),
         cleared' \in SUBSET DOMAIN made,
         UNCHANGED <<minute, interactive, lists, onceLeft, calls, auditLog, grants, made>>
  PROVE  ApprovalTypes' /\ CallInv' /\ LogInv' /\ OnceIsOnce'
<1>1. UNCHANGED <<autoApprove, alwaysAsk, sessionList, nonCliList, applying, everAuto, changes>>
  BY DEF lists
<1>2. ApprovalTypes'
  BY <1>1 DEF ApprovalInv, ApprovalTypes
<1>3. CallInv' /\ LogInv' /\ OnceIsOnce'
  BY <1>1 DEF ApprovalInv, CallInv, CallIsSound, MustAsk, LogInv, OnceIsOnce, ApprovedFor
<1> QED BY <1>2, <1>3

LEMMA ClearKeeps ==
  ASSUME ApprovalInv, NEW t \in ToolNames, ClearPending(t)
  PROVE  ApprovalInv'
<1>1. /\ requests' = {id \in requests : made[id].tool # t} /\ cleared' = cleared \cup (requests \ requests')
      /\ UNCHANGED <<minute, interactive, lists, onceLeft, calls, auditLog, grants, made, settled>>
  BY DEF ClearPending
<1>2. ApprovalTypes' /\ CallInv' /\ LogInv' /\ OnceIsOnce'
  BY <1>1, RequestsApart DEF ApprovalInv, ApprovalTypes
<1>3. BookInv'
  BY <1>1 DEF ApprovalInv, BookInv, RequestsAreOwn, OneRequestEach, Live, Expired
<1> QED BY <1>2, <1>3 DEF ApprovalInv

(* Only its requester settles a request, while it lives.                   *)
LEMMA SettleKeeps ==
  ASSUME ApprovalInv, NEW id \in DOMAIN made, NEW p \in People, Settle(id, p)
  PROVE  ApprovalInv'
<1>1. /\ UNCHANGED <<minute, interactive, lists, onceLeft, calls, auditLog, grants, made, cleared>>
      /\ Live \subseteq requests
  BY DEF Settle, Live
<1>2. /\ settled \in Seq(Settlements) /\ made \in Seq(RequestRecords) /\ minute \in Nat
      /\ requests \in SUBSET DOMAIN made
      /\ cleared \in SUBSET DOMAIN made /\ RequestsAreOwn /\ OneRequestEach
      /\ \A i \in DOMAIN settled : settled[i].id \in DOMAIN made /\ settled[i].id \notin requests
  BY DEF ApprovalInv, ApprovalTypes, BookInv
<1>3. CASE ~(id \in Live /\ made[id].by = p)
  <2>1. requests' = Live /\ settled' = settled
    BY <1>3 DEF Settle
  <2>2. ApprovalTypes' /\ CallInv' /\ LogInv' /\ OnceIsOnce'
    BY <1>1, <1>2, <2>1, RequestsApart
  <2>3. BookInv'
    BY <1>1, <1>2, <2>1 DEF BookInv, RequestsAreOwn, OneRequestEach, Live, Expired
  <2> QED BY <2>2, <2>3 DEF ApprovalInv
<1>4. CASE id \in Live /\ made[id].by = p
  <2> DEFINE new == [id |-> id, by |-> p, at |-> minute]
  <2>1. requests' = Live \ {id} /\ settled' = Append(settled, new)
    BY <1>4 DEF Settle
  <2>2. new \in Settlements /\ new.id = id /\ new.by = p /\ new.at = minute
    BY <1>2 DEF Settlements
  <2> HIDE DEF new
  <2>3. PICK N \in Nat : N = Len(settled) + 1
    BY <1>2
  <2>4. /\ settled' \in Seq(Settlements) /\ N \notin DOMAIN settled /\ DOMAIN settled' = DOMAIN settled \cup {N}
        /\ settled'[N] = new /\ \A i \in DOMAIN settled : settled'[i] = settled[i]
    BY <1>2, <2>1, <2>2, <2>3, OneMore
  <2>5. ApprovalTypes' /\ CallInv' /\ LogInv' /\ OnceIsOnce'
    BY <1>1, <1>2, <2>1, <2>4, RequestsApart
  <2>6. \A i \in DOMAIN settled' : settled'[i].id \in DOMAIN made /\ settled'[i].id \notin requests'
    BY <1>1, <1>2, <2>1, <2>2, <2>4
  <2>7. OneRequestEach'
    <3>1. Live' \subseteq Live
      BY <1>1, <2>1 DEF Live, Expired
    <3> QED BY <1>1, <1>2, <3>1 DEF OneRequestEach
  <2>8. RequestsAreOwn'
    <3>1. \A i \in DOMAIN settled' : made[settled'[i].id].by = settled'[i].by
      BY <1>2, <1>4, <2>2, <2>4 DEF RequestsAreOwn
    <3>2. made[id].expires > minute
      <4>1. made[id] \in RequestRecords /\ ~(made[id].expires <= minute)
        BY <1>2, <1>4 DEF Live, Expired
      <4>2. made[id].expires \in Nat
        BY <4>1 DEF RequestRecords
      <4> QED BY <1>2, <4>1, <4>2
    <3>3. \A i \in DOMAIN settled' : made[settled'[i].id].expires > settled'[i].at
      BY <1>2, <2>2, <2>4, <3>2 DEF RequestsAreOwn
    <3>4. \A i \in DOMAIN settled : settled[i].id # id
      BY <1>1, <1>2, <1>4
    <3>5. \A i, j \in DOMAIN settled' : i # j => settled'[i].id # settled'[j].id
      BY <1>2, <2>2, <2>4, <3>4 DEF RequestsAreOwn
    <3>6. ASSUME NEW k \in DOMAIN made, ~Expired(k)
          PROVE  k \in requests' \cup cleared \/ \E i \in DOMAIN settled' : settled'[i].id = k
      <4>1. CASE k = id
        BY <2>2, <2>4, <4>1
      <4>2. CASE k # id
        <5>1. k \in requests \cup cleared \/ \E i \in DOMAIN settled : settled[i].id = k
          BY <1>2, <3>6 DEF RequestsAreOwn
        <5>2. k \in requests => k \in requests'
          BY <2>1, <3>6, <4>2 DEF Live
        <5> QED BY <2>4, <5>1, <5>2
      <4> QED BY <4>1, <4>2
    <3> QED BY <1>1, <3>1, <3>3, <3>5, <3>6 DEF RequestsAreOwn, Expired
  <2> QED BY <1>1, <2>5, <2>6, <2>7, <2>8 DEF ApprovalInv, BookInv
<1> QED BY <1>3, <1>4

LEMMA ApprovalStep ==
  ASSUME ApprovalInv, [ApprovalNext]_approvalVars
  PROVE  ApprovalInv'
<1>1. CASE UNCHANGED approvalVars
  <2>1. /\ UNCHANGED <<minute, interactive, lists, onceLeft, calls, auditLog, grants, made>>
        /\ UNCHANGED <<requests, settled, cleared>>
    BY <1>1 DEF approvalVars, lists
  <2>2. ApprovalTypes' /\ CallInv' /\ LogInv' /\ OnceIsOnce'
    BY <2>1, RequestsApart DEF ApprovalInv, ApprovalTypes
  <2> QED BY <2>1, <2>2, BookStays DEF ApprovalInv
<1> QED BY <1>1, MinuteKeeps, OthersKeep, ClearKeeps, CallKeeps, LooksKeep, TakeOnceKeeps, PromptKeeps,
           RequestKeeps, RecordKeeps, SettleKeeps DEF ApprovalNext

(* A grant of allow-all-once lets one call through; a tool on always_ask   *)
(* is asked about; and a request is its requester's to settle, once and in *)
(* time, whatever looks and changes come between.                          *)
THEOREM ApprovalsAreGiven == ApprovalSpec => []ApprovalHolds
<1>1. ApprovalInv => ApprovalHolds
  <2> SUFFICES ASSUME ApprovalInv PROVE ApprovalHolds
    OBVIOUS
  <2>1. ApprovalTypeOK
    <3>1. minute \in 0..MaxMinutes /\ onceLeft \in 0..MaxChanges /\ changes \in 0..MaxChanges
      BY ApprovalAssumption DEF ApprovalInv, ApprovalTypes
    <3> QED BY <3>1 DEF ApprovalInv, ApprovalTypes, LogInv, ApprovalTypeOK
  <2>2. AlwaysAskIsAsked
    BY DEF ApprovalInv, CallInv, CallIsSound, MustAsk, AlwaysAskIsAsked
  <2> QED BY <2>1, <2>2 DEF ApprovalInv, BookInv, ApprovalHolds
<1> QED BY ApprovalInitHolds, ApprovalStep, <1>1, PTL DEF ApprovalSpec

-----------------------------------------------------------------------------
(* Pairing codes.  They are told apart by number, and the one in the slot  *)
(* is the newest; the ones that were used are older.                       *)

Pairings == [code : Nat, at : Nat]

PairingInv ==
  /\ second \in Nat /\ generated \in Seq(Nat) /\ paired \in Seq(Pairings) /\ slot \in Pairings
  /\ slot.code # 0 => /\ slot.code = Len(generated) /\ slot.at = generated[slot.code]
                      /\ \A i \in DOMAIN paired : paired[i].code < slot.code
  /\ \A i \in DOMAIN paired : paired[i].code \in DOMAIN generated

LEMMA PairingInitHolds == PairingInit => PairingInv /\ CodesPairOnce
BY DEF PairingInit, PairingInv, Pairings, CodesPairOnce

LEMMA PairKeeps ==
  ASSUME PairingInv, CodesPairOnce, Pair
  PROVE  PairingInv' /\ CodesPairOnce'
<1>1. /\ generated' = Append(generated, second) /\ slot' = [code |-> Len(generated'), at |-> second]
      /\ second' = second /\ paired' = paired /\ second \in Nat /\ generated \in Seq(Nat)
      /\ paired \in Seq(Pairings) /\ \A i \in DOMAIN paired : paired[i].code \in DOMAIN generated
  BY DEF Pair, PairingInv
<1>2. PICK N \in Nat : N = Len(generated) + 1
  BY <1>1
<1>3. /\ generated' \in Seq(Nat) /\ Len(generated') = N /\ generated'[N] = second
      /\ DOMAIN generated' = DOMAIN generated \cup {N}
      /\ \A c \in DOMAIN generated : generated'[c] = generated[c] /\ c < N
  BY <1>1, <1>2, OneMore
<1>4. slot' \in Pairings /\ slot'.code = N /\ slot'.at = generated'[N]
  BY <1>1, <1>3 DEF Pairings
<1>5. PairingInv'
  BY <1>1, <1>3, <1>4 DEF PairingInv
<1>6. CodesPairOnce'
  BY <1>1, <1>3 DEF CodesPairOnce
<1> QED BY <1>5, <1>6

LEMMA ConsumeKeepsThem ==
  ASSUME PairingInv, CodesPairOnce, NEW candidate \in DOMAIN generated, Consume(candidate)
  PROVE  PairingInv' /\ CodesPairOnce'
<1> DEFINE new == [code |-> candidate, at |-> second]
<1>1. /\ slot.code = candidate /\ second < slot.at + Lifetime /\ paired' = Append(paired, new)
      /\ slot' = [code |-> 0, at |-> 0] /\ second' = second /\ generated' = generated
      /\ second \in Nat /\ generated \in Seq(Nat) /\ paired \in Seq(Pairings) /\ slot \in Pairings
      /\ \A i \in DOMAIN paired : paired[i].code \in DOMAIN generated
  BY DEF Consume, PairingInv
<1>2. candidate \in Nat /\ candidate # 0
  BY <1>1
<1>3. slot.at = generated[candidate] /\ \A i \in DOMAIN paired : paired[i].code < candidate
  BY <1>1, <1>2 DEF PairingInv
<1>4. new \in Pairings /\ new.code = candidate /\ new.at = second
  BY <1>1, <1>2 DEF Pairings
<1> HIDE DEF new
<1>5. PICK N \in Nat : N = Len(paired) + 1
  BY <1>1
<1>6. /\ paired' \in Seq(Pairings) /\ DOMAIN paired' = DOMAIN paired \cup {N} /\ paired'[N] = new
      /\ \A i \in DOMAIN paired : paired'[i] = paired[i] /\ i < N
      /\ N \notin DOMAIN paired /\ DOMAIN paired \subseteq Nat
  BY <1>1, <1>4, <1>5, OneMore
<1>7. PairingInv'
  BY <1>1, <1>4, <1>6 DEF PairingInv, Pairings
<1>8. \A i \in DOMAIN paired' : paired'[i].at < generated'[paired'[i].code] + Lifetime
  BY <1>1, <1>3, <1>4, <1>6 DEF CodesPairOnce
<1>9. ASSUME NEW i \in DOMAIN paired', NEW j \in DOMAIN paired', i < j PROVE paired'[i].code < paired'[j].code
  <2>1. CASE j = N
    BY <1>3, <1>4, <1>6, <1>9, <2>1
  <2>2. CASE j \in DOMAIN paired
    <3>1. i \in DOMAIN paired
      BY <1>6, <1>9, <2>2
    <3> QED BY <1>6, <1>9, <2>2, <3>1 DEF CodesPairOnce
  <2> QED BY <1>6, <2>1, <2>2
<1> QED BY <1>7, <1>8, <1>9 DEF CodesPairOnce

(* A pairing code lets one client in, in its time, and none once a newer   *)
(* one was made or used.                                                   *)
THEOREM PairingCodesAreUsedOnce == PairingSpec => []CodesPairOnce
<1>1. ASSUME PairingInv, CodesPairOnce, [PairingNext]_pairingVars PROVE PairingInv' /\ CodesPairOnce'
  <2>1. CASE SecondPasses \/ UNCHANGED pairingVars
    BY <1>1, <2>1 DEF SecondPasses, pairingVars, PairingInv, CodesPairOnce
  <2> QED BY <1>1, <2>1, PairKeeps, ConsumeKeepsThem DEF PairingNext
<1> QED BY PairingInitHolds, <1>1, PTL DEF PairingSpec

-----------------------------------------------------------------------------
(* One-time passwords.  What was verified was so against the steps of the  *)
(* clock, and the device's code is the step it showed it in.               *)

LEMMA TimesKeepOrder ==
  ASSUME NEW x \in Int, NEW y \in Int, NEW s \in Nat \ {0}, x * s < y * s
  PROVE  x < y
OBVIOUS

LEMMA StepsOfTime ==
  ASSUME NEW t \in Nat
  PROVE  /\ CounterAt(t) \in Nat
         /\ CounterAt(t) * StepSeconds <= t /\ t < (CounterAt(t) + 1) * StepSeconds
<1>1. PICK s \in Nat \ {0} : s = StepSeconds
  BY OtpAssumption
<1>2. t \div s \in Nat /\ (t \div s) * s <= t /\ t < ((t \div s) + 1) * s
  OBVIOUS
<1> QED BY <1>1, <1>2, Zenon DEF CounterAt

(* Times that are Skew steps apart have counters no further apart; times   *)
(* that are one step more apart have.                                      *)
LEMMA StepsApart ==
  ASSUME NEW t \in Nat, NEW u \in Nat
  PROVE  /\ u - t <= Skew * StepSeconds => CounterAt(u) - CounterAt(t) <= Skew
         /\ u - t >= (Skew + 1) * StepSeconds => CounterAt(u) - CounterAt(t) > Skew
<1>1. PICK a \in Nat, b \in Nat : a = CounterAt(t) /\ b = CounterAt(u)
  BY StepsOfTime
<1>2. /\ a * StepSeconds <= t /\ t < (a + 1) * StepSeconds
      /\ b * StepSeconds <= u /\ u < (b + 1) * StepSeconds
  BY <1>1, StepsOfTime
<1>3. StepSeconds \in Nat \ {0} /\ Skew \in Nat
  BY OtpAssumption
<1>4. ASSUME u - t <= Skew * StepSeconds PROVE b - a <= Skew
  <2>1. b * StepSeconds < (a + 1) * StepSeconds + Skew * StepSeconds
    <3>1. a * StepSeconds \in Int /\ b * StepSeconds \in Int /\ Skew * StepSeconds \in Int
          /\ (a + 1) * StepSeconds \in Int
      BY <1>3
    <3> QED BY <1>2, <1>4, <3>1
  <2>2. (a + 1) * StepSeconds + Skew * StepSeconds = (a + 1 + Skew) * StepSeconds
    BY <1>3
  <2>3. b < a + 1 + Skew
    BY <1>3, <2>1, <2>2, TimesKeepOrder
  <2> QED BY <1>3, <2>3
<1>5. ASSUME u - t >= (Skew + 1) * StepSeconds PROVE b - a > Skew
  <2>1. a * StepSeconds + (Skew + 1) * StepSeconds < (b + 1) * StepSeconds
    <3>1. a * StepSeconds \in Int /\ (b + 1) * StepSeconds \in Int /\ (Skew + 1) * StepSeconds \in Int
      BY <1>3
    <3> QED BY <1>2, <1>5, <3>1
  <2>2. a * StepSeconds + (Skew + 1) * StepSeconds = (a + Skew + 1) * StepSeconds
    BY <1>3
  <2>3. a + Skew + 1 < b + 1
    BY <1>3, <2>1, <2>2, TimesKeepOrder
  <2> QED BY <1>3, <2>3
<1> QED BY <1>1, <1>4, <1>5

LEMMA AcceptsWithinSkew ==
  ASSUME NEW counter \in Int, codeShown \in Int
  PROVE  Accepts(counter) <=> codeShown - counter <= Skew /\ counter - codeShown <= Skew
<1>1. Skew \in Nat
  BY OtpAssumption
<1>2. ASSUME Accepts(counter) PROVE codeShown - counter <= Skew /\ counter - codeShown <= Skew
  BY <1>1, <1>2 DEF Accepts
<1>3. ASSUME codeShown - counter <= Skew, counter - codeShown <= Skew PROVE Accepts(counter)
  <2>1. CASE codeShown >= counter
    <3>1. codeShown - counter \in 0..Skew /\ codeShown = counter + (codeShown - counter)
      BY <1>1, <1>3, <2>1
    <3> QED BY <3>1 DEF Accepts
  <2>2. CASE codeShown < counter
    <3>1. counter - codeShown \in 0..Skew /\ codeShown = counter - (counter - codeShown)
      BY <1>1, <1>3, <2>2
    <3> QED BY <3>1 DEF Accepts
  <2> QED BY <2>1, <2>2
<1> QED BY <1>2, <1>3

OtpInv ==
  /\ clock \in Nat /\ drift \in Int /\ codeShown \in Nat /\ codeShownAt \in Nat
  /\ codeShownAt + drift >= 0 => codeShown = CounterAt(codeShownAt + drift)
  /\ verified # "none" => verified = IF Accepts(CounterAt(clock)) THEN "accepted" ELSE "refused"

LEMMA OtpInitHolds == OtpInit => OtpInv
<1> SUFFICES ASSUME OtpInit PROVE OtpInv
  OBVIOUS
<1>1. clock = 0 /\ codeShownAt = 0 /\ drift \in Int /\ verified = "none"
  BY OtpAssumption DEF OtpInit
<1>2. CASE drift < 0
  BY <1>1, <1>2 DEF OtpInit, OtpInv
<1>3. CASE drift >= 0
  <2>1. codeShown = CounterAt(drift) /\ drift \in Nat /\ codeShownAt + drift = drift
    BY <1>1, <1>3 DEF OtpInit, CounterAt
  <2> QED BY <1>1, <2>1, StepsOfTime DEF OtpInv
<1> QED BY <1>1, <1>2, <1>3

LEMMA OtpStep ==
  ASSUME OtpInv, [OtpNext]_otpVars
  PROVE  OtpInv'
<1>1. CASE ClockGoesOn
  BY <1>1 DEF ClockGoesOn, OtpInv, CounterAt
<1>2. CASE ShowsCode
  <2>1. /\ clock + drift >= 0 /\ codeShown' = CounterAt(clock + drift) /\ codeShownAt' = clock
        /\ verified' = "none" /\ clock' = clock /\ drift' = drift /\ clock \in Nat /\ drift \in Int
    BY <1>2 DEF ShowsCode, OtpInv
  <2>2. CounterAt(clock + drift) \in Nat
    BY <2>1, StepsOfTime
  <2> QED BY <2>1, <2>2 DEF OtpInv, CounterAt
<1>3. CASE Verify
  BY <1>3 DEF Verify, OtpInv, CounterAt, Accepts
<1>4. CASE UNCHANGED otpVars
  BY <1>4 DEF otpVars, OtpInv, CounterAt, Accepts
<1> QED BY <1>1, <1>2, <1>3, <1>4 DEF OtpNext

(* A one-time password is accepted for Skew steps before and after the     *)
(* time the device showed it, and never for a step more, for every length  *)
(* of a step, every skew and every drift of the device's clock.            *)
THEOREM PasswordsLiveAsLong == OtpSpec => []CodesLiveAsLong
<1>1. ASSUME OtpInv PROVE CodesLiveAsLong
  <2> DEFINE shown == codeShownAt + drift
  <2> SUFFICES ASSUME verified # "none", shown >= 0
               PROVE  LET age == clock - shown
                          far == IF age < 0 THEN -age ELSE age
                      IN /\ far <= Skew * StepSeconds => verified = "accepted"
                         /\ far >= (Skew + 1) * StepSeconds => verified = "refused"
    BY DEF CodesLiveAsLong
  <2>1. PICK s \in Nat : s = shown
    BY <1>1 DEF OtpInv
  <2>2. clock \in Nat /\ codeShown = CounterAt(s) /\ codeShown \in Int /\ CounterAt(clock) \in Int
    BY <1>1, <2>1, StepsOfTime DEF OtpInv
  <2>3. verified = IF CounterAt(s) - CounterAt(clock) <= Skew /\ CounterAt(clock) - CounterAt(s) <= Skew
                   THEN "accepted" ELSE "refused"
    BY <1>1, <2>2, AcceptsWithinSkew DEF OtpInv
  <2>4. CounterAt(s) \in Nat /\ CounterAt(clock) \in Nat /\ Skew \in Nat /\ StepSeconds \in Nat
    BY <2>2, StepsOfTime, OtpAssumption
  <2>5. PICK w \in Nat, x \in Nat : w = Skew * StepSeconds /\ x = (Skew + 1) * StepSeconds
    BY <2>4
  <2>6. /\ clock - s <= w => CounterAt(clock) - CounterAt(s) <= Skew
        /\ s - clock <= w => CounterAt(s) - CounterAt(clock) <= Skew
        /\ clock - s >= x => CounterAt(clock) - CounterAt(s) > Skew
        /\ s - clock >= x => CounterAt(s) - CounterAt(clock) > Skew
    BY <2>2, <2>5, StepsApart
  <2> HIDE DEF shown
  <2> QED BY <2>1, <2>2, <2>3, <2>4, <2>5, <2>6
<1> QED BY OtpInitHolds, OtpStep, <1>1, PTL DEF OtpSpec

-----------------------------------------------------------------------------
(* Base32.  Place j * w - q is the bit of weight q in the unit j of a text *)
(* whose units have w bits; both texts of a conversion count their bits    *)
(* alike.                                                                  *)

LEMMA BitSizes ==
  /\ ByteBits \in Nat \ {0} /\ DigitBits \in Nat \ {0} /\ BufferBits \in Nat
  /\ DigitBits <= ByteBits /\ ByteBits + DigitBits - 1 <= BufferBits
BY OtpAssumption

LEMMA ProductsKeepOrder ==
  ASSUME NEW x \in Int, NEW y \in Int, NEW w \in Nat \ {0}
  PROVE  /\ x <= y => x * w <= y * w
         /\ x * w < y * w => x < y
OBVIOUS

Place(j, w, q) == j * w - q

LEMMA OnePlaceEach ==
  ASSUME NEW w \in Nat \ {0}, NEW j \in Nat, NEW k \in Nat, NEW q \in 0..(w - 1), NEW p \in 0..(w - 1),
         Place(j, w, q) = Place(k, w, p)
  PROVE  j = k /\ q = p
<1>0. j * w - q = k * w - p
  BY DEF Place
<1>1. j * w \in Int /\ k * w \in Int /\ (k + 1) * w = k * w + w /\ (j + 1) * w = j * w + w
  OBVIOUS
<1>2. j * w < (k + 1) * w /\ k * w < (j + 1) * w
  BY <1>0, <1>1
<1>3. j < k + 1 /\ k < j + 1
  BY <1>2, ProductsKeepOrder
<1>4. j = k
  BY <1>3
<1> QED BY <1>0, <1>1, <1>4

LEMMA LeastNumber ==
  ASSUME NEW S \in SUBSET Nat, S # {}
  PROVE  \E n \in S : \A m \in S : n <= m
<1>1. \E n \in S : \A m \in S : ~(<<m, n>> \in OpToRel(<, Nat))
  BY NatLessThanWellFounded, WFMin
<1>2. PICK n \in S : \A m \in S : <<m, n>> \notin OpToRel(<, Nat)
  BY <1>1
<1>3. ASSUME NEW m \in S PROVE n <= m
  <2>1. <<m, n>> \notin {ss \in Nat \X Nat : ss[1] < ss[2]}
    BY <1>2, Zenon DEF OpToRel
  <2>2. ~(m < n)
    BY <2>1
  <2> QED BY <2>2
<1> QED BY <1>3

LEMMA PlaceExists ==
  ASSUME NEW w \in Nat \ {0}, NEW x \in Nat \ {0}
  PROVE  \E j \in Nat \ {0}, q \in 0..(w - 1) : x = Place(j, w, q)
<1> DEFINE D == {j \in Nat : x <= j * w}
<1>1. x \in D
  OBVIOUS
<1>2. PICK j \in D : \A m \in D : j <= m
  <2> HIDE DEF D
  <2>1. D \in SUBSET Nat
    BY DEF D
  <2> QED BY <1>1, <2>1, LeastNumber
<1>3. PICK a \in Int : a = j * w
  BY <1>2
<1>4. j # 0
  BY <1>2
<1>5. j - 1 \in Nat /\ j - 1 \notin D
  BY <1>2, <1>4
<1>6. (j - 1) * w = a - w
  BY <1>2, <1>3
<1>7. a - w < x /\ x <= a
  BY <1>2, <1>3, <1>5, <1>6
<1>8. a - x \in 0..(w - 1) /\ x = a - (a - x)
  BY <1>3, <1>7
<1> QED BY <1>2, <1>3, <1>4, <1>8 DEF Place

LEMMA Division ==
  ASSUME NEW t \in Nat, NEW b \in Nat \ {0}
  PROVE  /\ t \div b \in Nat /\ (t \div b) * b \in Nat
         /\ (t \div b) * b <= t /\ t < (t \div b) * b + b
<1>1. t \div b \in Nat /\ (t \div b) * b <= t /\ t < ((t \div b) + 1) * b
  OBVIOUS
<1>2. PICK x \in Nat : x = t \div b
  BY <1>1
<1> QED BY <1>1, <1>2

(* The function that a conversion computes.                                *)
Computes(f, units, a, b) ==
  /\ f[0] = Fresh
  /\ \A n \in 1..Len(units) : f[n] = Reads(f[n - 1], units[n], a, b)
  /\ After(units, a, b) = f[Len(units)]

LEMMA AfterIs ==
  ASSUME NEW units, NEW a, NEW b, Len(units) \in Nat
  PROVE  \E f : Computes(f, units, a, b)
<1> PICK l \in Nat : l = Len(units)
  OBVIOUS
<1> DEFINE Step(st, n) == Reads(st, units[n], a, b)
           Fits(m, f) == f = [n \in 0..m |-> IF n = 0 THEN Fresh ELSE Step(f[n - 1], n)]
           none == {m \in 0..l : \A f : ~Fits(m, f)}
<1> HIDE DEF Step
<1>1. none = {}
  <2> SUFFICES ASSUME none # {} PROVE FALSE
    OBVIOUS
  <2>1. PICK m \in none : \A k \in none : m <= k
    <3> none \in SUBSET Nat
      OBVIOUS
    <3> HIDE DEF none
    <3> QED BY LeastNumber
  <2>2. m \in 0..l /\ \A f : ~Fits(m, f)
    OBVIOUS
  <2>3. CASE m = 0
    <3> DEFINE f == [n \in 0..0 |-> Fresh]
    <3>1. Fits(0, f)
      OBVIOUS
    <3> QED BY <2>2, <2>3, <3>1
  <2>4. CASE m # 0
    <3>0. m - 1 \in 0..l /\ ~(m <= m - 1)
      BY <2>2, <2>4
    <3>1. m - 1 \in 0..l /\ m - 1 \notin none
      <4> HIDE DEF none
      <4> QED BY <2>1, <3>0
    <3>2. PICK f : Fits(m - 1, f)
      BY <3>1
    <3> DEFINE g == [n \in 0..m |-> IF n = m THEN Step(f[m - 1], m) ELSE f[n]]
    <3>3. ASSUME NEW n \in 0..m PROVE g[n] = IF n = 0 THEN Fresh ELSE Step(g[n - 1], n)
      <4>1. CASE n = m
        <5>1. g[n - 1] = f[n - 1]
          BY <2>4, <4>1, <2>2
        <5> QED BY <2>4, <4>1, <5>1
      <4>2. CASE n # m
        <5>1. n \in 0..(m - 1) /\ g[n] = f[n] /\ (n # 0 => g[n - 1] = f[n - 1])
          BY <2>2, <4>2
        <5> HIDE DEF g
        <5> QED BY <3>2, <5>1
      <4> QED BY <4>1, <4>2
    <3>4. Fits(m, g)
      BY <3>3
    <3> HIDE DEF g
    <3> QED BY <2>2, <3>4
  <2> QED BY <2>3, <2>4
<1>2. PICK g : Fits(l, g)
  BY <1>1
<1>3. PICK h : h = CHOOSE f : Fits(l, f)
  OBVIOUS
<1>4. Fits(l, h)
  BY <1>2, <1>3
<1>5. After(units, a, b) = h[Len(units)]
  BY <1>3 DEF After, Step
<1>6. h[0] = Fresh /\ \A n \in 1..l : h[n] = Step(h[n - 1], n)
  BY <1>4
<1>7. Computes(h, units, a, b)
  BY <1>5, <1>6 DEF Step, Computes
<1> QED BY <1>7

LEMMA Joined ==
  ASSUME NEW S, NEW s \in Seq(S), NEW t \in Seq(S)
  PROVE  /\ s \o t \in Seq(S) /\ Len(s \o t) = Len(s) + Len(t)
         /\ \A j \in 1..(Len(s) + Len(t)) : (s \o t)[j] = IF j <= Len(s) THEN s[j] ELSE t[j - Len(s)]
OBVIOUS

LEMMA SameLists ==
  ASSUME NEW S, NEW T, NEW s \in Seq(S), NEW t \in Seq(T), Len(s) = Len(t), \A i \in 1..Len(s) : s[i] = t[i]
  PROVE  s = t
OBVIOUS

LEMMA SameBits ==
  ASSUME NEW n, NEW x \in Bits(n), NEW y \in Bits(n), \A r \in 0..(n - 1) : x[r] = y[r]
  PROVE  x = y
<1>1. x = [r \in 0..(n - 1) |-> x[r]] /\ y = [r \in 0..(n - 1) |-> y[r]]
  BY DEF Bits
<1>2. [r \in 0..(n - 1) |-> x[r]] = [r \in 0..(n - 1) |-> y[r]]
  OBVIOUS
<1> QED BY <1>1, <1>2

(* What is put together has the bits of the units where they stood.        *)
Placed(out, b, units, a, n) ==
  \A j \in DOMAIN out, q \in 0..(b - 1), k \in 1..n, p \in 0..(a - 1) :
    Place(j, b, q) = Place(k, a, p) => out[j][q] = units[k][p]

(* The buffer holds those that are left; the last one has weight 0.        *)
Held(buffer, left, units, a, n) ==
  \A t \in 0..(left - 1), k \in 1..n, p \in 0..(a - 1) :
    Place(n, a, t) = Place(k, a, p) => buffer[t] = units[k][p]

Converted(st, units, a, b, n) ==
  /\ st.left \in 0..(b - 1) /\ st.out \in Seq(Bits(b)) /\ st.buffer \in Bits(BufferBits)
  /\ Len(st.out) * b + st.left = n * a
  /\ Placed(st.out, b, units, a, n)
  /\ Held(st.buffer, st.left, units, a, n)

LEMMA FreshIsConverted ==
  ASSUME NEW units, NEW a \in Nat \ {0}, NEW b \in Nat \ {0}
  PROVE  Converted(Fresh, units, a, b, 0)
<1>1. Fresh.left = 0 /\ Fresh.out = <<>> /\ Fresh.buffer = Zero(BufferBits)
  BY DEF Fresh
<1>2. Zero(BufferBits) \in Bits(BufferBits)
  BY DEF Zero, Bits
<1>3. <<>> \in Seq(Bits(b)) /\ Len(<<>>) = 0 /\ 0 * b + 0 = 0 * a /\ 0 \in 0..(b - 1)
  OBVIOUS
<1>4. Placed(<<>>, b, units, a, 0) /\ Held(Zero(BufferBits), 0, units, a, 0)
  BY DEF Placed, Held
<1> QED BY <1>1, <1>2, <1>3, <1>4 DEF Converted

(* What is shifted in stands behind what was left.                         *)
LEMMA ShiftHolds ==
  ASSUME NEW a \in Nat \ {0}, NEW left \in Nat, left + a <= BufferBits,
         NEW n \in Nat, NEW units, units \in Seq(Bits(a)), n + 1 \in 1..Len(units),
         NEW buffer \in Bits(BufferBits), Held(buffer, left, units, a, n)
  PROVE  /\ Shifted(buffer, units[n + 1], a) \in Bits(BufferBits)
         /\ Held(Shifted(buffer, units[n + 1], a), left + a, units, a, n + 1)
<1> DEFINE new == Shifted(buffer, units[n + 1], a)
<1>0. BufferBits \in Nat /\ units[n + 1] \in Bits(a)
  BY BitSizes
<1>1. \A w \in 0..(BufferBits - 1) :
        /\ w < a => new[w] = units[n + 1][w] /\ w \in 0..(a - 1)
        /\ ~(w < a) => new[w] = buffer[w - a] /\ w - a \in 0..(BufferBits - 1)
  BY <1>0 DEF Shifted
<1>2. new \in Bits(BufferBits)
  <2>1. \A w \in 0..(BufferBits - 1) : new[w] \in {0, 1}
    BY <1>0, <1>1 DEF Bits
  <2>2. new = [w \in 0..(BufferBits - 1) |-> new[w]]
    BY DEF Shifted
  <2> HIDE DEF new
  <2> QED BY <2>1, <2>2 DEF Bits
<1>3. ASSUME NEW t \in 0..(left + a - 1), NEW k \in 1..(n + 1), NEW p \in 0..(a - 1),
             Place(n + 1, a, t) = Place(k, a, p)
      PROVE  new[t] = units[k][p]
  <2>1. t \in 0..(BufferBits - 1)
    BY <1>0
  <2>2. CASE t < a
    <3>1. t \in 0..(a - 1)
      BY <2>2
    <3>2. k = n + 1 /\ p = t
      BY <1>3, <3>1, OnePlaceEach
    <3> QED BY <1>1, <2>1, <2>2, <3>2
  <2>3. CASE ~(t < a)
    <3>1. PICK y \in Int, z \in Int : y = n * a /\ z = k * a
      OBVIOUS
    <3>2. (n + 1) * a = y + a
      BY <3>1
    <3>3. y + a - t = z - p /\ z - p <= y
      BY <1>3, <2>3, <3>1, <3>2 DEF Place
    <3>4. k # n + 1
      BY <3>1, <3>2, <3>3
    <3>5. k \in 1..n /\ t - a \in 0..(left - 1) /\ Place(n, a, t - a) = Place(k, a, p)
      BY <3>1, <3>3, <3>4, <2>3 DEF Place
    <3>6. buffer[t - a] = units[k][p]
      BY <3>5 DEF Held
    <3> QED BY <1>1, <2>1, <2>3, <3>6
  <2> QED BY <2>2, <2>3
<1>4. Held(new, left + a, units, a, n + 1)
  <2> HIDE DEF new
  <2> SUFFICES ASSUME NEW t \in 0..(left + a - 1), NEW k \in 1..(n + 1), NEW p \in 0..(a - 1),
                      Place(n + 1, a, t) = Place(k, a, p)
               PROVE  new[t] = units[k][p]
    BY DEF Held
  <2> QED BY <1>3
<1> QED BY <1>2, <1>4

(* What is taken out stands behind what was put together before.           *)
Complete(whole, b, bits, m, n, a) == whole * b <= bits /\ m * b + bits = n * a
Copied(new, j, b, units, a, n) ==
  \A q \in 0..(b - 1), k \in 1..n, p \in 0..(a - 1) :
    Place(j, b, q) = Place(k, a, p) => new[q] = units[k][p]

LEMMA TakenIsPlaced ==
  ASSUME NEW a \in Nat \ {0}, NEW b \in Nat \ {0}, NEW bits \in Nat, bits <= BufferBits,
         NEW n \in Nat, NEW units, NEW buffer \in Bits(BufferBits), Held(buffer, bits, units, a, n),
         NEW whole \in Nat, NEW m \in Nat, Complete(whole, b, bits, m, n, a),
         NEW i \in 1..whole
  PROVE  /\ Taken(buffer, bits - i * b, b) \in Bits(b)
         /\ Copied(Taken(buffer, bits - i * b, b), m + i, b, units, a, n)
<1>c. whole * b <= bits /\ m * b + bits = n * a
  BY DEF Complete
<1>1. PICK x \in Nat : x = i * b
  OBVIOUS
<1>2. x <= whole * b /\ (m + i) * b = m * b + x /\ m * b \in Nat /\ n * a \in Nat /\ whole * b \in Nat
  BY <1>1, ProductsKeepOrder
<1>3. b <= x
  <2>1. 1 * b <= i * b
    BY ProductsKeepOrder
  <2> QED BY <1>1, <2>1
<1> DEFINE new == Taken(buffer, bits - x, b)
<1>4. \A q \in 0..(b - 1) : new[q] = buffer[bits - x + q] /\ bits - x + q \in 0..(bits - 1)
  BY <1>c, <1>2, <1>3 DEF Taken
<1>5. new \in Bits(b)
  <2>1. \A q \in 0..(b - 1) : buffer[bits - x + q] \in {0, 1}
    <3>1. \A q \in 0..(b - 1) : bits - x + q \in 0..(BufferBits - 1)
      BY <1>4, BitSizes
    <3> QED BY <3>1 DEF Bits
  <2>2. new = [q \in 0..(b - 1) |-> buffer[bits - x + q]]
    BY DEF Taken
  <2> QED BY <2>1, <2>2 DEF Bits
<1>6. ASSUME NEW q \in 0..(b - 1), NEW k \in 1..n, NEW p \in 0..(a - 1),
             Place(m + i, b, q) = Place(k, a, p)
      PROVE  new[q] = units[k][p]
  <2>1. PICK t \in 0..(bits - 1) : t = bits - x + q /\ new[q] = buffer[t]
    BY <1>4
  <2>2. Place(n, a, t) = Place(k, a, p)
    <3>1. PICK y \in Int, z \in Int, v \in Int : y = n * a /\ z = k * a /\ v = m * b
      OBVIOUS
    <3>2. v + x - q = z - p /\ v + bits = y
      BY <1>c, <1>2, <1>6, <3>1 DEF Place
    <3>3. y - t = z - p
      BY <2>1, <3>2
    <3> QED BY <3>1, <3>3 DEF Place
  <2> QED BY <2>1, <2>2, Zenon DEF Held
<1> HIDE DEF new
<1>7. Taken(buffer, bits - i * b, b) = new
  BY <1>1 DEF new
<1>8. Copied(new, m + i, b, units, a, n)
  BY <1>6 DEF Copied
<1> QED BY <1>5, <1>7, <1>8

LEMMA ReadsConverts ==
  ASSUME NEW a \in Nat \ {0}, NEW b \in Nat \ {0}, a + b - 1 <= BufferBits,
         NEW n \in Nat, NEW units, units \in Seq(Bits(a)), n + 1 \in 1..Len(units),
         NEW st, Converted(st, units, a, b, n)
  PROVE  Converted(Reads(st, units[n + 1], a, b), units, a, b, n + 1)
<1>1. PICK left \in Nat, out \in Seq(Bits(b)), buffer \in Bits(BufferBits), m \in Nat :
        /\ left = st.left /\ out = st.out /\ buffer = st.buffer /\ m = Len(out) /\ left < b
        /\ m * b + left = n * a /\ Placed(out, b, units, a, n) /\ Held(buffer, left, units, a, n)
  BY DEF Converted
<1>s. m = Len(out) /\ m * b + left = n * a
  BY <1>1
<1> DEFINE new == Shifted(buffer, units[n + 1], a)
<1>2. PICK bits \in Nat : bits = left + a /\ bits <= BufferBits
  BY <1>1, BitSizes
<1>3. PICK whole \in Nat, w \in Nat : whole = bits \div b /\ w = whole * b /\ w <= bits /\ bits < w + b
  BY Division
<1>4. bits - w \in 0..(b - 1)
  BY <1>3
<1>5. new \in Bits(BufferBits) /\ Held(new, bits, units, a, n + 1)
  BY <1>1, <1>2, ShiftHolds
<1> DEFINE part(i) == Taken(new, bits - i * b, b)
           parts == [i \in 1..whole |-> part(i)]
           st2 == Reads(st, units[n + 1], a, b)
<1>6. st2 = [buffer |-> new, left |-> bits - w, out |-> out \o parts]
  BY <1>1, <1>2, <1>3 DEF Reads
<1> HIDE DEF new
<1>7. m * b + bits = (n + 1) * a
  <2>1. PICK y \in Nat, z \in Nat : y = n * a /\ z = m * b
    OBVIOUS
  <2>2. (n + 1) * a = y + a
    BY <2>1
  <2>3. z + left = y
    BY <1>s, <2>1
  <2>4. z + bits = y + a
    BY <1>2, <2>3
  <2> QED BY <2>1, <2>2, <2>4
<1>8. \A i \in 1..whole :
        /\ part(i) \in Bits(b)
        /\ \A q \in 0..(b - 1), k \in 1..(n + 1), p \in 0..(a - 1) :
             Place(m + i, b, q) = Place(k, a, p) => part(i)[q] = units[k][p]
  <2> TAKE i \in 1..whole
  <2>1. PICK n1 \in Nat : n1 = n + 1
    OBVIOUS
  <2>2. Complete(whole, b, bits, m, n1, a)
    BY <1>3, <1>7, <2>1 DEF Complete
  <2>3. bits <= BufferBits /\ new \in Bits(BufferBits) /\ Held(new, bits, units, a, n1)
    BY <1>2, <1>5, <2>1
  <2>4. /\ Taken(new, bits - i * b, b) \in Bits(b)
        /\ Copied(Taken(new, bits - i * b, b), m + i, b, units, a, n1)
    <3> HIDE DEF new
    <3> QED BY <2>2, <2>3, TakenIsPlaced
  <2> QED BY <2>1, <2>4 DEF Copied
<1> HIDE DEF part
<1>9. parts \in Seq(Bits(b)) /\ Len(parts) = whole
  <2> HIDE DEF Bits
  <2> QED BY <1>8
<1>10. /\ out \o parts \in Seq(Bits(b)) /\ Len(out \o parts) = m + whole
       /\ \A j \in 1..(m + whole) : (out \o parts)[j] = IF j <= m THEN out[j] ELSE part(j - m)
  <2> HIDE DEF parts, Bits
  <2>1. /\ out \o parts \in Seq(Bits(b)) /\ Len(out \o parts) = m + whole
        /\ \A j \in 1..(m + whole) : (out \o parts)[j] = IF j <= m THEN out[j] ELSE parts[j - m]
    BY <1>s, <1>9, Joined
  <2>2. \A j \in 1..(m + whole) : ~(j <= m) => parts[j - m] = part(j - m)
    BY DEF parts
  <2> QED BY <2>1, <2>2
<1> HIDE DEF parts
<1>11. (m + whole) * b + (bits - w) = (n + 1) * a
  <2>1. (m + whole) * b = m * b + w /\ m * b \in Nat /\ (n + 1) * a \in Nat
    BY <1>3
  <2> QED BY <1>7, <2>1
<1>12. Placed(out \o parts, b, units, a, n + 1)
  <2> SUFFICES ASSUME NEW j \in 1..(m + whole), NEW q \in 0..(b - 1), NEW k \in 1..(n + 1), NEW p \in 0..(a - 1),
                      Place(j, b, q) = Place(k, a, p)
               PROVE  (out \o parts)[j][q] = units[k][p]
    <3>1. DOMAIN (out \o parts) = 1..(m + whole)
      BY <1>10
    <3> QED BY <3>1, Zenon DEF Placed
  <2>1. CASE j <= m
    <3>1. PICK x \in Int, y \in Int, z \in Int, v \in Int : x = j * b /\ y = n * a /\ z = k * a /\ v = m * b
      OBVIOUS
    <3>2. x <= v
      BY <2>1, <3>1, ProductsKeepOrder
    <3>3. v <= y /\ x - q = z - p
      BY <1>s, <3>1 DEF Place
    <3>4. z - p <= y
      BY <3>2, <3>3
    <3>5. k # n + 1
      <4>1. (n + 1) * a = y + a
        BY <3>1
      <4> QED BY <3>1, <3>4, <4>1
    <3>6. k \in 1..n /\ j \in DOMAIN out
      BY <1>1, <2>1, <3>5
    <3>7. out[j][q] = units[k][p]
      <4>1. Placed(out, b, units, a, n)
        BY <1>1
      <4> QED BY <3>6, <4>1 DEF Placed
    <3> QED BY <1>10, <2>1, <3>7
  <2>2. CASE ~(j <= m)
    <3>1. PICK i \in 1..whole : i = j - m /\ j = m + i
      BY <2>2
    <3>2. part(i)[q] = units[k][p]
      BY <1>8, <3>1
    <3> QED BY <1>10, <2>2, <3>1, <3>2
  <2> QED BY <2>1, <2>2
<1>13. Held(new, bits - w, units, a, n + 1)
  <2>1. \A t \in 0..(bits - w - 1) : t \in 0..(bits - 1)
    BY <1>3
  <2> QED BY <1>5, <2>1, Zenon DEF Held
<1> HIDE DEF st2
<1>14. st2.left = bits - w /\ st2.out = out \o parts /\ st2.buffer = new
  BY <1>6
<1>15. Converted(st2, units, a, b, n + 1)
  BY <1>4, <1>5, <1>10, <1>11, <1>12, <1>13, <1>14 DEF Converted
<1> QED BY <1>15 DEF st2

LEMMA AfterConverts ==
  ASSUME NEW a \in Nat \ {0}, NEW b \in Nat \ {0}, a + b - 1 <= BufferBits,
         NEW units \in Seq(Bits(a))
  PROVE  Converted(After(units, a, b), units, a, b, Len(units))
<1> PICK l \in Nat : l = Len(units)
  OBVIOUS
<1>1. PICK f : /\ f[0] = Fresh
               /\ \A n \in 1..l : f[n] = Reads(f[n - 1], units[n], a, b)
               /\ After(units, a, b) = f[l]
  <2>1. Len(units) \in Nat
    OBVIOUS
  <2>2. PICK f : Computes(f, units, a, b)
    BY <2>1, AfterIs
  <2> QED BY <2>2 DEF Computes
<1> DEFINE bad == {n \in 0..l : ~Converted(f[n], units, a, b, n)}
<1>2. bad = {}
  <2> SUFFICES ASSUME bad # {} PROVE FALSE
    OBVIOUS
  <2>1. PICK n \in bad : \A k \in bad : n <= k
    <3> bad \in SUBSET Nat
      OBVIOUS
    <3> HIDE DEF bad
    <3> QED BY LeastNumber
  <2>2. n \in 0..l /\ ~Converted(f[n], units, a, b, n)
    OBVIOUS
  <2>3. n # 0
    BY <1>1, <2>2, FreshIsConverted
  <2>4. PICK k \in 0..l : k + 1 = n /\ n \in 1..l /\ k = n - 1
    BY <2>2, <2>3
  <2>5. Converted(f[k], units, a, b, k)
    <3>1. k \notin bad
      <4> HIDE DEF bad
      <4> QED BY <2>1, <2>4
    <3> QED BY <3>1
  <2>6. f[k + 1] = Reads(f[k], units[k + 1], a, b)
    BY <1>1, <2>4
  <2>7. Converted(Reads(f[k], units[k + 1], a, b), units, a, b, k + 1)
    BY <2>4, <2>5, ReadsConverts
  <2> HIDE DEF bad
  <2> QED BY <2>2, <2>4, <2>6, <2>7
<1>3. l \in 0..l
  OBVIOUS
<1>4. Converted(f[l], units, a, b, l)
  BY <1>2, <1>3
<1> QED BY <1>1, <1>4

(* What Encode makes of the bytes: as many digits as hold their bits.      *)
LEMMA EncodePlaces ==
  ASSUME NEW bytes \in Seq(Bits(ByteBits))
  PROVE  /\ Encode(bytes) \in Seq(Bits(DigitBits))
         /\ Len(bytes) * ByteBits <= Len(Encode(bytes)) * DigitBits
         /\ Len(Encode(bytes)) * DigitBits < Len(bytes) * ByteBits + DigitBits
         /\ Placed(Encode(bytes), DigitBits, bytes, ByteBits, Len(bytes))
<1> PICK a \in Nat \ {0}, b \in Nat \ {0} : a = ByteBits /\ b = DigitBits /\ a + b - 1 <= BufferBits
  BY BitSizes
<1> PICK n \in Nat : n = Len(bytes)
  OBVIOUS
<1> PICK st : st = After(bytes, a, b)
  OBVIOUS
<1>1. Converted(st, bytes, a, b, n)
  BY AfterConverts
<1>2. PICK left \in Nat, out \in Seq(Bits(b)), buffer \in Bits(BufferBits), m \in Nat :
        /\ left = st.left /\ out = st.out /\ buffer = st.buffer /\ m = Len(out) /\ left < b
        /\ m * b + left = n * a /\ Placed(out, b, bytes, a, n) /\ Held(buffer, left, bytes, a, n)
  BY <1>1 DEF Converted
<1>s. left < b /\ m = Len(out) /\ m * b + left = n * a /\ left = st.left /\ out = st.out /\ buffer = st.buffer
  BY <1>2
<1>p. Placed(out, b, bytes, a, n)
  BY <1>2
<1>h. Held(buffer, left, bytes, a, n)
  BY <1>2
<1>3. PICK x \in Nat, y \in Nat : x = m * b /\ y = n * a /\ x + left = y
  BY <1>s
<1>4. CASE left = 0
  <2>1. Encode(bytes) = out
    BY <1>s, <1>4 DEF Encode
  <2>2. Len(out) * b = y /\ y <= y /\ y < y + b
    BY <1>s, <1>3, <1>4
  <2> QED BY <1>3, <1>p, <2>1, <2>2
<1>5. CASE left # 0
  <2> DEFINE free == b - left
             last == Taken(Shifted(buffer, Zero(free), free), 0, b)
  <2>0. free \in 1..b /\ b <= BufferBits /\ BufferBits \in Nat
    BY <1>s, <1>5, BitSizes
  <2>1. Encode(bytes) = Append(out, last)
    BY <1>s, <1>5 DEF Encode
  <2>2. \A q \in 0..(b - 1) : /\ q \in 0..(BufferBits - 1)
                              /\ last[q] = Shifted(buffer, Zero(free), free)[q]
    BY <2>0 DEF Taken
  <2>3. \A q \in 0..(b - 1) : /\ q < free => last[q] = 0
                              /\ ~(q < free) => last[q] = buffer[q - free] /\ q - free \in 0..(left - 1)
    <3>1. \A q \in 0..(BufferBits - 1) :
            Shifted(buffer, Zero(free), free)[q] = IF q < free THEN Zero(free)[q] ELSE buffer[q - free]
      BY DEF Shifted
    <3>2. \A q \in 0..(free - 1) : Zero(free)[q] = 0
      BY DEF Zero
    <3>3. \A q \in 0..(b - 1) : /\ q < free => q \in 0..(free - 1)
                                /\ ~(q < free) => q - free \in 0..(left - 1)
      BY <2>0
    <3> HIDE DEF last, free
    <3> QED BY <2>2, <3>1, <3>2, <3>3
  <2>4. last \in Bits(b)
    <3>1. \A q \in 0..(b - 1) : last[q] \in {0, 1}
      <4>1. \A q \in 0..(left - 1) : buffer[q] \in {0, 1}
        BY <2>0, <1>s DEF Bits
      <4> HIDE DEF last, free
      <4> QED BY <2>3, <4>1
    <3>2. last = [q \in 0..(b - 1) |-> last[q]]
      BY DEF Taken
    <3> HIDE DEF last
    <3> QED BY <3>1, <3>2 DEF Bits
  <2> HIDE DEF last
  <2>5. /\ Append(out, last) \in Seq(Bits(b)) /\ DOMAIN Append(out, last) = 1..(m + 1)
        /\ Len(Append(out, last)) = m + 1
        /\ \A j \in 1..(m + 1) : Append(out, last)[j] = IF j = m + 1 THEN last ELSE out[j]
    <3> HIDE DEF Bits
    <3> QED BY <1>s, <2>4
  <2>6. (m + 1) * b = x + b
    BY <1>3
  <2>7. y <= x + b /\ x + b < y + b
    <3>1. left < b /\ x + left = y
      BY <1>s, <1>3
    <3> QED BY <1>5, <3>1
  <2>8. Placed(Append(out, last), b, bytes, a, n)
    <3> SUFFICES ASSUME NEW j \in 1..(m + 1), NEW q \in 0..(b - 1), NEW k \in 1..n, NEW p \in 0..(a - 1),
                        Place(j, b, q) = Place(k, a, p)
                 PROVE  Append(out, last)[j][q] = bytes[k][p]
      <4> HIDE DEF free
      <4> QED BY <2>5 DEF Placed
    <3>1. CASE j # m + 1
      <4>1. j \in DOMAIN out
        BY <1>s, <3>1
      <4> QED BY <1>p, <2>5, <3>1, <4>1 DEF Placed
    <3>2. CASE j = m + 1
      <4>1. PICK z \in Int : z = k * a
        OBVIOUS
      <4>2. z <= y
        BY <1>3, <4>1, ProductsKeepOrder
      <4>3. x + b - q = z - p
        BY <2>6, <3>2, <4>1 DEF Place
      <4>4. ~(q < free)
        BY <1>3, <4>2, <4>3
      <4>5. q - free \in 0..(left - 1) /\ last[q] = buffer[q - free]
        BY <2>3, <4>4
      <4>6. y - (q - free) = z - p
        BY <1>3, <4>3
      <4>7. Place(n, a, q - free) = Place(k, a, p)
        BY <1>3, <4>1, <4>6 DEF Place
      <4>8. buffer[q - free] = bytes[k][p]
        <5> HIDE DEF free
        <5> QED BY <1>h, <4>5, <4>7 DEF Held
      <4> QED BY <2>5, <3>2, <4>5, <4>8
    <3> QED BY <3>1, <3>2
  <2> QED BY <1>3, <2>1, <2>5, <2>6, <2>7, <2>8
<1> QED BY <1>4, <1>5

(* The same secret comes back, whatever its length.                        *)
LEMMA DecodeEncode ==
  ASSUME NEW bytes \in Seq(Bits(ByteBits))
  PROVE  Decode(Encode(bytes)) = bytes
<1> PICK a \in Nat \ {0}, b \in Nat \ {0} : a = ByteBits /\ b = DigitBits /\ b + a - 1 <= BufferBits /\ b <= a
  BY BitSizes
<1> PICK n \in Nat : n = Len(bytes)
  OBVIOUS
<1>1. PICK digits \in Seq(Bits(b)), l \in Nat :
        /\ digits = Encode(bytes) /\ l = Len(digits)
        /\ n * a <= l * b /\ l * b < n * a + b /\ Placed(digits, b, bytes, a, n)
  BY EncodePlaces
<1>s. digits = Encode(bytes) /\ l = Len(digits) /\ n * a <= l * b /\ l * b < n * a + b
  BY <1>1
<1>2. PICK st : st = After(digits, b, a)
  OBVIOUS
<1>3. Converted(st, digits, b, a, l)
  BY <1>2, <1>s, AfterConverts
<1>4. PICK left \in Nat, out \in Seq(Bits(a)), m \in Nat :
        left = st.left /\ out = st.out /\ m = Len(out) /\ left < a /\ m * a + left = l * b /\ Placed(out, a, digits, b, l)
  BY <1>3 DEF Converted
<1>t. left < a /\ m = Len(out) /\ m * a + left = l * b /\ out = st.out
  BY <1>4
<1>5. Decode(Encode(bytes)) = out
  BY <1>s, <1>2, <1>t DEF Decode
<1>6. PICK x \in Nat, y \in Nat, z \in Nat : x = n * a /\ y = l * b /\ z = m * a
  OBVIOUS
<1>7. m = n
  <2>1. z < x + a /\ x < z + a
    <3>1. x <= y /\ y < x + b /\ z + left = y
      BY <1>s, <1>t, <1>6
    <3> QED BY <1>t, <3>1
  <2>2. (n + 1) * a = x + a /\ (m + 1) * a = z + a
    BY <1>6
  <2>3. m < n + 1 /\ n < m + 1
    BY <1>6, <2>1, <2>2, ProductsKeepOrder
  <2> QED BY <2>3
<1>8. ASSUME NEW i \in 1..n, NEW r \in 0..(a - 1) PROVE out[i][r] = bytes[i][r]
  <2>1. PICK v \in Int : v = i * a
    OBVIOUS
  <2>2. a <= v /\ v <= x
    <3>1. 1 * a <= i * a /\ i * a <= n * a
      BY ProductsKeepOrder
    <3> QED BY <1>6, <2>1, <3>1
  <2>3. PICK u \in Nat \ {0} : u = v - r
    BY <2>2
  <2>4. PICK j \in Nat \ {0}, q \in 0..(b - 1) : u = Place(j, b, q)
    BY PlaceExists, Zenon
  <2>5. j \in 1..l
    <3>1. PICK w \in Int : w = j * b
      OBVIOUS
    <3>2. u = w - q
      BY <2>4, <3>1 DEF Place
    <3>3. (j - 1) * b = w - b
      BY <3>1
    <3>4. x <= y
      BY <1>s, <1>6
    <3>5. w - b < y
      BY <2>2, <2>3, <3>2, <3>4
    <3>6. j - 1 < l
      <4>1. PICK h \in Int : h = j - 1
        OBVIOUS
      <4>2. h * b < l * b
        BY <1>6, <3>3, <3>5, <4>1
      <4>3. h < l
        BY <4>2, ProductsKeepOrder
      <4> QED BY <4>1, <4>3
    <3> QED BY <3>6
  <2>6. Place(i, a, r) = Place(j, b, q)
    BY <2>1, <2>3, <2>4 DEF Place
  <2>7. out[i][r] = digits[j][q]
    <3>0. Placed(out, a, digits, b, l)
      BY <1>4
    <3>1. Placed(out, a, digits, b, l) /\ i \in DOMAIN out
      BY <1>t, <1>7, <3>0
    <3> QED BY <2>5, <2>6, <3>1 DEF Placed
  <2>8. digits[j][q] = bytes[i][r]
    <3>1. Placed(digits, b, bytes, a, n) /\ j \in DOMAIN digits
      BY <1>1, <2>5
    <3> QED BY <2>6, <3>1 DEF Placed
  <2> QED BY <2>7, <2>8
<1>9. \A i \in 1..n : out[i] = bytes[i]
  <2> TAKE i \in 1..n
  <2>1. out[i] \in Bits(a) /\ bytes[i] \in Bits(a)
    <3>1. i \in 1..Len(out) /\ i \in 1..Len(bytes)
      BY <1>t, <1>7
    <3> HIDE DEF Bits
    <3> QED BY <3>1
  <2>2. \A r \in 0..(a - 1) : out[i][r] = bytes[i][r]
    BY <1>8
  <2> QED BY <2>1, <2>2, SameBits
<1>10. out = bytes
  <2> HIDE DEF Bits
  <2>1. Len(out) = n /\ Len(bytes) = n
    BY <1>t, <1>7
  <2> QED BY <1>9, <2>1, SameLists
<1> QED BY <1>5, <1>10

(* A secret that was shown as text and typed in again is the same secret,  *)
(* for any sizes of bytes and digits that the buffer has room for.         *)
THEOREM SecretsComeBack == OtpSpec => []SecretSurvivesText
<1> DEFINE Inv == secret \in Seq(Bits(ByteBits))
<1>1. OtpInit => Inv
  <2> SUFFICES ASSUME OtpInit PROVE Inv
    OBVIOUS
  <2>1. PICK n \in 1..MaxBytes : secret \in [1..n -> Bits(ByteBits)]
    BY DEF OtpInit, Secrets
  <2> HIDE DEF Bits
  <2> QED BY <2>1
<1>2. Inv /\ [OtpNext]_otpVars => Inv'
  BY DEF OtpNext, ClockGoesOn, ShowsCode, Verify, otpVars
<1>3. Inv => SecretSurvivesText
  BY DecodeEncode DEF SecretSurvivesText
<1> QED BY <1>1, <1>2, <1>3, PTL DEF OtpSpec

-----------------------------------------------------------------------------
(* Allowlists.  A star, as the proofs see it.                              *)
Star(text, i) == text[i] = "*"

LEMMA BeforeIs ==
  ASSUME NEW S, NEW p \in Seq(S), NEW i \in 1..(Len(p) + 1)
  PROVE  /\ Before(p, i) \in 0..(i - 1)
         /\ Before(p, i) = 0 \/ Star(p, Before(p, i))
         /\ \A k \in (Before(p, i) + 1)..(i - 1) : ~Star(p, k)
<1> DEFINE Stands(j) == (j = 0 \/ Star(p, j)) /\ \A k \in (j + 1)..(i - 1) : ~Star(p, k)
           D == {d \in 0..(i - 1) : i - 1 - d = 0 \/ Star(p, i - 1 - d)}
<1>1. i - 1 \in D /\ D \in SUBSET Nat
  OBVIOUS
<1>2. PICK d \in D : \A e \in D : d <= e
  <2> HIDE DEF D
  <2> QED BY <1>1, LeastNumber
<1>3. i - 1 - d \in 0..(i - 1)
  OBVIOUS
<1>4. \A k \in (i - 1 - d + 1)..(i - 1) : ~Star(p, k)
  <2> SUFFICES ASSUME NEW k \in (i - 1 - d + 1)..(i - 1), Star(p, k) PROVE FALSE
    OBVIOUS
  <2>1. PICK e \in 0..(i - 1) : e = i - 1 - k /\ k = i - 1 - e /\ ~(d <= e)
    BY <1>3
  <2>2. e \in D
    BY <2>1
  <2> HIDE DEF D
  <2> QED BY <1>2, <2>1, <2>2
<1>5. Stands(i - 1 - d)
  BY <1>4
<1>6. PICK b : b = CHOOSE j \in 0..(i - 1) : Stands(j)
  OBVIOUS
<1>7. b \in 0..(i - 1) /\ Stands(b)
  <2> HIDE DEF Stands
  <2> QED BY <1>3, <1>5, <1>6
<1>8. Before(p, i) = b
  BY <1>6 DEF Before, Star
<1> QED BY <1>7, <1>8

LEMMA FirstFindIs ==
  ASSUME NEW part, NEW text, NEW from \in Nat, Finds(part, text, from) # {}
  PROVE  /\ FirstFind(part, text, from) \in Finds(part, text, from)
         /\ \A j \in Finds(part, text, from) : FirstFind(part, text, from) <= j
<1> PICK F : F = Finds(part, text, from)
  OBVIOUS
<1>1. F \in SUBSET Nat
  BY DEF Finds
<1>2. \E k \in F : \A j \in F : k <= j
  BY <1>1, LeastNumber
<1>3. FirstFind(part, text, from) = CHOOSE k \in F : \A j \in F : k <= j
  BY DEF FirstFind
<1> QED BY <1>2, <1>3

(* What Like computes: how much of the text the first letters of the       *)
(* pattern may stand for.                                                  *)
Fills(u, p, t) ==
  /\ u[0] = {0}
  /\ \A i \in 1..Len(p) :
       u[i] = IF Star(p, i) THEN {j \in 0..Len(t) : \E k \in u[i - 1] : k <= j}
              ELSE {j \in 1..Len(t) : t[j] = p[i] /\ j - 1 \in u[i - 1]}
  /\ Like(p, t) <=> Len(t) \in u[Len(p)]

LEMMA LikeIs ==
  ASSUME NEW S, NEW p \in Seq(S), NEW t
  PROVE  \E u : Fills(u, p, t)
<1> PICK l \in Nat : l = Len(p)
  OBVIOUS
<1> DEFINE start == {0}
<1> DEFINE Step(st, i) ==
             IF p[i] = "*" THEN {j \in 0..Len(t) : \E k \in st : k <= j}
             ELSE {j \in 1..Len(t) : t[j] = p[i] /\ j - 1 \in st}
           Fits(m, f) == f = [n \in 0..m |-> IF n = 0 THEN start ELSE Step(f[n - 1], n)]
           none == {m \in 0..l : \A f : ~Fits(m, f)}
<1> HIDE DEF Step, start
<1>1. none = {}
  <2> SUFFICES ASSUME none # {} PROVE FALSE
    OBVIOUS
  <2>1. PICK m \in none : \A k \in none : m <= k
    <3> none \in SUBSET Nat
      OBVIOUS
    <3> HIDE DEF none
    <3> QED BY LeastNumber
  <2>2. m \in 0..l /\ \A f : ~Fits(m, f)
    OBVIOUS
  <2>3. CASE m = 0
    <3> DEFINE f == [n \in 0..0 |-> start]
    <3>1. Fits(0, f)
      OBVIOUS
    <3> QED BY <2>2, <2>3, <3>1
  <2>4. CASE m # 0
    <3>0. m - 1 \in 0..l /\ ~(m <= m - 1)
      BY <2>2, <2>4
    <3>1. m - 1 \in 0..l /\ m - 1 \notin none
      <4> HIDE DEF none
      <4> QED BY <2>1, <3>0
    <3>2. PICK f : Fits(m - 1, f)
      BY <3>1
    <3> DEFINE g == [n \in 0..m |-> IF n = m THEN Step(f[m - 1], m) ELSE f[n]]
    <3>3. ASSUME NEW n \in 0..m PROVE g[n] = IF n = 0 THEN start ELSE Step(g[n - 1], n)
      <4>1. CASE n = m
        <5>1. g[n - 1] = f[n - 1]
          BY <2>4, <4>1, <2>2
        <5> QED BY <2>4, <4>1, <5>1
      <4>2. CASE n # m
        <5>1. n \in 0..(m - 1) /\ g[n] = f[n] /\ (n # 0 => g[n - 1] = f[n - 1])
          BY <2>2, <4>2
        <5> HIDE DEF g
        <5> QED BY <3>2, <5>1
      <4> QED BY <4>1, <4>2
    <3>4. Fits(m, g)
      BY <3>3
    <3> HIDE DEF g
    <3> QED BY <2>2, <3>4
  <2> QED BY <2>3, <2>4
<1>2. PICK g : Fits(l, g)
  BY <1>1
<1>3. PICK h : h = CHOOSE f : Fits(l, f)
  OBVIOUS
<1>4. Fits(l, h)
  BY <1>2, <1>3
<1>5. Like(p, t) <=> Len(t) \in h[Len(p)]
  BY <1>3 DEF Like, Step, start
<1>6. h[0] = start /\ \A n \in 1..l : h[n] = Step(h[n - 1], n)
  BY <1>4
<1>7. Fills(h, p, t)
  BY <1>5, <1>6 DEF Step, start, Fills, Star
<1> QED BY <1>7

(* What Glob computes: where the search ends after each part.              *)
Leap(p, t, from, i) ==
  IF Part(p, i) = <<>> THEN from
  ELSE IF \/ Finds(Part(p, i), t, from) = {}
          \/ Before(p, i) = 0 /\ FirstFind(Part(p, i), t, from) # 0 THEN Len(t) + 1
  ELSE FirstFind(Part(p, i), t, from) + Len(Part(p, i))

Scans(f, p, t) ==
  /\ f[0] = 0
  /\ \A i \in 1..(Len(p) + 1) : f[i] = Leap(p, t, f[Before(p, i)], i)
  /\ Has(p, "*") =>
       (Glob(p, t) <=>
          /\ f[Len(p) + 1] # Len(t) + 1
          /\ LastPart(p) = <<>> \/ f[Len(p) + 1] = Len(t))

LEMMA GlobIs ==
  ASSUME NEW S, NEW p \in Seq(S), NEW t
  PROVE  \E f : Scans(f, p, t)
<1> PICK l \in Nat : l = Len(p) + 1 /\ l # 0
  OBVIOUS
<1> DEFINE Step(st, i) ==
             LET part == Part(p, i)
             IN IF part = <<>> THEN st
                ELSE IF \/ Finds(part, t, st) = {}
                        \/ Before(p, i) = 0 /\ FirstFind(part, t, st) # 0 THEN Len(t) + 1
                ELSE FirstFind(part, t, st) + Len(part)
           Fits(m, f) == f = [n \in 0..m |-> IF n = 0 THEN 0 ELSE Step(f[Before(p, n)], n)]
           none == {m \in 0..l : \A f : ~Fits(m, f)}
<1> HIDE DEF Step
<1>0. \A n \in 1..l : Before(p, n) \in 0..(n - 1)
  BY BeforeIs
<1>1. none = {}
  <2> SUFFICES ASSUME none # {} PROVE FALSE
    OBVIOUS
  <2>1. PICK m \in none : \A k \in none : m <= k
    <3> none \in SUBSET Nat
      OBVIOUS
    <3> HIDE DEF none
    <3> QED BY LeastNumber
  <2>2. m \in 0..l /\ \A f : ~Fits(m, f)
    OBVIOUS
  <2>3. CASE m = 0
    <3> DEFINE f == [n \in 0..0 |-> 0]
    <3>1. Fits(0, f)
      OBVIOUS
    <3> QED BY <2>2, <2>3, <3>1
  <2>4. CASE m # 0
    <3>0. m - 1 \in 0..l /\ ~(m <= m - 1)
      BY <2>2, <2>4
    <3>1. m - 1 \in 0..l /\ m - 1 \notin none
      <4> HIDE DEF none
      <4> QED BY <2>1, <3>0
    <3>2. PICK f : Fits(m - 1, f)
      BY <3>1
    <3> DEFINE g == [n \in 0..m |-> IF n = m THEN Step(f[Before(p, m)], m) ELSE f[n]]
    <3>3. ASSUME NEW n \in 0..m PROVE g[n] = IF n = 0 THEN 0 ELSE Step(g[Before(p, n)], n)
      <4>0. n # 0 => Before(p, n) \in 0..m /\ Before(p, n) # m /\ Before(p, n) \in 0..(n - 1)
        BY <1>0, <2>2
      <4>1. CASE n = m
        <5>1. g[Before(p, n)] = f[Before(p, n)]
          BY <2>4, <4>0, <4>1
        <5> QED BY <2>4, <4>1, <5>1
      <4>2. CASE n # m
        <5>1. n \in 0..(m - 1) /\ g[n] = f[n] /\ (n # 0 => g[Before(p, n)] = f[Before(p, n)])
          BY <2>2, <4>0, <4>2
        <5> HIDE DEF g
        <5> QED BY <3>2, <5>1
      <4> QED BY <4>1, <4>2
    <3>4. Fits(m, g)
      BY <3>3
    <3> HIDE DEF g
    <3> QED BY <2>2, <3>4
  <2> QED BY <2>3, <2>4
<1>2. PICK g : Fits(l, g)
  BY <1>1
<1>3. PICK h : h = CHOOSE f : Fits(l, f)
  OBVIOUS
<1>4. Fits(l, h)
  BY <1>2, <1>3
<1>5. Glob(p, t) <=> IF ~Has(p, "*") THEN p = t
                     ELSE /\ h[Len(p) + 1] # Len(t) + 1
                          /\ LastPart(p) = <<>> \/ h[Len(p) + 1] = Len(t)
  BY <1>3 DEF Glob, Step
<1>6. h[0] = 0 /\ \A n \in 1..l : h[n] = Step(h[Before(p, n)], n)
  BY <1>4
<1>7. \A n \in 1..l : h[n] = Leap(p, t, h[Before(p, n)], n)
  BY <1>6 DEF Step, Leap
<1>8. Scans(h, p, t)
  BY <1>5, <1>6, <1>7 DEF Scans
<1> QED BY <1>8

(* The letters of the pattern behind place b stand in the text behind k.   *)
Written(p, b, m, t, k) == k + m <= Len(t) /\ \A x \in 1..m : t[k + x] = p[b + x]

LEMMA OccursIs ==
  ASSUME NEW S, NEW p \in Seq(S), NEW t \in Seq(S), NEW b \in Nat, NEW m \in Nat, b + m <= Len(p), NEW k \in Nat
  PROVE  /\ Len(SubSeq(p, b + 1, b + m)) = m
         /\ Occurs(SubSeq(p, b + 1, b + m), t, k) <=> Written(p, b, m, t, k)
<1> PICK part : part = SubSeq(p, b + 1, b + m)
  OBVIOUS
<1>1. part \in Seq(S) /\ Len(part) = m /\ \A x \in 1..m : part[x] = p[b + x]
  <2>1. part \in Seq(S)
    OBVIOUS
  <2>2. PICK from \in Nat, to \in Nat : from = b + 1 /\ to = b + m /\ to \in (from - 1)..Len(p) /\ to - from + 1 = m
    OBVIOUS
  <2>3. part = [x \in 1..m |-> p[from + x - 1]]
    BY <2>2
  <2>4. \A x \in 1..m : from + x - 1 = b + x
    BY <2>2
  <2>5. Len(part) = m /\ \A x \in 1..m : part[x] = p[from + x - 1]
    BY <2>3
  <2> QED BY <2>1, <2>4, <2>5
<1>2. ASSUME k + m <= Len(t)
      PROVE  SubSeq(t, k + 1, k + m) = part <=> \A x \in 1..m : t[k + x] = p[b + x]
  <2> PICK taken : taken = SubSeq(t, k + 1, k + m)
    OBVIOUS
  <2>1. taken \in Seq(S) /\ Len(taken) = m /\ \A x \in 1..m : taken[x] = t[k + x]
    BY <1>2
  <2>2. (\A x \in 1..m : taken[x] = part[x]) => taken = part
    BY <1>1, <2>1, SameLists
  <2> QED BY <1>1, <2>1, <2>2
<1> QED BY <1>1, <1>2 DEF Occurs, Written

LEMMA UpToPlaces ==
  ASSUME NEW S, NEW p \in Seq(S), NEW t \in Seq(S), NEW u, Fills(u, p, t), NEW i \in 0..Len(p)
  PROVE  u[i] \in SUBSET (0..Len(t))
<1>1. CASE i = 0
  BY <1>1 DEF Fills
<1>2. CASE i # 0
  <2>1. i \in 1..Len(p)
    BY <1>2
  <2>2. \/ u[i] = {j \in 0..Len(t) : \E k \in u[i - 1] : k <= j}
        \/ u[i] = {j \in 1..Len(t) : t[j] = p[i] /\ j - 1 \in u[i - 1]}
    BY <2>1, Zenon DEF Fills
  <2> QED BY <2>2
<1> QED BY <1>1, <1>2

(* Between two stars, the pattern is taken letter by letter.               *)
Reached(u, p, b, m, t) ==
  \A j \in Nat : j \in u[b + m] <=> (j - m \in u[b] /\ Written(p, b, m, t, j - m))

LEMMA Segment ==
  ASSUME NEW S, NEW p \in Seq(S), NEW t \in Seq(S), NEW u, Fills(u, p, t),
         NEW b \in Nat, NEW m \in Nat, b + m <= Len(p), \A k \in (b + 1)..(b + m) : ~Star(p, k)
  PROVE  Reached(u, p, b, m, t)
<1> DEFINE bad == {x \in 0..m : ~Reached(u, p, b, x, t)}
<1>0. \A i \in 0..Len(p) : u[i] \in SUBSET (0..Len(t))
  BY UpToPlaces
<1>1. bad = {}
  <2> SUFFICES ASSUME bad # {} PROVE FALSE
    OBVIOUS
  <2>1. PICK n \in bad : \A k \in bad : n <= k
    <3> bad \in SUBSET Nat
      OBVIOUS
    <3> HIDE DEF bad
    <3> QED BY LeastNumber
  <2>2. n \in 0..m /\ ~Reached(u, p, b, n, t)
    OBVIOUS
  <2>3. n # 0
    <3> SUFFICES ASSUME n = 0 PROVE FALSE
      OBVIOUS
    <3>1. Reached(u, p, b, 0, t)
      <4>1. \A j \in u[b] : j \in 0..Len(t)
        BY <1>0
      <4> QED BY <4>1 DEF Reached, Written
    <3> QED BY <2>2, <3>1
  <2>4. PICK x \in 0..m : x + 1 = n /\ x = n - 1 /\ b + x + 1 \in 1..Len(p) /\ b + n = b + x + 1 /\ ~Star(p, b + x + 1)
    BY <2>2, <2>3
  <2>5. Reached(u, p, b, x, t)
    <3>1. x \notin bad
      <4> HIDE DEF bad
      <4> QED BY <2>1, <2>4
    <3> QED BY <3>1
  <2>6. \A j \in Nat : j \in u[b + n] <=> (j \in 1..Len(t) /\ t[j] = p[b + x + 1] /\ j - 1 \in u[b + x])
    <3>1. PICK y \in 1..Len(p) : y = b + x + 1 /\ ~Star(p, y) /\ y - 1 = b + x
      BY <2>4
    <3>2. u[y] = {j \in 1..Len(t) : t[j] = p[y] /\ j - 1 \in u[y - 1]}
      BY <3>1, Zenon DEF Fills
    <3> QED BY <2>4, <3>1, <3>2
  <2>7. ASSUME NEW j \in Nat PROVE j \in u[b + n] <=> (j - n \in u[b] /\ Written(p, b, n, t, j - n))
    <3>1. ASSUME j \in u[b + n] PROVE j - n \in u[b] /\ Written(p, b, n, t, j - n)
      <4>1. j \in 1..Len(t) /\ t[j] = p[b + x + 1] /\ j - 1 \in u[b + x] /\ j - 1 \in Nat
        BY <2>6, <3>1
      <4>2. j - 1 - x \in u[b] /\ Written(p, b, x, t, j - 1 - x)
        BY <2>5, <4>1 DEF Reached
      <4>3. j - 1 - x = j - n
        BY <2>4
      <4>4. j - n \in u[b] /\ Written(p, b, x, t, j - n)
        BY <4>2, <4>3
      <4>5. j - n + (x + 1) = j /\ b + (x + 1) = b + x + 1 /\ j - n + n <= Len(t)
        BY <2>4, <4>1
      <4>6. \A y \in 1..n : t[j - n + y] = p[b + y]
        <5> TAKE y \in 1..n
        <5>1. CASE y \in 1..x
          BY <4>4, <5>1 DEF Written
        <5>2. CASE y = x + 1
          BY <4>1, <4>5, <5>2
        <5> QED BY <2>4, <5>1, <5>2
      <4> QED BY <4>4, <4>5, <4>6 DEF Written
    <3>2. ASSUME j - n \in u[b], Written(p, b, n, t, j - n) PROVE j \in u[b + n]
      <4>1. j - n \in 0..Len(t)
        BY <1>0, <3>2
      <4>2. j - n + n <= Len(t) /\ \A y \in 1..n : t[j - n + y] = p[b + y]
        BY <3>2 DEF Written
      <4>3. j \in 1..Len(t) /\ j - n + (x + 1) = j /\ x + 1 \in 1..n /\ j - 1 \in Nat /\ j - 1 - x = j - n
        BY <2>4, <4>1, <4>2
      <4>4. t[j] = p[b + x + 1]
        <5>1. PICK y \in 1..n : y = x + 1
          BY <4>3
        <5>2. t[j - n + y] = p[b + y]
          BY <4>2
        <5>3. j - n + y = j /\ b + y = b + x + 1
          BY <4>3, <5>1
        <5> QED BY <5>2, <5>3
      <4>5. Written(p, b, x, t, j - n)
        <5>1. j - n + x <= Len(t) /\ \A y \in 1..x : y \in 1..n
          BY <2>4, <4>1, <4>2
        <5> QED BY <4>2, <5>1 DEF Written
      <4>6. j - 1 \in u[b + x]
        BY <2>5, <3>2, <4>3, <4>5 DEF Reached
      <4> QED BY <2>6, <4>3, <4>4, <4>6
    <3> QED BY <3>1, <3>2
  <2>8. Reached(u, p, b, n, t)
    BY <2>7 DEF Reached
  <2> QED BY <2>2, <2>8
<1>2. m \in 0..m
  OBVIOUS
<1> QED BY <1>1, <1>2

(* The search ends each part as early as any way to read it.               *)
Earliest(f, u, t, i) ==
  /\ f[i] \in 0..(Len(t) + 1)
  /\ f[i] # Len(t) + 1 => f[i] \in u[i - 1]
  /\ \A j \in u[i - 1] : f[i] <= j

LEMMA BehindAStar ==
  ASSUME NEW S, NEW p \in Seq(S), NEW t \in Seq(S), NEW u, NEW f, Fills(u, p, t), Scans(f, p, t),
         NEW b \in 1..Len(p), Star(p, b), Earliest(f, u, t, b)
  PROVE  u[b] = f[b]..Len(t)
<1>1. u[b] = {j \in 0..Len(t) : \E k \in u[b - 1] : k <= j}
  BY DEF Fills
<1>2. u[b - 1] \in SUBSET (0..Len(t))
  BY UpToPlaces
<1>3. ASSUME NEW j \in u[b] PROVE j \in f[b]..Len(t)
  <2>1. j \in 0..Len(t)
    BY <1>1
  <2>2. PICK k \in u[b - 1] : k <= j
    BY <1>1
  <2> QED BY <1>2, <2>1, <2>2 DEF Earliest
<1>4. ASSUME NEW j \in f[b]..Len(t) PROVE j \in u[b]
  <2>1. f[b] \in Nat /\ f[b] <= j /\ j <= Len(t) /\ f[b] # Len(t) + 1 /\ j \in 0..Len(t)
    BY DEF Earliest
  <2>2. f[b] \in u[b - 1]
    BY <2>1 DEF Earliest
  <2> QED BY <1>1, <2>1, <2>2
<1> QED BY <1>3, <1>4

LEMMA EarliestNext ==
  ASSUME NEW S, NEW p \in Seq(S), NEW t \in Seq(S), NEW u, NEW f, Fills(u, p, t), Scans(f, p, t),
         NEW i \in 1..(Len(p) + 1), Before(p, i) # 0 => Earliest(f, u, t, Before(p, i))
  PROVE  Earliest(f, u, t, i)
<1>1. PICK b \in 0..(i - 1) : /\ b = Before(p, i) /\ (b = 0 \/ Star(p, b))
                              /\ \A k \in (b + 1)..(i - 1) : ~Star(p, k)
  BY BeforeIs
<1> PICK l \in Nat : l = Len(p)
  OBVIOUS
<1> PICK n \in Nat : n = Len(t)
  OBVIOUS
<1>2. PICK m \in Nat : m = i - 1 - b /\ b + m = i - 1 /\ b + m <= l
  OBVIOUS
<1>3. PICK from \in 0..(n + 1) : from = f[b] /\ (b = 0 => from = 0)
  <2>1. CASE b = 0
    BY <2>1 DEF Scans
  <2>2. CASE b # 0
    BY <1>1, <2>2 DEF Earliest
  <2> QED BY <2>1, <2>2
<1>4. u[b] = IF b = 0 THEN {0} ELSE from..n
  <2>1. CASE b = 0
    BY <2>1 DEF Fills
  <2>2. CASE b # 0
    <3>1. b \in 1..Len(p) /\ Star(p, b) /\ Earliest(f, u, t, b)
      BY <1>1, <2>2
    <3> QED BY <1>3, <2>2, <3>1, BehindAStar
  <2> QED BY <2>1, <2>2
<1>5. \A j \in Nat : j \in u[i - 1] <=> (j - m \in u[b] /\ Written(p, b, m, t, j - m))
  <2>1. Reached(u, p, b, m, t)
    <3>1. \A k \in (b + 1)..(b + m) : ~Star(p, k)
      BY <1>1, <1>2
    <3> QED BY <1>2, <3>1, Segment
  <2> QED BY <1>2, <2>1 DEF Reached
<1>6. u[i - 1] \in SUBSET (0..n)
  BY UpToPlaces
<1> PICK part : part = Part(p, i)
  OBVIOUS
<1>7. /\ Len(part) = m
      /\ \A k \in Nat : Occurs(part, t, k) <=> Written(p, b, m, t, k)
  <2>1. part = SubSeq(p, b + 1, b + m)
    BY <1>1, <1>2 DEF Part
  <2>2. b + m <= Len(p) /\ b \in Nat
    BY <1>2
  <2>3. \A k \in Nat : /\ Len(SubSeq(p, b + 1, b + m)) = m
                       /\ Occurs(SubSeq(p, b + 1, b + m), t, k) <=> Written(p, b, m, t, k)
    BY <2>2, OccursIs
  <2> QED BY <2>1, <2>3
<1>8. part \in Seq(S)
  BY <1>1 DEF Part
<1>9. f[i] = IF part = <<>> THEN from
             ELSE IF Finds(part, t, from) = {} \/ (b = 0 /\ FirstFind(part, t, from) # 0) THEN n + 1
             ELSE FirstFind(part, t, from) + m
  <2>1. f[i] = Leap(p, t, f[Before(p, i)], i)
    BY DEF Scans
  <2> QED BY <1>1, <1>3, <1>7, <2>1 DEF Leap
<1>10. \A j \in u[i - 1] : j \in 0..n /\ j - m \in Finds(part, t, from) /\ j - m \in u[b]
  <2> TAKE j \in u[i - 1]
  <2>1. j \in Nat /\ j \in 0..n
    BY <1>6
  <2>2. j - m \in u[b] /\ Written(p, b, m, t, j - m)
    BY <1>5, <2>1
  <2>3. j - m \in from..n
    BY <1>3, <1>4, <2>1, <2>2
  <2>4. Occurs(part, t, j - m)
    BY <1>7, <2>2, <2>3
  <2> QED BY <2>1, <2>2, <2>3, <2>4 DEF Finds
<1>11. CASE part = <<>>
  <2>1. m = 0 /\ i - 1 = b /\ f[i] = from
    BY <1>2, <1>7, <1>9, <1>11
  <2> QED BY <1>3, <1>4, <2>1 DEF Earliest
<1>12. CASE part # <<>> /\ Finds(part, t, from) = {}
  <2>1. f[i] = n + 1
    BY <1>9, <1>12
  <2>2. u[i - 1] = {}
    BY <1>10, <1>12
  <2> QED BY <2>1, <2>2 DEF Earliest
<1>13. CASE part # <<>> /\ Finds(part, t, from) # {}
  <2>1. PICK k \in Finds(part, t, from) : k = FirstFind(part, t, from) /\ \A j \in Finds(part, t, from) : k <= j
    BY <1>13, FirstFindIs
  <2>2. k \in from..n /\ Occurs(part, t, k) /\ k \in Nat
    BY DEF Finds
  <2>3. CASE b = 0 /\ k # 0
    <3>1. f[i] = n + 1
      BY <1>9, <1>13, <2>1, <2>3
    <3>2. u[i - 1] = {}
      <4> SUFFICES ASSUME NEW j \in u[i - 1] PROVE FALSE
        OBVIOUS
      <4>1. j - m = 0 /\ k <= j - m
        BY <1>4, <1>10, <2>1, <2>3
      <4> QED BY <2>2, <2>3, <4>1
    <3> QED BY <3>1, <3>2 DEF Earliest
  <2>4. CASE ~(b = 0 /\ k # 0)
    <3>1. f[i] = k + m
      BY <1>9, <1>13, <2>1, <2>4
    <3>2. Written(p, b, m, t, k) /\ k + m \in 0..n
      <4>1. Written(p, b, m, t, k)
        BY <1>7, <2>2
      <4> QED BY <2>2, <4>1 DEF Written
    <3>3. k \in u[b]
      BY <1>4, <2>2, <2>4
    <3>4. k + m \in u[i - 1]
      <4>1. PICK j \in Nat : j = k + m /\ j - m = k
        BY <2>2
      <4>2. j \in u[i - 1]
        BY <1>5, <3>2, <3>3, <4>1
      <4> QED BY <4>1, <4>2
    <3>5. \A j \in u[i - 1] : k + m <= j
      BY <1>10, <2>1, <2>2
    <3> QED BY <3>1, <3>2, <3>4, <3>5 DEF Earliest
  <2> QED BY <2>3, <2>4
<1> QED BY <1>11, <1>12, <1>13

LEMMA EarliestAlways ==
  ASSUME NEW S, NEW p \in Seq(S), NEW t \in Seq(S), NEW u, NEW f, Fills(u, p, t), Scans(f, p, t),
         NEW i \in 1..(Len(p) + 1)
  PROVE  Earliest(f, u, t, i)
<1> DEFINE bad == {k \in 1..(Len(p) + 1) : ~Earliest(f, u, t, k)}
<1>1. bad = {}
  <2> SUFFICES ASSUME bad # {} PROVE FALSE
    OBVIOUS
  <2>1. PICK n \in bad : \A k \in bad : n <= k
    <3> bad \in SUBSET Nat
      OBVIOUS
    <3> HIDE DEF bad
    <3> QED BY LeastNumber
  <2>2. n \in 1..(Len(p) + 1) /\ ~Earliest(f, u, t, n)
    OBVIOUS
  <2>3. Before(p, n) \in 0..(n - 1)
    BY <2>2, BeforeIs
  <2>4. Before(p, n) # 0 => Earliest(f, u, t, Before(p, n))
    <3> SUFFICES ASSUME Before(p, n) # 0 PROVE Earliest(f, u, t, Before(p, n))
      OBVIOUS
    <3>1. Before(p, n) \in 1..(Len(p) + 1) /\ ~(n <= Before(p, n))
      BY <2>2, <2>3
    <3>2. Before(p, n) \notin bad
      <4> HIDE DEF bad
      <4> QED BY <2>1, <3>1
    <3> QED BY <3>1, <3>2
  <2>5. Earliest(f, u, t, n)
    BY <2>2, <2>4, EarliestNext
  <2> QED BY <2>2, <2>5
<1> QED BY <1>1

LEMMA Lettered ==
  ASSUME NEW S, NEW p \in Seq(S)
  PROVE  /\ \A k \in 1..Len(p) : Star(p, k) => Has(p, "*")
         /\ Has(p, "*") => \E k \in 1..Len(p) : Star(p, k)
BY DEF Star, Has

(* Without a star, a pattern is like itself alone.                         *)
LEMMA PlainIsLikeItself ==
  ASSUME NEW S, NEW p \in Seq(S), NEW t \in Seq(S), ~Has(p, "*")
  PROVE  Like(p, t) <=> p = t
<1>1. PICK u : Fills(u, p, t)
  BY LikeIs
<1> PICK m \in Nat : m = Len(p)
  OBVIOUS
<1> PICK n \in Nat : n = Len(t)
  OBVIOUS
<1>2. Reached(u, p, 0, m, t)
  <2>1. 0 \in Nat /\ 0 + m <= Len(p) /\ \A k \in (0 + 1)..(0 + m) : ~Star(p, k)
    BY Lettered
  <2> QED BY <1>1, <2>1, Segment
<1>3. Like(p, t) <=> n \in u[m]
  BY <1>1 DEF Fills
<1>4. u[0] = {0}
  BY <1>1 DEF Fills
<1>5. n \in u[m] <=> n - m = 0 /\ Written(p, 0, m, t, n - m)
  <2>1. 0 + m = m
    OBVIOUS
  <2> QED BY <1>2, <1>4, <2>1 DEF Reached
<1>6. (n - m = 0 /\ Written(p, 0, m, t, n - m)) => p = t
  <2> SUFFICES ASSUME n - m = 0, Written(p, 0, m, t, n - m) PROVE p = t
    OBVIOUS
  <2>1. Len(p) = Len(t) /\ \A x \in 1..m : t[n - m + x] = p[0 + x]
    BY DEF Written
  <2>2. \A x \in 1..m : n - m + x = x /\ 0 + x = x
    OBVIOUS
  <2>3. \A x \in 1..m : p[x] = t[x]
    BY <2>1, <2>2
  <2> QED BY <2>1, <2>3, SameLists
<1>7. p = t => n - m = 0 /\ Written(p, 0, m, t, n - m)
  <2> SUFFICES ASSUME p = t PROVE n - m = 0 /\ Written(p, 0, m, t, n - m)
    OBVIOUS
  <2>1. n - m = 0 /\ n - m + m <= Len(t)
    OBVIOUS
  <2>2. \A x \in 1..m : n - m + x = x /\ 0 + x = x
    BY <2>1
  <2>3. \A x \in 1..m : t[n - m + x] = p[0 + x]
    BY <2>2
  <2> QED BY <2>1, <2>3 DEF Written
<1> QED BY <1>3, <1>5, <1>6, <1>7

LEMMA LikeItself ==
  ASSUME NEW S, NEW p \in Seq(S)
  PROVE  Like(p, p)
<1>1. PICK u : Fills(u, p, p)
  BY LikeIs
<1> DEFINE bad == {k \in 0..Len(p) : k \notin u[k]}
<1>2. bad = {}
  <2> SUFFICES ASSUME bad # {} PROVE FALSE
    OBVIOUS
  <2>1. PICK n \in bad : \A k \in bad : n <= k
    <3> bad \in SUBSET Nat
      OBVIOUS
    <3> HIDE DEF bad
    <3> QED BY LeastNumber
  <2>2. n \in 0..Len(p) /\ n \notin u[n]
    OBVIOUS
  <2>3. n # 0
    BY <1>1, <2>2 DEF Fills
  <2>4. n \in 1..Len(p) /\ n - 1 \in 0..Len(p) /\ ~(n <= n - 1)
    BY <2>2, <2>3
  <2>5. n - 1 \in u[n - 1]
    <3>1. n - 1 \notin bad
      <4> HIDE DEF bad
      <4> QED BY <2>1, <2>4
    <3> QED BY <2>4, <3>1
  <2>6. \/ u[n] = {j \in 0..Len(p) : \E k \in u[n - 1] : k <= j}
        \/ u[n] = {j \in 1..Len(p) : p[j] = p[n] /\ j - 1 \in u[n - 1]}
    BY <1>1, <2>4, Zenon DEF Fills
  <2>7. n - 1 <= n /\ n \in 0..Len(p)
    BY <2>2
  <2> HIDE DEF bad
  <2> QED BY <2>2, <2>4, <2>5, <2>6, <2>7
<1>3. Len(p) \in u[Len(p)]
  BY <1>2
<1> QED BY <1>1, <1>3 DEF Fills

(* The search finds no more than a star may stand for, ...                 *)
LEMMA GlobIsSound ==
  ASSUME NEW S, NEW p \in Seq(S), NEW t \in Seq(S), Glob(p, t)
  PROVE  Like(p, t)
<1>1. CASE ~Has(p, "*")
  <2>1. p = t
    BY <1>1, Zenon DEF Glob
  <2> QED BY <2>1, LikeItself
<1>2. CASE Has(p, "*")
  <2>1. PICK u : Fills(u, p, t)
    BY LikeIs
  <2>2. PICK f : Scans(f, p, t)
    BY GlobIs
  <2> PICK l \in Nat : l = Len(p)
    OBVIOUS
  <2> PICK n \in Nat : n = Len(t)
    OBVIOUS
  <2>3. Earliest(f, u, t, l + 1)
    BY <2>1, <2>2, EarliestAlways
  <2>4. f[l + 1] # n + 1 /\ (LastPart(p) = <<>> \/ f[l + 1] = n)
    BY <1>2, <2>2 DEF Scans
  <2>5. f[l + 1] \in u[l]
    <3>1. l + 1 - 1 = l
      OBVIOUS
    <3> QED BY <2>3, <2>4, <3>1 DEF Earliest
  <2>6. CASE f[l + 1] = n
    BY <2>1, <2>5, <2>6 DEF Fills
  <2>7. CASE LastPart(p) = <<>>
    <3>1. PICK b \in 0..l : b = Before(p, l + 1) /\ (b = 0 \/ Star(p, b)) /\ \A k \in (b + 1)..l : ~Star(p, k)
      <4>1. l + 1 \in 1..(Len(p) + 1) /\ l + 1 - 1 = l
        OBVIOUS
      <4> QED BY <4>1, BeforeIs
    <3>2. LastPart(p) = SubSeq(p, b + 1, l)
      <4>1. l + 1 - 1 = l
        OBVIOUS
      <4> QED BY <3>1, <4>1 DEF LastPart, Part
    <3>3. b = l
      <4>1. Len(SubSeq(p, b + 1, l)) = l - b
        OBVIOUS
      <4> QED BY <2>7, <3>2, <4>1
    <3>4. l # 0
      BY <1>2, Lettered
    <3>5. l \in 1..Len(p) /\ Star(p, l)
      BY <3>1, <3>3, <3>4
    <3>6. Earliest(f, u, t, l)
      BY <2>1, <2>2, <3>5, EarliestAlways
    <3>7. u[l] = f[l]..n
      BY <2>1, <2>2, <3>5, <3>6, BehindAStar
    <3>8. n \in u[l]
      <4>1. f[l] \in Nat
        BY <3>6 DEF Earliest
      <4> QED BY <2>5, <3>7, <4>1
    <3> QED BY <2>1, <3>8 DEF Fills
  <2> QED BY <2>4, <2>6, <2>7
<1> QED BY <1>1, <1>2

(* ... and misses only what has the last part before its end, too.         *)
LEMMA GlobMissesOnly ==
  ASSUME NEW S, NEW p \in Seq(S), NEW t \in Seq(S), Like(p, t), ~Glob(p, t)
  PROVE  /\ LastPart(p) # <<>>
         /\ \E k \in 0..(Len(t) - Len(LastPart(p)) - 1) : Occurs(LastPart(p), t, k)
<1>1. Has(p, "*")
  <2> SUFFICES ASSUME ~Has(p, "*") PROVE FALSE
    OBVIOUS
  <2>1. p = t
    BY PlainIsLikeItself
  <2> QED BY <2>1, Zenon DEF Glob
<1>2. PICK u : Fills(u, p, t)
  BY LikeIs
<1>3. PICK f : Scans(f, p, t)
  BY GlobIs
<1> PICK l \in Nat : l = Len(p)
  OBVIOUS
<1> PICK n \in Nat : n = Len(t)
  OBVIOUS
<1>4. Earliest(f, u, t, l + 1)
  BY <1>2, <1>3, EarliestAlways
<1>5. n \in u[l + 1 - 1]
  <2>1. l + 1 - 1 = l
    OBVIOUS
  <2> QED BY <1>2, <2>1 DEF Fills
<1>6. f[l + 1] <= n /\ f[l + 1] \in Nat
  BY <1>4, <1>5 DEF Earliest
<1>7. LastPart(p) # <<>> /\ f[l + 1] # n
  BY <1>1, <1>3, <1>6 DEF Scans
<1> PICK part : part = LastPart(p) /\ part = Part(p, l + 1)
  BY DEF LastPart
<1>8. PICK b \in 0..l : b = Before(p, l + 1) /\ (b # 0 => Star(p, b))
  <2>1. l + 1 \in 1..(Len(p) + 1) /\ l + 1 - 1 = l
    OBVIOUS
  <2> QED BY <2>1, BeforeIs
<1>9. PICK from \in Nat : from = f[b]
  <2>1. CASE b = 0
    BY <1>3, <2>1 DEF Scans
  <2>2. CASE b # 0
    <3>1. b \in 1..(Len(p) + 1)
      BY <2>2
    <3>2. Earliest(f, u, t, b)
      BY <1>2, <1>3, <3>1, EarliestAlways
    <3> QED BY <3>2 DEF Earliest
  <2> QED BY <2>1, <2>2
<1>10. f[l + 1] = Leap(p, t, from, l + 1)
  <2>1. l + 1 \in 1..(Len(p) + 1)
    OBVIOUS
  <2> QED BY <1>3, <1>8, <1>9, <2>1 DEF Scans
<1>11. /\ Finds(part, t, from) # {}
       /\ f[l + 1] = FirstFind(part, t, from) + Len(part)
  <2>1. n + 1 # f[l + 1]
    BY <1>6
  <2> QED BY <1>7, <1>10, <2>1 DEF Leap
<1>12. PICK k \in Finds(part, t, from) : k = FirstFind(part, t, from)
  BY <1>11, FirstFindIs
<1>13. k \in Nat /\ Occurs(part, t, k)
  BY DEF Finds
<1>14. part \in Seq(S)
  BY <1>8 DEF Part
<1>15. k + Len(part) < n /\ Len(part) \in Nat
  BY <1>6, <1>7, <1>11, <1>12, <1>14
<1>16. k \in 0..(Len(t) - Len(part) - 1)
  BY <1>13, <1>15
<1> QED BY <1>7, <1>13, <1>16

-----------------------------------------------------------------------------
LEMMA LoweredIs ==
  ASSUME NEW text \in Seq(Letters)
  PROVE  /\ Lowered(text) \in Seq(Letters \cup {Lower[x] : x \in Letters})
         /\ Len(Lowered(text)) = Len(text)
<1> DEFINE low(i) == IF text[i] \in DOMAIN Lower THEN Lower[text[i]] ELSE text[i]
           S == Letters \cup {Lower[x] : x \in Letters}
<1>1. \A i \in 1..Len(text) : low(i) \in S
  OBVIOUS
<1>2. Lowered(text) = [i \in 1..Len(text) |-> low(i)]
  BY DEF Lowered
<1> HIDE DEF low, S
<1>3. Lowered(text) \in Seq(S) /\ Len(Lowered(text)) = Len(text)
  BY <1>1, <1>2
<1> QED BY <1>3 DEF S

LEMMA TrimmedIs ==
  ASSUME NEW text \in Seq(Letters)
  PROVE  Trimmed(text) \in Seq(Letters)
<1> DEFINE Ends(k) == k < Len(text) => text[k + 1] # "@"
           D == {k \in 0..Len(text) : Ends(k)}
           Ats(k) == (\A i \in 1..k : text[i] = "@") /\ (k < Len(text) => text[k + 1] # "@")
<1>1. Len(text) \in D /\ D \in SUBSET Nat
  OBVIOUS
<1>2. PICK k \in D : \A j \in D : k <= j
  <2> HIDE DEF D
  <2> QED BY <1>1, LeastNumber
<1>3. Ats(k)
  <2>1. k \in 0..Len(text) /\ Ends(k)
    OBVIOUS
  <2>2. ASSUME NEW i \in 1..k PROVE text[i] = "@"
    <3>1. PICK j \in 0..Len(text) : j = i - 1 /\ i = j + 1 /\ j < Len(text) /\ ~(k <= j)
      BY <2>1
    <3>2. j \notin D
      <4> HIDE DEF D
      <4> QED BY <1>2, <3>1
    <3>3. ~Ends(j)
      BY <3>2
    <3>4. text[j + 1] = "@"
      BY <3>3, Zenon
    <3> QED BY <3>1, <3>4
  <2> QED BY <2>1, <2>2
<1>4. PICK ats : ats = CHOOSE j \in 0..Len(text) : Ats(j)
  OBVIOUS
<1>5. k \in 0..Len(text)
  OBVIOUS
<1>6. ats \in 0..Len(text)
  <2> HIDE DEF Ats
  <2> QED BY <1>3, <1>4, <1>5
<1>7. Trimmed(text) = SubSeq(text, ats + 1, Len(text))
  BY <1>4 DEF Trimmed
<1> QED BY <1>6, <1>7

LEMMA IdAndUserAre ==
  ASSUME NEW text \in Seq(Letters)
  PROVE  IdAndUser(text)[1] \in Seq(Letters) /\ IdAndUser(text)[2] \in Seq(Letters)
<1>1. CASE ~Has(text, "|")
  BY <1>1 DEF IdAndUser
<1>2. CASE Has(text, "|")
  <2> DEFINE Barred(i) == text[i] = "|"
             D == {i \in DOMAIN text : Barred(i)}
  <2>1. D # {} /\ D \in SUBSET Nat
    BY <1>2 DEF Has
  <2>2. PICK i \in D : \A j \in D : i <= j
    <3> HIDE DEF D
    <3> QED BY <2>1, LeastNumber
  <2>3. i \in DOMAIN text /\ Barred(i)
    OBVIOUS
  <2>4. \A j \in 1..(i - 1) : ~Barred(j)
    <3> TAKE j \in 1..(i - 1)
    <3>1. j \in DOMAIN text /\ ~(i <= j)
      BY <2>3
    <3>2. j \notin D
      <4> HIDE DEF D
      <4> QED BY <2>2, <3>1
    <3> QED BY <3>1, <3>2
  <2>5. PICK bar : bar = CHOOSE k \in DOMAIN text : Barred(k) /\ \A j \in 1..(k - 1) : ~Barred(j)
    OBVIOUS
  <2>6. bar \in DOMAIN text
    <3> HIDE DEF Barred
    <3> QED BY <2>3, <2>4, <2>5
  <2>7. IdAndUser(text) = <<SubSeq(text, 1, bar - 1), SubSeq(text, bar + 1, Len(text))>>
    BY <1>2, <2>5 DEF IdAndUser
  <2>8. SubSeq(text, 1, bar - 1) \in Seq(Letters) /\ SubSeq(text, bar + 1, Len(text)) \in Seq(Letters)
    BY <2>6
  <2> QED BY <2>7, <2>8
<1> QED BY <1>1, <1>2

LEMMA SenderHasNames ==
  ASSUME NEW text \in SenderTexts
  PROVE  /\ \A name \in NamesOf(text) : name \in Said(text) /\ name \in Seq(Letters)
         /\ \A name \in Said(text) : name \in NamesOf(text)
<1>1. text \in Seq(Letters) /\ IdAndUser(text)[1] # <<>>
  BY AllowAssumption
<1>2. text # <<>>
  <2> SUFFICES ASSUME text = <<>> PROVE FALSE
    OBVIOUS
  <2>1. ~Has(text, "|")
    BY DEF Has
  <2>2. IdAndUser(text)[1] = text
    BY <2>1 DEF IdAndUser
  <2> QED BY <1>1, <2>2
<1>3. IdAndUser(text)[1] \in Seq(Letters) /\ IdAndUser(text)[2] \in Seq(Letters)
  BY <1>1, IdAndUserAre
<1> QED BY <1>1, <1>2, <1>3 DEF NamesOf, Said

LEMMA ListsAreLettered ==
  ASSUME allowFrom \in AllowLists, allowFromGroups \in GroupLists
  PROVE  \A i \in DOMAIN ListFor : ListFor[i] \in Seq(Letters)
<1>1. allowFrom \in Seq(Seq(Letters)) /\ allowFromGroups \in Seq(Seq(Letters))
  BY AllowAssumption
<1>2. ListFor = allowFrom \/ ListFor = allowFromGroups
  BY DEF ListFor
<1> QED BY <1>1, <1>2

AllowInv ==
  /\ allowFrom \in AllowLists /\ allowFromGroups \in GroupLists
  /\ asker \in [text : SenderTexts, group : BOOLEAN]
  /\ admitted = "yes" => ListFor = <<>> \/ MatchesAllowlist(ListFor)
  /\ admitted = "no" => ~MatchesAllowlist(ListFor)

LEMMA AllowStep ==
  /\ AllowInit => AllowInv
  /\ AllowInv /\ [AllowNext]_allowVars => AllowInv'
<1>1. AllowInit => AllowInv
  BY DEF AllowInit, AllowInv
<1>2. ASSUME AllowInv, [AllowNext]_allowVars PROVE AllowInv'
  <2>1. UNCHANGED <<allowFrom, allowFromGroups, asker>>
    BY <1>2 DEF AllowNext, Receive, allowVars
  <2>2. ListFor' = ListFor /\ (MatchesAllowlist(ListFor))' = MatchesAllowlist(ListFor)
    BY <2>1 DEF ListFor, MatchesAllowlist
  <2>3. CASE Receive
    <3>1. \/ admitted' = "yes" /\ (ListFor = <<>> \/ MatchesAllowlist(ListFor))
          \/ admitted' = "no" /\ ~MatchesAllowlist(ListFor)
      BY <2>3 DEF Receive
    <3> QED BY <1>2, <2>1, <2>2, <3>1 DEF AllowInv
  <2>4. CASE UNCHANGED allowVars
    BY <1>2, <2>1, <2>2, <2>4 DEF AllowInv, allowVars
  <2> QED BY <1>2, <2>3, <2>4 DEF AllowNext
<1> QED BY <1>1, <1>2

LEMMA OnlyANameAdmits ==
  ASSUME AllowInv
  PROVE  AdmittedByAName
<1> SUFFICES ASSUME admitted = "yes", ListFor # <<>>
             PROVE  \E i \in DOMAIN ListFor, name \in Said(asker.text) :
                      name = ListFor[i] \/ Like(Lowered(Trimmed(ListFor[i])), Lowered(name))
  BY DEF AdmittedByAName
<1>1. PICK i \in DOMAIN ListFor, name \in NamesOf(asker.text) : Admits(ListFor[i], name)
  BY DEF AllowInv, MatchesAllowlist
<1>2. name \in Said(asker.text) /\ name \in Seq(Letters)
  <2>1. asker.text \in SenderTexts
    BY DEF AllowInv
  <2> QED BY <2>1, SenderHasNames
<1> PICK entry : entry = ListFor[i]
  OBVIOUS
<1>3. entry \in Seq(Letters) /\ Trimmed(entry) \in Seq(Letters)
  BY ListsAreLettered, TrimmedIs DEF AllowInv
<1> DEFINE S == Letters \cup {Lower[x] : x \in Letters}
<1>4. Lowered(Trimmed(entry)) \in Seq(S) /\ Lowered(name) \in Seq(S)
  BY <1>2, <1>3, LoweredIs
<1> HIDE DEF S
<1>5. name = entry \/ Like(Lowered(Trimmed(entry)), Lowered(name))
  <2>1. CASE Has(Trimmed(entry), "*")
    <3>1. Glob(Lowered(Trimmed(entry)), Lowered(name))
      BY <1>1, <2>1 DEF Admits
    <3> QED BY <1>4, <3>1, GlobIsSound
  <2>2. CASE ~Has(Trimmed(entry), "*")
    <3>1. name = entry \/ name = Trimmed(entry)
      BY <1>1, <2>2 DEF Admits
    <3> QED BY <1>4, <3>1, LikeItself
  <2> QED BY <2>1, <2>2
<1> QED BY <1>2, <1>5

LEMMA EveryNameAdmits ==
  ASSUME AllowInv
  PROVE  OnTheListIsAdmitted
<1> SUFFICES ASSUME admitted = "no", NEW i \in DOMAIN ListFor, NEW name \in Said(asker.text)
             PROVE  LET entry == Trimmed(ListFor[i])
                        last == LastPart(Lowered(entry))
                    IN /\ ~Has(entry, "*") => name # ListFor[i] /\ name # entry
                       /\ Has(entry, "*") /\ Like(Lowered(entry), Lowered(name)) =>
                            last # <<>> /\ \E k \in 0..(Len(name) - Len(last) - 1) : Occurs(last, Lowered(name), k)
  BY Zenon DEF OnTheListIsAdmitted
<1>1. name \in NamesOf(asker.text) /\ name \in Seq(Letters)
  <2>1. asker.text \in SenderTexts
    BY DEF AllowInv
  <2> QED BY <2>1, SenderHasNames
<1> PICK whole : whole = ListFor[i]
  OBVIOUS
<1> PICK entry : entry = Trimmed(whole)
  OBVIOUS
<1>2. ~Admits(whole, name)
  BY <1>1 DEF AllowInv, MatchesAllowlist
<1>3. entry \in Seq(Letters)
  BY ListsAreLettered, TrimmedIs DEF AllowInv
<1> DEFINE S == Letters \cup {Lower[x] : x \in Letters}
<1>4. Lowered(entry) \in Seq(S) /\ Lowered(name) \in Seq(S) /\ Len(Lowered(name)) = Len(name)
  BY <1>1, <1>3, LoweredIs
<1> HIDE DEF S
<1>5. ~Has(entry, "*") => name # whole /\ name # entry
  BY <1>2 DEF Admits
<1>6. Has(entry, "*") => ~Glob(Lowered(entry), Lowered(name))
  BY <1>2 DEF Admits
<1>7. Has(entry, "*") /\ Like(Lowered(entry), Lowered(name)) =>
        /\ LastPart(Lowered(entry)) # <<>>
        /\ \E k \in 0..(Len(name) - Len(LastPart(Lowered(entry))) - 1) :
             Occurs(LastPart(Lowered(entry)), Lowered(name), k)
  BY <1>4, <1>6, GlobMissesOnly
<1> QED BY <1>5, <1>7

(* Whoever gets in is on the list by a name of his, and whoever is on the  *)
(* list gets in, but for a pattern whose last part a name has twice.       *)
THEOREM ListsAreKept == AllowSpec => [](AdmittedByAName /\ OnTheListIsAdmitted)
<1> QED BY AllowStep, OnlyANameAdmits, EveryNameAdmits, PTL DEF AllowSpec

(* The codes and the allowlists, together: whoever gets in has the code    *)
(* for it or is on the list, and whoever has or is gets in.                *)
THEOREM OnlyTheAdmittedEver == PairingSpec /\ OtpSpec /\ AllowSpec => []OnlyTheAdmittedGetIn
<1>1. CodesPairOnce /\ CodesLiveAsLong /\ SecretSurvivesText /\ AdmittedByAName /\ OnTheListIsAdmitted
      => OnlyTheAdmittedGetIn
  BY DEF OnlyTheAdmittedGetIn, CodesHold
<1> QED BY PairingCodesAreUsedOnce, PasswordsLiveAsLong, SecretsComeBack, ListsAreKept, <1>1, PTL
=============================================================================
