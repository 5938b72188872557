----------------------------- MODULE RateLimiter -----------------------------
(***************************************************************************)
(* The rate limiter (crates/adaclaw-security/src/ratelimit.rs): sliding    *)
(* windows of messages for each sender and each channel, one of tool       *)
(* calls, and the cost of a day.  Each has a lock of its own, so a message *)
(* may pass its sender's window while another passes the channel's.        *)
(* The clock is taken to be monotone.                                      *)
(***************************************************************************)
EXTENDS Naturals, Sequences, FiniteSets

CONSTANTS
  From,           \* senders; there is one channel, which they share
  PerUser, PerChannel,    \* limits, 0 for none
  WindowWidth,    \* a minute
  DayLength,
  Budget,         \* daily_cost_budget_usd, 0 for none
  Costs,          \* what a call may cost
  MaxTime,        \* bound: time
  MaxAttempts, MaxCosts   \* bounds: messages, and costs recorded

ASSUME RateAssumption ==
  /\ {PerUser, PerChannel, WindowWidth, Budget, MaxTime, MaxAttempts, MaxCosts} \subseteq Nat
  /\ DayLength \in Nat \ {0} /\ Costs \subseteq Nat

VARIABLES
  now,
  userEvents,     \* WindowCounter::events of each sender: the messages recorded
  channelEvents,  \* those of the channel
  attempt,        \* messages by number: sender, when each half was decided, and how
  dailyCost,      \* total, and the day it is of
  spent           \* history: costs recorded, with the day

rateVars == <<now, userEvents, channelEvents, attempt, dailyCost, spent>>

Day == now \div DayLength
Attempts == DOMAIN attempt

RateInit ==
  /\ now = 0 /\ userEvents = [u \in From |-> {}] /\ channelEvents = {}
  /\ attempt = <<>> /\ dailyCost = [total |-> 0, day |-> 0] /\ spent = <<>>

Tick ==
  /\ now < MaxTime
  /\ now' = now + 1
  /\ UNCHANGED <<userEvents, channelEvents, attempt, dailyCost, spent>>

-----------------------------------------------------------------------------
(* Mutant: what lies exactly one window back is not evicted. *)
IsRecentToo(moment) == moment + WindowWidth >= now

(* try_record first evicts what is no longer in the window. *)
IsRecent(moment) == moment + WindowWidth > now
RecentOf(u) == {n \in userEvents[u] : IsRecent(attempt[n].at)}
RecentOfChannel == {n \in channelEvents : IsRecent(attempt[n].decided)}

(* Mutant: one more than the limit fits. *)
HasRoomForMore(recent, limit) == limit = 0 \/ Cardinality(recent) <= limit

HasRoom(recent, limit) == limit = 0 \/ Cardinality(recent) < limit
Recorded(events, recent, n, limit) == IF limit = 0 THEN events ELSE recent \cup {n}

(* check_message, first half: the sender's window. *)
CheckUser(u) ==
  /\ Len(attempt) < MaxAttempts
  /\ LET message(v) == [from |-> u, at |-> now, decided |-> now, verdict |-> v]
     IN IF HasRoom(RecentOf(u), PerUser)
        THEN /\ userEvents' = [userEvents EXCEPT ![u] = Recorded(@, RecentOf(u), Len(attempt) + 1, PerUser)]
             /\ attempt' = Append(attempt, message("userPassed"))
        ELSE /\ userEvents' = [userEvents EXCEPT ![u] = RecentOf(u)]
             /\ attempt' = Append(attempt, message("userFull"))
  /\ UNCHANGED <<now, channelEvents, dailyCost, spent>>

(* The second half: a message that the channel refuses keeps the place it  *)
(* has taken in its sender's window.                                       *)
CheckChannel(n) ==
  /\ attempt[n].verdict = "userPassed"
  /\ IF HasRoom(RecentOfChannel, PerChannel)
     THEN /\ channelEvents' = Recorded(channelEvents, RecentOfChannel, n, PerChannel)
          /\ attempt' = [attempt EXCEPT ![n].verdict = "passed", ![n].decided = now]
     ELSE /\ channelEvents' = RecentOfChannel
          /\ attempt' = [attempt EXCEPT ![n].verdict = "channelFull", ![n].decided = now]
  /\ UNCHANGED <<now, userEvents, dailyCost, spent>>

(* Mutant: the total is carried over to the new day. *)
RecordCostOn(cost) ==
  /\ Budget > 0
  /\ dailyCost' = [total |-> dailyCost.total + cost, day |-> Day]
  /\ spent' = Append(spent, [day |-> Day, cost |-> cost])
  /\ UNCHANGED <<now, userEvents, channelEvents, attempt>>

(* record_cost: a new day begins at nothing. *)
RecordCost(cost) ==
  /\ Budget > 0
  /\ dailyCost' = IF Day = dailyCost.day THEN [dailyCost EXCEPT !.total = @ + cost]
                                         ELSE [total |-> cost, day |-> Day]
  /\ spent' = Append(spent, [day |-> Day, cost |-> cost])
  /\ UNCHANGED <<now, userEvents, channelEvents, attempt>>

RateNext ==
  \/ Tick
  \/ \E u \in From : CheckUser(u)
  \/ \E n \in Attempts : CheckChannel(n)
  \/ \E cost \in Costs : Len(spent) < MaxCosts /\ RecordCost(cost)

-----------------------------------------------------------------------------
InWindow(moment, t) == moment <= t /\ t < moment + WindowWidth

Admitted(u) == {n \in Attempts : attempt[n].from = u /\ attempt[n].verdict # "userFull"}
Passed == {n \in Attempts : attempt[n].verdict = "passed"}

(* However the two halves of several messages interleave, in no window     *)
(* does a sender get more messages past the first half than its limit, or  *)
(* more messages pass than the limit of the channel.                       *)
LimitsHold ==
  \A t \in 0..now :
    /\ PerUser > 0 => \A u \in From :
         Cardinality({n \in Admitted(u) : InWindow(attempt[n].at, t)}) <= PerUser
    /\ PerChannel > 0 => Cardinality({n \in Passed : InWindow(attempt[n].decided, t)}) <= PerChannel

(* A message is refused only for as many others in the window that ends    *)
(* with it: its sender's that were let past the first half, or any that    *)
(* passed.                                                                 *)
RefusedForAReason ==
  \A n \in Attempts : LET a == attempt[n] IN
    /\ a.verdict = "userFull" =>
         Cardinality({m \in Admitted(a.from) : m < n /\ InWindow(attempt[m].at, a.at)}) >= PerUser
    /\ a.verdict = "channelFull" =>
         Cardinality({m \in Passed : InWindow(attempt[m].decided, a.decided)}) >= PerChannel

(* record_cost counts everything of its day, also what is over the budget: *)
(* the total is the last of the partial sums.                              *)
DayIsCounted ==
  \E sum \in [0..Len(spent) -> 0..dailyCost.total] :
    /\ sum[0] = 0 /\ sum[Len(spent)] = dailyCost.total
    /\ \A i \in DOMAIN spent :
         sum[i] = sum[i - 1] + IF spent[i].day = dailyCost.day THEN spent[i].cost ELSE 0

(* The limiter lets past what its limits say, and neither more nor less. *)
RateHolds ==
  LimitsHold /\ RefusedForAReason /\ DayIsCounted

RateSpec == RateInit /\ [][RateNext]_rateVars
=============================================================================
