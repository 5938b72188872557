----------------------- MODULE ReliabilityChainProofs -----------------------
(***************************************************************************)
(* What holds of ReliabilityChain for any number of tasks, any chain of    *)
(* providers and any ladder of cooldowns, of ProviderErrors for any        *)
(* statuses and number of attempts, of the turns of ToolLoop, and of       *)
(* ProviderStream for any reply and any sizes of pieces.                   *)
(***************************************************************************)
EXTENDS
  ReliabilityChain, ProviderErrors, ToolLoop, ProviderStream,
  TLAPS, FiniteSetTheorems, SequenceTheorems, WellFoundedInduction

(* A position names a provider, and all but the last have a next one.      *)
LEMMA ChainFacts ==
  /\ Len(Chain) \in Nat /\ Len(Chain) >= 1 /\ Positions = 1..Len(Chain)
  /\ \A j \in Positions : Chain[j] \in Names
  /\ \A j \in Positions : j < Len(Chain) => j + 1 \in Positions
  /\ 1 \in Positions
<1>1. Chain \in Seq(Names) /\ Chain # <<>>
  BY ChainAssumption
<1>2. Len(Chain) \in Nat /\ Positions = 1..Len(Chain)
  BY <1>1 DEF Positions
<1>3. Len(Chain) >= 1
  BY <1>1, <1>2
<1> QED BY <1>1, <1>2, <1>3 DEF Names, Positions

(* calculate_cooldown stays between zero and the longest cooldown.         *)
LEMMA CooldownBounded ==
  ASSUME NEW n \in 0..Rungs
  PROVE  Cooldown(n) \in 0..Longest
<1> DEFINE step == IF n < 1 THEN 1 ELSE n
<1>1. Factor \in Nat /\ Base \in Nat /\ Longest \in Nat /\ Rungs \in 1..4
  BY ChainAssumption
<1>2. Factor * Factor \in Nat
  BY <1>1
<1>3. Factor * Factor * Factor \in Nat
  BY <1>1, <1>2
<1>4. Power[step] \in Nat
  BY <1>1, <1>2, <1>3 DEF Power
<1>5. Base * Power[step] \in Nat
  BY <1>1, <1>4
<1> QED BY <1>1, <1>5 DEF Cooldown

-----------------------------------------------------------------------------
(* What is proved with TypeOK.  The positions a call has passed are the    *)
(* ones it found blocked; it has no result before it returns.  Whoever is  *)
(* past its look at a provider in cooldown looked before that began.       *)
Progress ==
  \A w \in Workers :
    /\ pc[w] # "idle" => result[w] = "none" /\ blocked[w] = 1..(at[w] - 1)
    /\ result[w] = "error" => blocked[w] = Positions

Looked ==
  \A w \in Workers :
    pc[w] \in {"unopen", "uncount", "ask"} /\ Running(Name(w)) => overtaken[w]

Inv == TypeOK /\ Progress /\ Looked

Places == {"idle", "look", "unopen", "uncount", "ask", "close", "open"}
Purposes == {"capabilities", "any", "serve"}
Outcomes == {"none", "response", "error"}
CallTypes ==
  /\ pc \in [Workers -> Places]
  /\ purpose \in [Workers -> Purposes]
  /\ at \in [Workers -> Positions]
  /\ attempt \in [Workers -> 0..MaxRetries]
  /\ counted \in [Workers -> 0..Rungs]
  /\ result \in [Workers -> Outcomes]
  /\ blocked \in [Workers -> SUBSET Positions]

BreakerTypes ==
  /\ open \subseteq Names
  /\ left \in [Names -> 0..Longest] /\ \A p \in Names \ open : left[p] = 0
  /\ count \in [Names -> 0..Rungs]
  /\ overtaken \in [Workers -> BOOLEAN]

LEMMA TypeParts == TypeOK <=> CallTypes /\ BreakerTypes
  BY DEF TypeOK, CallTypes, BreakerTypes, Places, Purposes, Outcomes

(* A call that goes on to a position, returns, passes its check or takes   *)
(* the next position keeps its types and its record of what was blocked.   *)
LEMMA LookAtKeeps ==
  ASSUME CallTypes, Progress, NEW w \in Workers, NEW j \in Positions, NEW why \in Purposes,
         LookAt(w, j, why, 1..(j - 1)), result' \in [Workers -> Outcomes], result'[w] = "none",
         \A v \in Workers : v # w => result'[v] = result[v]
  PROVE  CallTypes' /\ Progress'
<1>1. 1..(j - 1) \subseteq Positions /\ MaxRetries \in Nat /\ Rungs \in 1..4
  BY ChainFacts, ChainAssumption
<1>2. CallTypes'
  <2>1. \A passed \in SUBSET Positions :
          blocked' = [blocked EXCEPT ![w] = passed] => blocked' \in [Workers -> SUBSET Positions]
    BY DEF CallTypes
  <2>2. blocked' \in [Workers -> SUBSET Positions]
    BY <1>1, <2>1 DEF LookAt
  <2>3. pc' \in [Workers -> Places] /\ at' \in [Workers -> Positions]
    BY DEF CallTypes, LookAt, Places
  <2>4. purpose' \in [Workers -> Purposes]
    BY DEF CallTypes, LookAt
  <2>5. attempt' \in [Workers -> 0..MaxRetries] /\ counted' \in [Workers -> 0..Rungs]
    BY <1>1 DEF CallTypes, LookAt
  <2> QED BY <2>2, <2>3, <2>4, <2>5 DEF CallTypes
<1>3. Progress'
  BY <1>1 DEF CallTypes, LookAt, Progress
<1> QED BY <1>2, <1>3

LEMMA ReturnKeeps ==
  ASSUME CallTypes, Progress, NEW w \in Workers, NEW r \in Outcomes, NEW found \in SUBSET Positions,
         Return(w, r, found), r = "error" => found = Positions
  PROVE  CallTypes' /\ Progress'
<1>1. MaxRetries \in Nat /\ Rungs \in 1..4
  BY ChainAssumption
<1>2. CallTypes'
  BY <1>1, ChainFacts DEF CallTypes, Return, Places, Purposes
<1>3. Progress'
  BY <1>1 DEF CallTypes, Return, Progress
<1> QED BY <1>2, <1>3

LEMMA AvailableKeeps ==
  ASSUME CallTypes, Progress, NEW w \in Workers, pc[w] # "idle", Available(w)
  PROVE  CallTypes' /\ Progress'
<1>1. result[w] = "none"
  BY DEF Progress
<1>2. CASE purpose[w] = "capabilities"
  BY <1>2, ReturnKeeps DEF Available, Outcomes
<1>3. CASE purpose[w] = "any"
  <2>1. LookAt(w, 1, "serve", 1..(1 - 1)) /\ result' = result
    BY <1>3 DEF Available
  <2> QED BY <1>1, <2>1, LookAtKeeps, ChainFacts DEF CallTypes, Purposes
<1>4. CASE purpose[w] = "serve"
  BY <1>4 DEF Available, CallTypes, Progress, Places
<1> QED BY <1>2, <1>3, <1>4 DEF CallTypes, Purposes

LEMMA AdvanceKeeps ==
  ASSUME CallTypes, Progress, NEW w \in Workers, pc[w] # "idle", Advance(w)
  PROVE  CallTypes' /\ Progress'
<1> DEFINE found == blocked[w] \cup {at[w]}
<1>1. result[w] = "none" /\ found = 1..at[w] /\ at[w] \in Positions
  BY ChainFacts DEF Progress, CallTypes
<1>2. CASE at[w] < Len(Chain)
  <2>1. LookAt(w, at[w] + 1, purpose[w], found) /\ result' = result
    BY <1>2 DEF Advance
  <2>2. at[w] + 1 \in Positions /\ found = 1..((at[w] + 1) - 1) /\ purpose[w] \in Purposes
    BY <1>1, <1>2, ChainFacts DEF CallTypes
  <2> QED BY <1>1, <2>1, <2>2, LookAtKeeps DEF CallTypes
<1>3. CASE ~(at[w] < Len(Chain))
  <2>1. found = Positions
    BY <1>1, <1>3, ChainFacts
  <2>2. Return(w, "none", {}) \/ Return(w, "error", found)
    BY <1>3 DEF Advance
  <2> QED BY <2>1, <2>2, ReturnKeeps DEF Outcomes
<1> QED BY <1>2, <1>3

-----------------------------------------------------------------------------
LEMMA InitHolds == Init => Inv
<1> SUFFICES ASSUME Init PROVE Inv
  OBVIOUS
<1>1. MaxRetries \in Nat /\ Rungs \in 1..4 /\ Longest \in Nat
  BY ChainAssumption
<1>2. CallTypes
  BY <1>1, ChainFacts DEF Init, CallTypes, Places, Purposes, Outcomes
<1>3. BreakerTypes
  BY <1>1 DEF Init, BreakerTypes
<1>4. Progress /\ Looked
  BY DEF Init, Progress, Looked
<1> QED BY <1>2, <1>3, <1>4, TypeParts DEF Inv

(* A step that leaves the breakers as they are and lets one task go on     *)
(* cannot disturb what the others looked at.                               *)
LEMMA OthersLooked ==
  ASSUME Looked, CallTypes, BreakerTypes, NEW w \in Workers,
         \A v \in Workers : v # w => pc'[v] = pc[v] /\ at'[v] = at[v] /\ overtaken'[v] = overtaken[v],
         \A p \in Names : Running(p)' => Running(p),
         pc'[w] \in {"unopen", "uncount", "ask"} /\ Running(Name(w))' => overtaken'[w]
  PROVE  Looked'
<1> SUFFICES ASSUME NEW v \in Workers, pc'[v] \in {"unopen", "uncount", "ask"}, Running(Name(v))'
             PROVE  overtaken'[v]
  BY DEF Looked
<1>1. CASE v = w
  BY <1>1
<1>2. CASE v # w
  <2>1. Name(v) \in Names /\ Name(v)' = Name(v)
    BY <1>2, ChainFacts DEF CallTypes, Name
  <2>2. Running(Name(v))
    BY <2>1 DEF Running
  <2> QED BY <1>2, <2>2 DEF Looked
<1> QED BY <1>1, <1>2

(* Every move of a task is one of these.                                   *)
LEMMA AvailableMoves ==
  ASSUME CallTypes, NEW w \in Workers, Available(w)
  PROVE  /\ \A v \in Workers : v # w => pc'[v] = pc[v] /\ at'[v] = at[v]
         /\ pc'[w] \in {"unopen", "uncount", "ask"} => pc'[w] = "ask" /\ at'[w] = at[w]
<1>1. CASE purpose[w] = "capabilities"
  BY <1>1 DEF CallTypes, Available, Return
<1>2. CASE purpose[w] = "any"
  BY <1>2 DEF CallTypes, Available, LookAt
<1>3. CASE purpose[w] = "serve"
  BY <1>3 DEF CallTypes, Available
<1> QED BY <1>1, <1>2, <1>3 DEF CallTypes, Purposes

LEMMA AdvanceMoves ==
  ASSUME CallTypes, NEW w \in Workers, Advance(w)
  PROVE  /\ \A v \in Workers : v # w => pc'[v] = pc[v] /\ at'[v] = at[v]
         /\ pc'[w] \in {"idle", "look"}
  BY DEF CallTypes, Advance, Return, LookAt

-----------------------------------------------------------------------------
LEMMA NextKeeps == Inv /\ [Next]_vars => Inv'
<1> SUFFICES ASSUME Inv, [Next]_vars PROVE Inv'
  OBVIOUS
<1>0. CallTypes /\ BreakerTypes /\ Progress /\ Looked
  BY TypeParts DEF Inv
<1> SUFFICES CallTypes' /\ BreakerTypes' /\ Progress' /\ Looked'
  BY TypeParts DEF Inv, TypeOK, CallTypes, BreakerTypes, Places, Purposes, Outcomes
<1> USE <1>0
<1>a. \A w \in Workers : Name(w) \in Names
  BY ChainFacts DEF CallTypes, Name
<1>b. MaxRetries \in Nat /\ Rungs \in 1..4 /\ Longest \in Nat
  BY ChainAssumption
<1>1. ASSUME NEW w \in Workers, Call(w) PROVE CallTypes' /\ BreakerTypes' /\ Progress' /\ Looked'
  <2>1. PICK why \in {"any", "capabilities"} : LookAt(w, 1, why, {})
    BY <1>1 DEF Call
  <2>2. LookAt(w, 1, why, 1..(1 - 1)) /\ why \in Purposes
    BY <2>1 DEF Purposes
  <2>3. CallTypes' /\ Progress'
    <3>1. result' = [result EXCEPT ![w] = "none"] /\ result' \in [Workers -> Outcomes]
      BY <1>1 DEF Call, CallTypes, Outcomes
    <3> QED BY <2>2, <3>1, LookAtKeeps, ChainFacts DEF CallTypes
  <2>4. BreakerTypes'
    BY <1>1 DEF Call, BreakerTypes, breaker
  <2>5. Looked'
    <3>1. pc' = [pc EXCEPT ![w] = "look"] /\ at' = [at EXCEPT ![w] = 1] /\ UNCHANGED <<open, left, overtaken>>
      BY <1>1, <2>1 DEF Call, LookAt, breaker
    <3> QED BY <3>1, OthersLooked DEF CallTypes, Running
  <2> QED BY <2>3, <2>4, <2>5
<1>2. ASSUME NEW w \in Workers, Look(w) PROVE CallTypes' /\ BreakerTypes' /\ Progress' /\ Looked'
  <2>1. pc[w] = "look" /\ UNCHANGED <<open, left, count>> /\ overtaken' = [overtaken EXCEPT ![w] = FALSE]
    BY <1>2 DEF Look, breaker
  <2>2. BreakerTypes'
    BY <2>1 DEF BreakerTypes
  <2>3. \A p \in Names : Running(p)' <=> Running(p)
    BY <2>1 DEF Running
  <2>4. CASE Name(w) \notin open /\ Available(w)
    <3>1. CallTypes' /\ Progress'
      BY <2>1, <2>4, AvailableKeeps
    <3>2. at'[w] = at[w] => ~Running(Name(w))'
      BY <2>1, <2>4 DEF Running, Name
    <3>3. \A v \in Workers : v # w => pc'[v] = pc[v] /\ at'[v] = at[v] /\ overtaken'[v] = overtaken[v]
      BY <2>1, <2>4, AvailableMoves DEF BreakerTypes
    <3>4. ~(pc'[w] \in {"unopen", "uncount", "ask"} /\ Running(Name(w))')
      BY <2>4, <3>2, AvailableMoves
    <3>5. Looked'
      BY <2>3, <3>3, <3>4, OthersLooked
    <3> QED BY <2>2, <3>1, <3>5
  <2>5. CASE Running(Name(w)) /\ Advance(w)
    <3>1. CallTypes' /\ Progress'
      BY <2>1, <2>5, AdvanceKeeps
    <3>2. \A v \in Workers : v # w => pc'[v] = pc[v] /\ at'[v] = at[v] /\ overtaken'[v] = overtaken[v]
      BY <2>1, <2>5, AdvanceMoves DEF BreakerTypes
    <3>3. pc'[w] \notin {"unopen", "uncount", "ask"}
      BY <2>5, AdvanceMoves
    <3>4. Looked'
      BY <2>3, <3>2, <3>3, OthersLooked
    <3> QED BY <2>2, <3>1, <3>4
  <2>6. CASE left[Name(w)] = 0 /\ pc' = [pc EXCEPT ![w] = "unopen"] /\ UNCHANGED <<purpose, at, attempt, counted, result, blocked>>
    <3>1. CallTypes'
      BY <2>6 DEF CallTypes, Places
    <3>2. Progress'
      BY <2>1, <2>6 DEF Progress, CallTypes
    <3>3. ~Running(Name(w))'
      BY <2>1, <2>6 DEF Running, Name
    <3> QED BY <2>1, <2>2, <2>3, <2>6, <3>1, <3>2, <3>3, OthersLooked DEF BreakerTypes, CallTypes
  <2> QED BY <1>2, <2>4, <2>5, <2>6 DEF Look
<1>3. ASSUME NEW w \in Workers, Unopen(w) PROVE CallTypes' /\ BreakerTypes' /\ Progress' /\ Looked'
  <2>1. CallTypes'
    BY <1>3 DEF Unopen, CallTypes, Places
  <2>2. BreakerTypes'
    BY <1>3, <1>a, <1>b DEF Unopen, BreakerTypes
  <2>3. Progress'
    BY <1>3 DEF Unopen, Progress, CallTypes
  <2>4. \A p \in Names : Running(p)' => Running(p)
    BY <1>3 DEF Unopen, Running, BreakerTypes
  <2>5. ~Running(Name(w))'
    BY <1>3 DEF Unopen, Running, Name
  <2>6. Looked'
    BY <1>3, <2>4, <2>5, OthersLooked DEF Unopen, CallTypes
  <2> QED BY <2>1, <2>2, <2>3, <2>6
<1>4. ASSUME NEW w \in Workers, Uncount(w) PROVE CallTypes' /\ BreakerTypes' /\ Progress' /\ Looked'
  <2>1. pc[w] = "uncount" /\ Available(w) /\ UNCHANGED <<open, left, overtaken>>
    BY <1>4 DEF Uncount
  <2>2. CallTypes' /\ Progress'
    BY <2>1, AvailableKeeps
  <2>3. BreakerTypes'
    BY <1>4, <1>a, <1>b DEF Uncount, BreakerTypes
  <2>4. \A p \in Names : Running(p)' <=> Running(p)
    BY <2>1 DEF Running
  <2>5. at'[w] = at[w] /\ Running(Name(w))' => overtaken'[w]
    BY <2>1 DEF Running, Name, Looked
  <2> QED BY <2>1, <2>2, <2>3, <2>4, <2>5, AvailableMoves, OthersLooked
<1>5. ASSUME NEW w \in Workers, Answered(w) PROVE CallTypes' /\ BreakerTypes' /\ Progress' /\ Looked'
  <2>1. CallTypes'
    BY <1>5 DEF Answered, CallTypes, Places
  <2>2. BreakerTypes'
    BY <1>5, <1>a, <1>b DEF Answered, BreakerTypes
  <2>3. Progress'
    BY <1>5 DEF Answered, Progress, CallTypes
  <2>4. Looked'
    BY <1>5, OthersLooked DEF Answered, CallTypes, Running
  <2> QED BY <2>1, <2>2, <2>3, <2>4
<1>6. ASSUME NEW w \in Workers, Close(w) PROVE CallTypes' /\ BreakerTypes' /\ Progress' /\ Looked'
  <2>1. Return(w, "response", blocked[w]) /\ blocked[w] \in SUBSET Positions
    BY <1>6 DEF Close, CallTypes
  <2>2. CallTypes' /\ Progress'
    BY <2>1, ReturnKeeps DEF Outcomes
  <2>3. BreakerTypes'
    BY <1>6, <1>a, <1>b DEF Close, BreakerTypes
  <2>4. \A p \in Names : Running(p)' => Running(p)
    BY <1>6 DEF Close, Running, BreakerTypes
  <2>5. \A v \in Workers : v # w => pc'[v] = pc[v] /\ at'[v] = at[v]
    BY <2>1 DEF Return, CallTypes
  <2>6. pc'[w] = "idle" /\ UNCHANGED overtaken
    BY <1>6, <2>1 DEF Close, Return, CallTypes
  <2> QED BY <2>2, <2>3, <2>4, <2>5, <2>6, OthersLooked
<1>7. ASSUME NEW w \in Workers, Rejected(w) PROVE CallTypes' /\ BreakerTypes' /\ Progress' /\ Looked'
  <2>1. pc[w] = "ask" /\ Advance(w) /\ UNCHANGED <<open, left, count, overtaken>>
    BY <1>7 DEF Rejected, breaker
  <2>2. CallTypes' /\ Progress'
    BY <2>1, AdvanceKeeps
  <2>3. BreakerTypes' /\ \A p \in Names : Running(p)' <=> Running(p)
    BY <2>1 DEF BreakerTypes, Running
  <2> QED BY <2>1, <2>2, <2>3, AdvanceMoves, OthersLooked
<1>8. ASSUME NEW w \in Workers, Retry(w) PROVE CallTypes' /\ BreakerTypes' /\ Progress' /\ Looked'
  <2>1. attempt[w] + 1 \in 0..MaxRetries
    BY <1>8, <1>b DEF Retry, CallTypes
  <2>2. CallTypes'
    BY <1>8, <2>1 DEF Retry, CallTypes
  <2>3. BreakerTypes'
    BY <1>8 DEF Retry, BreakerTypes, breaker
  <2>4. Progress' /\ Looked'
    BY <1>8 DEF Retry, Progress, Looked, Running, Name, breaker
  <2> QED BY <2>2, <2>3, <2>4
<1>9. ASSUME NEW w \in Workers, Failed(w) PROVE CallTypes' /\ BreakerTypes' /\ Progress' /\ Looked'
  <2>1. \A n \in 0..Rungs : Increment(n) \in 0..Rungs
    BY <1>b DEF Increment
  <2>2. count[Name(w)] \in 0..Rungs
    BY <1>a DEF BreakerTypes
  <2>3. BreakerTypes'
    BY <1>9, <1>a, <2>1, <2>2 DEF Failed, BreakerTypes
  <2>4. CallTypes'
    BY <1>9, <2>1, <2>2 DEF Failed, CallTypes, Places
  <2>5. Progress'
    BY <1>9 DEF Failed, Progress, CallTypes
  <2>6. Looked'
    BY <1>9, OthersLooked DEF Failed, CallTypes, Running
  <2> QED BY <2>3, <2>4, <2>5, <2>6
<1>10. ASSUME NEW w \in Workers, Open(w) PROVE CallTypes' /\ BreakerTypes' /\ Progress' /\ Looked'
  <2>1. pc[w] = "open" /\ Advance(w)
    BY <1>10 DEF Open
  <2>2. CallTypes' /\ Progress'
    BY <2>1, AdvanceKeeps
  <2>3. Cooldown(counted[w]) \in 0..Longest
    BY CooldownBounded DEF CallTypes
  <2>4. left' \in [Names -> 0..Longest] /\ open' = open \cup {Name(w)}
    BY <1>10, <1>a, <2>3 DEF Open, BreakerTypes
  <2>5. BreakerTypes'
    BY <1>10, <1>a, <2>4 DEF Open, BreakerTypes
  <2>6. Looked'
    <3> SUFFICES ASSUME NEW v \in Workers, pc'[v] \in {"unopen", "uncount", "ask"}, Running(Name(v))'
                 PROVE  overtaken'[v]
      BY DEF Looked
    <3>1. v # w /\ pc'[v] = pc[v] /\ at'[v] = at[v]
      BY <2>1, AdvanceMoves
    <3>2. Name(v)' = Name(v) /\ Name(v) \in Names
      BY <3>1, <1>a DEF Name
    <3>3. CASE Name(v) = Name(w)
      BY <1>10, <3>1, <3>3 DEF Open
    <3>4. CASE Name(v) # Name(w)
      <4>1. Running(Name(v))
        BY <1>10, <3>2, <3>4 DEF Open, Running, BreakerTypes
      <4> QED BY <1>10, <3>1, <4>1 DEF Open, Looked
    <3> QED BY <3>3, <3>4
  <2> QED BY <2>2, <2>5, <2>6
<1>11. ASSUME Tick PROVE CallTypes' /\ BreakerTypes' /\ Progress' /\ Looked'
  <2>1. left' = [p \in Names |-> IF left[p] > 0 THEN left[p] - 1 ELSE 0] /\ UNCHANGED open
    BY <1>11 DEF Tick
  <2>2. BreakerTypes'
    BY <1>11, <1>b DEF Tick, BreakerTypes
  <2>3. CallTypes' /\ Progress'
    BY <1>11 DEF Tick, CallTypes, Progress
  <2>4. \A p \in Names : Running(p)' => Running(p)
    BY <2>1 DEF Running
  <2>5. Looked'
    BY <1>11, <1>a, <2>4 DEF Tick, Looked, Name, Running
  <2> QED BY <2>2, <2>3, <2>5
<1>12. CASE UNCHANGED vars
  BY <1>12 DEF vars, breaker, CallTypes, BreakerTypes, Progress, Looked, Running, Name
<1> QED BY <1>1, <1>2, <1>3, <1>4, <1>5, <1>6, <1>7, <1>8, <1>9, <1>10, <1>11, <1>12 DEF Next, Step

LEMMA Invariance == Spec => []Inv
<1> QED BY InitHolds, NextKeeps, PTL DEF Spec

-----------------------------------------------------------------------------
(* Every variable keeps its type: cooldowns never exceed the longest, and  *)
(* no call makes more attempts at a provider than it may.                  *)
THEOREM TypeCorrect == Spec => []TypeOK
<1>1. Inv => TypeOK
  BY DEF Inv
<1> QED BY <1>1, Invariance, PTL

(* A provider whose breaker is open gets no call that had not looked at it *)
(* before, for all interleavings of looks, recoveries and failures.        *)
THEOREM DeadProviderSpared == Spec => []Spared
<1>1. Inv => Spared
  BY DEF Inv, Looked, Spared
<1> QED BY <1>1, Invariance, PTL

(* A call fails only after all providers of the chain.                     *)
THEOREM FailsOnlyAfterAll == Spec => []GivesUpLast
<1>1. Inv => GivesUpLast
  BY DEF Inv, Progress, GivesUpLast
<1> QED BY <1>1, Invariance, PTL

-----------------------------------------------------------------------------
(* The kinds of failures (ProviderErrors).                                 *)
FamilySet == {"RateLimit", "Billing", "Timeout", "AuthError", "BadRequest", "ServerError"}
Kinds == FamilySet \cup {"Unknown"}
FailureSet == [status : Nat, found : SUBSET FamilySet]

(* The failures that were met are all worth another attempt but for the    *)
(* last one, and there is an attempt left while the provider is asked.     *)
ErrorsInv ==
  /\ met \in Seq(FailureSet) /\ stage \in {"asking", "answered", "passedOver"} /\ recorded \in {0, 1}
  /\ met = <<>> => stage # "passedOver" /\ recorded = 0
  /\ stage = "asking" => Len(met) <= MostRetries
  /\ ErrorsAreSorted

LEMMA KindFacts ==
  /\ \A found \in SUBSET FamilySet : OfText(found) \in Kinds
  /\ \A found \in SUBSET FamilySet :
       "Timeout" \in found /\ found \cap {"RateLimit", "Billing"} = {} => OfText(found) = "Timeout"
  /\ \A failure \in FailureSet : Kind(failure) \in Kinds
  /\ {Families[i] : i \in DOMAIN Families} = FamilySet
<1>1. /\ DOMAIN Families = 1..6
      /\ Families[1] = "RateLimit" /\ Families[2] = "Billing" /\ Families[3] = "Timeout"
      /\ Families[4] = "AuthError" /\ Families[5] = "BadRequest" /\ Families[6] = "ServerError"
  BY DEF Families
<1>2. \A i \in 1..6 : Families[i] \in FamilySet
  BY <1>1 DEF FamilySet
<1>3. {Families[i] : i \in DOMAIN Families} = FamilySet
  BY <1>1, <1>2 DEF FamilySet
<1>4. ASSUME NEW found \in SUBSET FamilySet
      PROVE  /\ OfText(found) \in Kinds
             /\ "Timeout" \in found /\ found \cap {"RateLimit", "Billing"} = {} => OfText(found) = "Timeout"
  <2> DEFINE hits == {i \in DOMAIN Families : Families[i] \in found}
  <2>1. CASE hits = {}
    <3>1. OfText(found) = "Unknown"
      BY <2>1 DEF OfText
    <3>2. "Timeout" \notin found
      BY <2>1, <1>1
    <3> QED BY <3>1, <3>2 DEF Kinds
  <2>2. CASE hits # {}
    <3>1. PICK least \in hits : \A j \in hits : least <= j
      <4>1. \A i \in hits : i \in 1..6
        BY <1>1
      <4>2. CASE 1 \in hits
        BY <4>1, <4>2
      <4>3. CASE 1 \notin hits /\ 2 \in hits
        BY <4>1, <4>3
      <4>4. CASE 1 \notin hits /\ 2 \notin hits /\ 3 \in hits
        BY <4>1, <4>4
      <4>5. CASE 1 \notin hits /\ 2 \notin hits /\ 3 \notin hits /\ 4 \in hits
        BY <4>1, <4>5
      <4>6. CASE 1 \notin hits /\ 2 \notin hits /\ 3 \notin hits /\ 4 \notin hits /\ 5 \in hits
        BY <4>1, <4>6
      <4>7. CASE 1 \notin hits /\ 2 \notin hits /\ 3 \notin hits /\ 4 \notin hits /\ 5 \notin hits /\ 6 \in hits
        BY <4>1, <4>7
      <4>8. \A i \in 1..6 : i = 1 \/ i = 2 \/ i = 3 \/ i = 4 \/ i = 5 \/ i = 6
        OBVIOUS
      <4> HIDE DEF hits
      <4> QED BY <4>1, <4>2, <4>3, <4>4, <4>5, <4>6, <4>7, <4>8, <2>2
    <3>2. \A i \in hits : (\A j \in hits : i <= j) => i = least
      BY <3>1, <1>1
    <3>3. (CHOOSE i \in hits : \A j \in hits : i <= j) = least
      <4> HIDE DEF hits
      <4> QED BY <3>1, <3>2
    <3>4. OfText(found) = Families[least]
      BY <3>3, <2>2 DEF OfText
    <3>5. "Timeout" \in found /\ found \cap {"RateLimit", "Billing"} = {} => least = 3
      <4> SUFFICES ASSUME "Timeout" \in found, found \cap {"RateLimit", "Billing"} = {} PROVE least = 3
        OBVIOUS
      <4>1. 3 \in hits /\ 1 \notin hits /\ 2 \notin hits
        BY <1>1
      <4> QED BY <4>1, <3>1, <1>1
    <3> QED BY <3>1, <3>4, <3>5, <1>1, <1>2 DEF Kinds
  <2> QED BY <2>1, <2>2
<1>5. ASSUME NEW failure \in FailureSet PROVE Kind(failure) \in Kinds
  BY <1>4 DEF Kind, OfStatus, Kinds, FamilySet, FailureSet
<1> QED BY <1>3, <1>4, <1>5

LEMMA FailureKeeps ==
  ASSUME ErrorsInv, NEW failure \in FailureSet, Fails(failure)
  PROVE  ErrorsInv'
<1>1. PICK n \in Nat : n = Len(met) /\ n <= MostRetries
  BY DEF ErrorsInv, Fails
<1>2. /\ met' = Append(met, failure) /\ met \in Seq(FailureSet) /\ stage = "asking" /\ recorded = 0
      /\ \A i \in 1..n : IsRetryable(Kind(met[i]))
  <2>1. recorded = 0 /\ (met # <<>> => IsRetryable(Kind(met[Len(met)]))) /\ \A i \in 1..Len(met) - 1 : IsRetryable(Kind(met[i]))
    BY DEF ErrorsInv, Fails, ErrorsAreSorted, ArmsAgreeWithTable
  <2> QED BY <1>1, <2>1 DEF ErrorsInv, Fails
<1>3. /\ met' \in Seq(FailureSet) /\ Len(met') = n + 1 /\ met'[n + 1] = failure
      /\ \A i \in 1..n : met'[i] = met[i]
  BY <1>1, <1>2
<1>4. PICK kind \in Kinds : kind = Kind(failure)
  BY KindFacts
<1>5. AfterKind(kind) /\ MostRetries \in Nat
  BY <1>4, ProviderErrorsAssumption DEF Fails
<1>6. \/ kind \in {"AuthError", "BadRequest"} /\ stage' = "passedOver" /\ recorded' = 0
      \/ kind \in {"RateLimit", "Billing"} /\ stage' = "passedOver" /\ recorded' = 1
      \/ IsRetryable(kind) /\ n < MostRetries /\ stage' = "asking" /\ recorded' = 0
      \/ IsRetryable(kind) /\ n = MostRetries /\ stage' = "passedOver" /\ recorded' = 1
  BY <1>1, <1>2, <1>5 DEF AfterKind, Kinds, FamilySet, IsRetryable
<1>7. ArmsAgreeWithTable'
  <2>1. \A i \in 1..n : IsRetryable(Kind(met'[i]))
    BY <1>2, <1>3
  <2>2. Kind(met'[n + 1]) = kind /\ Len(met') = n + 1 /\ n + 1 - 1 = n /\ n + 1 <= MostRetries + 1
    BY <1>1, <1>3, <1>4, <1>5
  <2>3. stage' # "passedOver" => IsRetryable(kind) /\ recorded' = 0
    BY <1>6
  <2>4. stage' = "passedOver" => recorded' = IF CountsAsCircuitFailure(kind) THEN 1 ELSE 0
    BY <1>6 DEF CountsAsCircuitFailure, IsRetryable
  <2> QED BY <2>1, <2>2, <2>3, <2>4 DEF ArmsAgreeWithTable
<1>8. TimeoutsAreRetried'
  <2> SUFFICES ASSUME NEW i \in 1..n + 1, met'[i].status = 0, "Timeout" \in met'[i].found,
                      met'[i].found \cap {"RateLimit", "Billing"} = {}
               PROVE  i < n + 1 \/ stage' # "passedOver" \/ (n + 1 = MostRetries + 1 /\ recorded' = 1)
    BY <1>3 DEF TimeoutsAreRetried
  <2>1. CASE i = n + 1
    <3>1. kind = "Timeout"
      BY <2>1, <1>3, <1>4, KindFacts DEF Kind, FailureSet
    <3> QED BY <3>1, <1>6
  <2> QED BY <2>1
<1>9. /\ stage' \in {"asking", "answered", "passedOver"} /\ recorded' \in {0, 1} /\ met' # <<>>
      /\ stage' = "asking" => n + 1 <= MostRetries
  BY <1>1, <1>3, <1>5, <1>6
<1> QED BY <1>3, <1>7, <1>8, <1>9 DEF ErrorsInv, ErrorsAreSorted

(* What the chain does about a failure agrees with the table of its kinds, *)
(* and a request that timed out is sent again, for any statuses, texts and *)
(* number of attempts (reliable.rs, chat_inner and error.rs).              *)
THEOREM FailuresAreSorted == ErrorsSpec => []ErrorsAreSorted
<1>1. ErrorsInit => ErrorsInv
  BY ProviderErrorsAssumption DEF ErrorsInit, ErrorsInv, ErrorsAreSorted, ArmsAgreeWithTable, TimeoutsAreRetried
<1>2. ErrorsInv /\ [ErrorsNext]_errorVars => ErrorsInv'
  <2> SUFFICES ASSUME ErrorsInv, [ErrorsNext]_errorVars PROVE ErrorsInv'
    OBVIOUS
  <2>1. CASE Succeeds
    BY <2>1 DEF Succeeds, ErrorsInv, ErrorsAreSorted, ArmsAgreeWithTable, TimeoutsAreRetried
  <2>2. ASSUME NEW s \in Statuses, NEW f \in (IF s = 0 THEN SUBSET {Families[i] : i \in DOMAIN Families} ELSE {{}}),
               Fails([status |-> s, found |-> f])
        PROVE  ErrorsInv'
    <3>1. [status |-> s, found |-> f] \in FailureSet
      BY ProviderErrorsAssumption, KindFacts DEF FailureSet
    <3> QED BY <3>1, <2>2, FailureKeeps
  <2>3. CASE UNCHANGED errorVars
    BY <2>3 DEF errorVars, ErrorsInv, ErrorsAreSorted, ArmsAgreeWithTable, TimeoutsAreRetried
  <2> QED BY <2>1, <2>2, <2>3 DEF ErrorsNext
<1>3. ErrorsInv => ErrorsAreSorted
  BY DEF ErrorsInv
<1> QED BY <1>1, <1>2, <1>3, PTL DEF ErrorsSpec

-----------------------------------------------------------------------------
(* The tool loop.  First what Anthropic is sent of a context.              *)

CallIds == Nat \X Nat
Messages == [role : {"system", "user", "assistant", "tool"}, calls : Seq(CallIds), answers : Seq(CallIds)]
SentMessages == [role : {"user", "assistant", "tool"}, calls : Seq(CallIds), answers : Seq(CallIds), from : SUBSET Nat]
Runs == [out : Seq(SentMessages), results : Seq(CallIds), of : SUBSET Nat]

Answers(m, id) == m.answers = <<id>> /\ m.calls = <<>> /\ m.role # "system"

(* Calls are followed by their results, and results follow their calls.    *)
CallsAnswered(chat) ==
  \A p \in DOMAIN chat : chat[p].calls # <<>> =>
    /\ chat[p].answers = <<>> /\ chat[p].role # "system"
    /\ p + Len(chat[p].calls) <= Len(chat)
    /\ \A k \in DOMAIN chat[p].calls : Answers(chat[p + k], chat[p].calls[k])
AnswersCalled(chat) ==
  \A q \in DOMAIN chat : chat[q].answers # <<>> =>
    \E p \in DOMAIN chat : \E k \in DOMAIN chat[p].calls : q = p + k
Paired(chat) == CallsAnswered(chat) /\ AnswersCalled(chat)

Froms(out) == UNION {out[j].from : j \in DOMAIN out}
Systems(chat, i) == {x \in 1..i : chat[x].role = "system"}
InOrder(out) == \A j, k \in DOMAIN out : j < k => \A x \in out[j].from, y \in out[k].from : x < y

(* Of the first i messages nothing is missing, and nothing is out of order.*)
WholeRun(chat, i, run) ==
  /\ run \in Runs
  /\ (run.results = <<>>) <=> (run.of = {})
  /\ Froms(run.out) \cup run.of \cup Systems(chat, i) = 1..i
  /\ InOrder(run.out)
  /\ \A j \in DOMAIN run.out : \A x \in run.out[j].from, y \in run.of : x < y

Within(chat, p, i) == p \in 1..i /\ chat[p].calls # <<>> /\ i <= p + Len(chat[p].calls)

LastCalls(out) == IF out = <<>> THEN <<>> ELSE out[Len(out)].calls

(* Every call but the last has its results behind it, and the last those   *)
(* that were come to.                                                      *)
PairedRun(chat, i, run) ==
  LET out == run.out
  IN /\ \A j \in DOMAIN out : out[j].calls # <<>> /\ j < Len(out) => out[j + 1].answers = out[j].calls
     /\ \A j \in DOMAIN out : out[j].answers # <<>> => j > 1 /\ out[j - 1].calls = out[j].answers
     /\ \A p \in 1..i : Within(chat, p, i) =>
          /\ LastCalls(out) = chat[p].calls
          /\ Len(run.results) = i - p /\ \A k \in 1..i - p : run.results[k] = chat[p].calls[k]
     /\ LastCalls(out) # <<>> => run.results = LastCalls(out) \/ \E p \in 1..i : Within(chat, p, i) /\ i < p + Len(chat[p].calls)
     /\ run.results # <<>> => LastCalls(out) # <<>>

(* Every set of natural numbers that is not empty has a least element.     *)
LEMMA LeastNumber ==
  ASSUME NEW S \in SUBSET Nat, S # {}
  PROVE  \E n \in S : \A m \in S : n <= m
<1>1. \E n \in S : \A m \in S : ~(<<m, n>> \in OpToRel(<, Nat))
  BY NatLessThanWellFounded, WFMin
<1>2. PICK n \in S : \A m \in S : <<m, n>> \notin OpToRel(<, Nat)
  BY <1>1
<1>3. ASSUME NEW m \in S PROVE n <= m
  <2>1. <<m, n>> \notin {ss \in Nat \X Nat : ss[1] < ss[2]}
    BY <1>2, Zenon DEF OpToRel
  <2>2. ~(m < n)
    BY <2>1
  <2> QED BY <2>2
<1> QED BY <1>3


(* Built takes one message after the other.                                *)
BuiltStep(chat, f, i) ==
  IF i = 0 THEN [out |-> <<>>, results |-> <<>>, of |-> {}] ELSE WithMessage(f[i - 1], chat[i], i)

LEMMA BuiltIs ==
  ASSUME NEW chat, Len(chat) \in Nat
  PROVE  \A i \in 0 .. Len(chat) : Built(chat)[i] = BuiltStep(chat, Built(chat), i)
<1> PICK n \in Nat : n = Len(chat)
  OBVIOUS
<1> DEFINE Fits(k, f) == f = [i \in 0..k |-> BuiltStep(chat, f, i)]
           bad == {k \in 0..n : \A f : ~Fits(k, f)}
<1>1. bad = {}
  <2> SUFFICES ASSUME bad # {} PROVE FALSE
    OBVIOUS
  <2>1. PICK b \in bad : \A k \in bad : b <= k
    <3>1. bad \in SUBSET Nat
      OBVIOUS
    <3> HIDE DEF bad
    <3> QED BY <3>1, LeastNumber
  <2>2. b \in 0..n /\ \A f : ~Fits(b, f)
    OBVIOUS
  <2>3. CASE b = 0
    <3> DEFINE f == [i \in 0..0 |-> BuiltStep(chat, <<>>, 0)]
    <3>1. \A i \in 0..0 : f[i] = BuiltStep(chat, f, i)
      BY DEF BuiltStep
    <3>2. f = [i \in 0..0 |-> f[i]]
      OBVIOUS
    <3>3. Fits(0, f)
      <4> HIDE DEF f
      <4> QED BY <3>1, <3>2
    <3> HIDE DEF Fits
    <3> QED BY <2>2, <2>3, <3>3
  <2>4. CASE b # 0
    <3> PICK c \in Nat : c = b - 1 /\ b = c + 1
      BY <2>2, <2>4
    <3>1. \E f : Fits(c, f)
      <4>1. c \in 0..n /\ ~(b <= c)
        BY <2>2
      <4>2. c \notin bad
        <5> HIDE DEF bad
        <5> QED BY <2>1, <4>1
      <4> QED BY <4>1, <4>2
    <3>2. PICK f : Fits(c, f)
      <4> HIDE DEF Fits
      <4> QED BY <3>1
    <3> DEFINE g == [i \in 0..b |-> IF i = b THEN BuiltStep(chat, f, b) ELSE f[i]]
    <3>3. \A i \in 0..c : f[i] = BuiltStep(chat, f, i)
      BY <3>2
    <3>4. \A i \in 0..b : g[i] = BuiltStep(chat, f, i)
      BY <3>3
    <3>5. \A i \in 0..b : BuiltStep(chat, g, i) = BuiltStep(chat, f, i)
      <4>1. ASSUME NEW i \in 0..b, i # 0 PROVE g[i - 1] = f[i - 1]
        <5>1. i - 1 \in 0..b /\ i - 1 # b
          BY <2>2, <4>1
        <5> QED BY <5>1, Zenon
      <4> HIDE DEF g
      <4> QED BY <4>1 DEF BuiltStep
    <3>6. g = [i \in 0..b |-> g[i]]
      OBVIOUS
    <3>7. Fits(b, g)
      <4> HIDE DEF g
      <4> QED BY <3>4, <3>5, <3>6
    <3> HIDE DEF Fits
    <3> QED BY <2>2, <3>7
  <2> QED BY <2>3, <2>4
<1>2. PICK f : Fits(n, f)
  <2>1. \E f : Fits(n, f)
    <3>1. n \in 0..n /\ n \notin bad
      BY <1>1
    <3> QED BY <3>1
  <2> HIDE DEF Fits
  <2> QED BY <2>1
<1>3. f = [i \in 0 .. Len(chat) |->
             IF i = 0 THEN [out |-> <<>>, results |-> <<>>, of |-> {}] ELSE WithMessage(f[i - 1], chat[i], i)]
  BY <1>2, Zenon DEF BuiltStep
<1>4. Built(chat) = [i \in 0 .. Len(chat) |->
             IF i = 0 THEN [out |-> <<>>, results |-> <<>>, of |-> {}] ELSE WithMessage(Built(chat)[i - 1], chat[i], i)]
  BY <1>3, Zenon DEF Built
<1>5. Built(chat) = [i \in 0..n |-> BuiltStep(chat, Built(chat), i)]
  BY <1>4, Zenon DEF BuiltStep
<1> QED BY <1>5

(* One more is sent.                                                       *)
LEMMA SentLast ==
  ASSUME NEW out \in Seq(SentMessages), NEW e \in SentMessages
  PROVE  /\ Append(out, e) \in Seq(SentMessages)
         /\ Len(out) \in Nat /\ DOMAIN out = 1 .. Len(out) /\ (Len(out) = 0 <=> out = <<>>)
         /\ Len(Append(out, e)) = Len(out) + 1 /\ DOMAIN Append(out, e) = 1 .. Len(out) + 1
         /\ \A j \in 1 .. Len(out) : Append(out, e)[j] = out[j]
         /\ Append(out, e)[Len(out) + 1] = e
OBVIOUS

LEMMA SentInOrder ==
  ASSUME NEW out \in Seq(SentMessages), NEW e \in SentMessages, InOrder(out),
         \A j \in DOMAIN out : \A x \in out[j].from, y \in e.from : x < y
  PROVE  InOrder(Append(out, e)) /\ Froms(Append(out, e)) = Froms(out) \cup e.from
<1> PICK all : all = Append(out, e)
  OBVIOUS
<1> PICK n \in Nat : n = Len(out)
  BY SentLast
<1>1. /\ DOMAIN out = 1..n /\ DOMAIN all = 1 .. n + 1 /\ all[n + 1] = e
      /\ \A j \in 1..n : all[j] = out[j]
  BY SentLast
<1>2. \A j \in 1 .. n + 1 : j \in 1..n \/ j = n + 1
  OBVIOUS
<1>3. InOrder(all)
  <2> SUFFICES ASSUME NEW j \in DOMAIN all, NEW k \in DOMAIN all, j < k, NEW x \in all[j].from, NEW y \in all[k].from
               PROVE  x < y
    BY DEF InOrder
  <2>1. j \in 1..n /\ all[j] = out[j]
    BY <1>1
  <2>2. CASE k \in 1..n
    BY <1>1, <2>1, <2>2 DEF InOrder
  <2>3. CASE k = n + 1
    BY <1>1, <2>1, <2>3
  <2> QED BY <1>1, <1>2, <2>2, <2>3
<1>4. Froms(all) = Froms(out) \cup e.from
  <2>1. \A x : x \in Froms(all) <=> \E j \in 1 .. n + 1 : x \in all[j].from
    BY <1>1 DEF Froms
  <2>2. \A x : x \in Froms(out) <=> \E j \in 1..n : x \in out[j].from
    BY <1>1 DEF Froms
  <2>3. \A x : (\E j \in 1 .. n + 1 : x \in all[j].from) <=> (\E j \in 1..n : x \in out[j].from) \/ x \in e.from
    BY <1>1, <1>2
  <2> QED BY <2>1, <2>2, <2>3
<1> QED BY <1>3, <1>4

(* Whatever a context is, all of it is sent, and in its order.             *)
LEMMA FlushedWhole ==
  ASSUME NEW chat, NEW i \in Nat, NEW run, WholeRun(chat, i, run)
  PROVE  /\ Flushed(run) \in Seq(SentMessages) /\ InOrder(Flushed(run))
         /\ Froms(Flushed(run)) \cup Systems(chat, i) = 1..i
<1>1. run.out \in Seq(SentMessages) /\ run.results \in Seq(CallIds) /\ run.of \in SUBSET Nat
  BY DEF WholeRun, Runs
<1>2. CASE run.results = <<>>
  BY <1>1, <1>2, Zenon DEF WholeRun, Flushed
<1>3. CASE run.results # <<>>
  <2> PICK e : e = Sent("user", <<>>, run.results, run.of)
    OBVIOUS
  <2>1. e \in SentMessages /\ e.from = run.of
    BY <1>1 DEF Sent, SentMessages
  <2>2. Flushed(run) = Append(run.out, e)
    BY <1>3 DEF Flushed
  <2>3. InOrder(run.out) /\ \A j \in DOMAIN run.out : \A x \in run.out[j].from, y \in e.from : x < y
    BY <2>1 DEF WholeRun
  <2>4. /\ Append(run.out, e) \in Seq(SentMessages)
        /\ InOrder(Append(run.out, e)) /\ Froms(Append(run.out, e)) = Froms(run.out) \cup e.from
    BY <1>1, <2>1, <2>3, SentInOrder, SentLast
  <2> QED BY <2>1, <2>2, <2>4 DEF WholeRun
<1> QED BY <1>2, <1>3

LEMMA RunsAre ==
  ASSUME NEW out \in Seq(SentMessages), NEW results \in Seq(CallIds), NEW of \in SUBSET Nat
  PROVE  LET run == [out |-> out, results |-> results, of |-> of]
         IN run \in Runs /\ run.out = out /\ run.results = results /\ run.of = of
BY DEF Runs

LEMMA TakenWhole ==
  ASSUME NEW chat \in Seq(Messages), NEW i \in 1 .. Len(chat), NEW run, WholeRun(chat, i - 1, run)
  PROVE  WholeRun(chat, i, WithMessage(run, chat[i], i))
<1> PICK m \in Messages : m = chat[i]
  OBVIOUS
<1> PICK h \in Nat : h = i - 1 /\ i = h + 1 /\ i \in Nat
  OBVIOUS
<1>1. /\ run \in Runs /\ run.out \in Seq(SentMessages) /\ run.results \in Seq(CallIds) /\ run.of \in SUBSET Nat
      /\ m.answers \in Seq(CallIds) /\ m.calls \in Seq(CallIds)
  BY DEF WholeRun, Runs, Messages
<1>2. /\ (run.results = <<>>) <=> (run.of = {})
      /\ Froms(run.out) \cup run.of \cup Systems(chat, h) = 1..h
      /\ InOrder(run.out)
      /\ \A j \in DOMAIN run.out : \A x \in run.out[j].from, y \in run.of : x < y
  BY DEF WholeRun
<1>3. 1..i = 1..h \cup {i}
  OBVIOUS
<1>4. m.role # "system" => Systems(chat, i) = Systems(chat, h)
  BY <1>3 DEF Systems
<1>5. \A x \in Froms(run.out) \cup run.of : x < i
  <2>1. \A x \in 1..h : x < i
    OBVIOUS
  <2> QED BY <1>2, <2>1
<1>6. \A j \in DOMAIN run.out : \A x \in run.out[j].from : x < i
  BY <1>5 DEF Froms
<1>7. CASE m.role = "system"
  <2>1. Systems(chat, i) = Systems(chat, h) \cup {i}
    BY <1>3, <1>7 DEF Systems
  <2>2. WithMessage(run, m, i) = run
    BY <1>7 DEF WithMessage
  <2> QED BY <1>1, <1>2, <1>3, <2>1, <2>2 DEF WholeRun
<1>8. CASE m.role # "system" /\ m.answers # <<>>
  <2> PICK new : new = Gathered(run, m, i)
    OBVIOUS
  <2>1. WithMessage(run, m, i) = new
    BY <1>8 DEF WithMessage
  <2>2. new \in Runs /\ new.out = run.out /\ new.results = run.results \o m.answers /\ new.of = run.of \cup {i}
    <3>1. run.results \o m.answers \in Seq(CallIds) /\ run.of \cup {i} \in SUBSET Nat
      BY <1>1
    <3> QED BY <1>1, <3>1, RunsAre, Zenon DEF Gathered
  <2>3. new.results # <<>> /\ new.of # {}
    <3>1. run.results \o m.answers # <<>>
      BY <1>1, <1>8
    <3> QED BY <2>2, <3>1
  <2>4. Froms(new.out) \cup new.of \cup Systems(chat, i) = 1..i
    BY <1>2, <1>3, <1>4, <1>8, <2>2
  <2>5. \A j \in DOMAIN new.out : \A x \in new.out[j].from, y \in new.of : x < y
    BY <1>2, <1>6, <2>2
  <2> QED BY <1>2, <2>1, <2>2, <2>3, <2>4, <2>5 DEF WholeRun
<1>9. CASE m.role # "system" /\ m.answers = <<>>
  <2> PICK out : out = Flushed(run)
    OBVIOUS
  <2>e. PICK e : e = Sent(m.role, m.calls, <<>>, {i})
    OBVIOUS
  <2>1. out \in Seq(SentMessages) /\ InOrder(out) /\ Froms(out) \cup Systems(chat, h) = 1..h
    BY FlushedWhole
  <2>2. e \in SentMessages /\ e.from = {i}
    BY <1>1, <1>9, <2>e DEF Sent, SentMessages, Messages
  <2>3. \A j \in DOMAIN out : \A x \in out[j].from, y \in e.from : x < y
    <3>1. \A x \in Froms(out) : x \in 1..h
      BY <2>1
    <3>2. \A j \in DOMAIN out : \A x \in out[j].from : x \in 1..h
      BY <3>1 DEF Froms
    <3> QED BY <2>2, <3>2
  <2>4. /\ Append(out, e) \in Seq(SentMessages)
        /\ InOrder(Append(out, e)) /\ Froms(Append(out, e)) = Froms(out) \cup {i}
    <3>1. Append(out, e) \in Seq(SentMessages)
      BY <2>1, <2>2, SentLast
    <3>2. InOrder(Append(out, e)) /\ Froms(Append(out, e)) = Froms(out) \cup e.from
      BY <2>1, <2>2, <2>3, SentInOrder
    <3> QED BY <2>2, <3>1, <3>2
  <2> PICK new : new = [out |-> Append(out, e), results |-> <<>>, of |-> {}]
    OBVIOUS
  <2>5. WithMessage(run, m, i) = new
    BY <1>9, <2>e DEF WithMessage
  <2>6. new \in Runs /\ new.out = Append(out, e) /\ new.results = <<>> /\ new.of = {}
    BY <2>4 DEF Runs
  <2>7. Froms(new.out) \cup new.of \cup Systems(chat, i) = 1..i
    BY <1>3, <1>4, <1>9, <2>1, <2>4, <2>6
  <2> QED BY <2>4, <2>5, <2>6, <2>7 DEF WholeRun
<1> QED BY <1>7, <1>8, <1>9

LEMMA WholeRuns ==
  ASSUME NEW chat \in Seq(Messages)
  PROVE  \A i \in 0 .. Len(chat) : WholeRun(chat, i, Built(chat)[i])
<1> PICK n \in Nat : n = Len(chat)
  OBVIOUS
<1> PICK f : f = Built(chat)
  OBVIOUS
<1> DEFINE bad == {i \in 0..n : ~WholeRun(chat, i, f[i])}
<1>1. SUFFICES ASSUME bad # {} PROVE FALSE
  OBVIOUS
<1>2. PICK b \in bad : \A k \in bad : b <= k
  <2>1. bad \in SUBSET Nat
    OBVIOUS
  <2> HIDE DEF bad
  <2> QED BY <1>1, <2>1, LeastNumber
<1>3. b \in 0..n /\ ~WholeRun(chat, b, f[b]) /\ f[b] = BuiltStep(chat, f, b)
  BY BuiltIs
<1>4. CASE b = 0
  <2> PICK new : new = [out |-> <<>>, results |-> <<>>, of |-> {}]
    OBVIOUS
  <2>1. f[b] = new
    BY <1>3, <1>4 DEF BuiltStep
  <2>2. new \in Runs /\ new.out = <<>> /\ new.results = <<>> /\ new.of = {}
    BY DEF Runs
  <2>3. DOMAIN <<>> = {} /\ 1..0 = {}
    OBVIOUS
  <2>4. Froms(new.out) = {} /\ Systems(chat, 0) = {} /\ InOrder(new.out)
    BY <2>2, <2>3 DEF Froms, Systems, InOrder
  <2> QED BY <1>3, <1>4, <2>1, <2>2, <2>3, <2>4 DEF WholeRun
<1>5. CASE b # 0
  <2>1. b \in 1 .. Len(chat) /\ b - 1 \in 0..n /\ ~(b <= b - 1)
    BY <1>3, <1>5
  <2>2. WholeRun(chat, b - 1, f[b - 1])
    <3>1. b - 1 \notin bad
      <4> HIDE DEF bad
      <4> QED BY <1>2, <2>1
    <3> QED BY <2>1, <3>1
  <2>3. WholeRun(chat, b, WithMessage(f[b - 1], chat[b], b))
    BY <2>1, <2>2, TakenWhole
  <2> QED BY <1>3, <1>5, <2>3 DEF BuiltStep
<1> QED BY <1>4, <1>5

LEMMA AllIsSaid == context \in Seq(Messages) => NothingIsLeftUnsaid
<1> SUFFICES ASSUME context \in Seq(Messages) PROVE NothingIsLeftUnsaid
  OBVIOUS
<1> PICK n \in Nat : n = Len(context)
  OBVIOUS
<1> PICK out : out = BuildMessages(context)
  OBVIOUS
<1>1. InOrder(out) /\ Froms(out) \cup Systems(context, n) = 1..n /\ DOMAIN context = 1..n
  <2>1. WholeRun(context, n, Built(context)[n])
    BY WholeRuns
  <2>2. out = Flushed(Built(context)[n])
    BY DEF BuildMessages
  <2>3. InOrder(out) /\ Froms(out) \cup Systems(context, n) = 1..n
    BY <2>1, <2>2, FlushedWhole
  <2> QED BY <2>3
<1>2. FoldSystem(TRUE, context) = Systems(context, n)
  BY <1>1 DEF FoldSystem, Systems
<1>3. \A i, j \in DOMAIN out : i < j => \A m \in out[i].from, x \in out[j].from : m < x
  BY <1>1 DEF InOrder
<1> QED BY <1>1, <1>2, <1>3, Zenon DEF NothingIsLeftUnsaid, Froms

(* Of a context whose calls are answered, what is sent at the end of a run *)
(* pairs calls and results.                                                *)
PairedOut(out) ==
  \A j \in DOMAIN out :
    /\ out[j].calls # <<>> => j < Len(out) /\ out[j + 1].answers = out[j].calls
    /\ out[j].answers # <<>> => j > 1 /\ out[j - 1].calls = out[j].answers

LEMMA LastCallsOf ==
  ASSUME NEW out \in Seq(SentMessages), out # <<>>
  PROVE  Len(out) \in DOMAIN out /\ LastCalls(out) = out[Len(out)].calls
BY SentLast DEF LastCalls

LEMMA FlushedPaired ==
  ASSUME NEW chat, NEW i \in Nat, NEW run \in Runs, PairedRun(chat, i, run),
         \A p \in 1..i : Within(chat, p, i) => ~(i < p + Len(chat[p].calls))
  PROVE  /\ PairedOut(Flushed(run)) /\ Flushed(run) \in Seq(SentMessages) /\ LastCalls(Flushed(run)) = <<>>
<1> PICK out \in Seq(SentMessages) : out = run.out
  BY DEF Runs
<1> PICK n \in Nat : n = Len(out)
  BY SentLast
<1>0. /\ DOMAIN out = 1..n /\ run.results \in Seq(CallIds) /\ run.of \in SUBSET Nat
      /\ (n = 0 <=> out = <<>>)
  BY SentLast DEF Runs
<1>1. /\ \A j \in 1..n : out[j].calls # <<>> /\ j < n => out[j + 1].answers = out[j].calls
      /\ \A j \in 1..n : out[j].answers # <<>> => j > 1 /\ out[j - 1].calls = out[j].answers
      /\ LastCalls(out) # <<>> => run.results = LastCalls(out)
      /\ run.results # <<>> => LastCalls(out) # <<>>
  BY <1>0, Zenon DEF PairedRun
<1>2. n # 0 => LastCalls(out) = out[n].calls
  BY <1>0, LastCallsOf
<1>3. CASE run.results = <<>>
  <2>1. Flushed(run) = out /\ LastCalls(out) = <<>>
    BY <1>1, <1>3 DEF Flushed
  <2>2. \A j \in 1..n : out[j].calls # <<>> => j < n
    BY <1>2, <2>1
  <2> QED BY <1>0, <1>1, <2>1, <2>2 DEF PairedOut
<1>4. CASE run.results # <<>>
  <2>e. PICK e : e = Sent("user", <<>>, run.results, run.of)
    OBVIOUS
  <2>1. e \in SentMessages /\ e.calls = <<>> /\ e.answers = run.results
    BY <1>0, <2>e DEF Sent, SentMessages
  <2>a. PICK all : all = Append(out, e)
    OBVIOUS
  <2>2. /\ all \in Seq(SentMessages) /\ Len(all) = n + 1 /\ DOMAIN all = 1 .. n + 1
        /\ \A j \in 1..n : all[j] = out[j]
        /\ all[n + 1] = e
    BY <2>1, <2>a, SentLast
  <2>3. Flushed(run) = all
    BY <1>4, <2>a, <2>e DEF Flushed
  <2>4. n # 0 /\ out[n].calls = run.results
    <3>1. LastCalls(<<>>) = <<>>
      BY DEF LastCalls
    <3> QED BY <1>0, <1>1, <1>2, <1>4, <3>1
  <2>5. ASSUME NEW j \in 1 .. n + 1
        PROVE  /\ all[j].calls # <<>> => j < n + 1 /\ all[j + 1].answers = all[j].calls
               /\ all[j].answers # <<>> => j > 1 /\ all[j - 1].calls = all[j].answers
    <3>1. CASE j = n + 1
      <4>1. j - 1 = n /\ j > 1 /\ n \in 1..n
        BY <2>4, <3>1
      <4> QED BY <2>1, <2>2, <2>4, <3>1, <4>1
    <3>2. CASE j = n
      <4>1. j \in 1..n /\ j < n + 1 /\ j - 1 \in Int
        BY <2>4, <3>2
      <4>2. all[j] = out[j] /\ all[j + 1].answers = run.results
        BY <2>1, <2>2, <3>2, <4>1
      <4>3. j > 1 => all[j - 1] = out[j - 1]
        BY <2>2, <4>1
      <4> QED BY <1>1, <2>4, <3>2, <4>1, <4>2, <4>3
    <3>3. CASE j < n
      <4>1. j \in 1..n /\ j + 1 \in 1..n /\ j < n + 1
        BY <3>3
      <4>2. all[j] = out[j] /\ all[j + 1] = out[j + 1]
        BY <2>2, <4>1
      <4>3. j > 1 => all[j - 1] = out[j - 1]
        BY <2>2, <4>1
      <4> QED BY <1>1, <3>3, <4>1, <4>2, <4>3
    <3> QED BY <3>1, <3>2, <3>3
  <2>6. PairedOut(all)
    BY <2>2, <2>5, Zenon DEF PairedOut
  <2>7. LastCalls(all) = <<>>
    <3>1. all # <<>>
      BY <2>2
    <3> QED BY <2>1, <2>2, <3>1, LastCallsOf
  <2> QED BY <2>2, <2>3, <2>6, <2>7
<1> QED BY <1>3, <1>4

LEMMA MessageTypes ==
  ASSUME NEW chat \in Seq(Messages), NEW p \in 1 .. Len(chat)
  PROVE  /\ chat[p] \in Messages /\ chat[p].calls \in Seq(CallIds) /\ chat[p].answers \in Seq(CallIds)
         /\ Len(chat[p].calls) \in Nat /\ DOMAIN chat[p].calls = 1 .. Len(chat[p].calls)
<1>1. chat[p] \in Messages
  OBVIOUS
<1>2. chat[p].calls \in Seq(CallIds) /\ chat[p].answers \in Seq(CallIds)
  BY <1>1 DEF Messages
<1> QED BY <1>1, <1>2

(* Among the calls of one message nothing but their results comes.         *)
LEMMA WithinAnswers ==
  ASSUME NEW chat \in Seq(Messages), CallsAnswered(chat), NEW p \in Nat, NEW i \in 1 .. Len(chat), p < i, Within(chat, p, i)
  PROVE  Answers(chat[i], chat[p].calls[i - p]) /\ i - p \in 1 .. Len(chat[p].calls)
<1>1. p \in 1 .. Len(chat) /\ DOMAIN chat = 1 .. Len(chat)
  BY DEF Within
<1>2. chat[p].calls \in Seq(CallIds)
  BY <1>1, MessageTypes
<1>3. PICK l \in Nat : l = Len(chat[p].calls) /\ DOMAIN chat[p].calls = 1..l
  BY <1>2
<1>4. i - p \in 1..l /\ p + (i - p) = i
  BY <1>3 DEF Within
<1>5. \A k \in 1..l : Answers(chat[p + k], chat[p].calls[k])
  BY <1>1, <1>3, Zenon DEF CallsAnswered, Within
<1> QED BY <1>3, <1>4, <1>5

LEMMA TakenPaired ==
  ASSUME NEW chat \in Seq(Messages), Paired(chat), NEW i \in 1 .. Len(chat), NEW run \in Runs, PairedRun(chat, i - 1, run)
  PROVE  PairedRun(chat, i, WithMessage(run, chat[i], i))
<1>0. /\ CallsAnswered(chat) /\ AnswersCalled(chat) /\ DOMAIN chat = 1 .. Len(chat)
  BY DEF Paired
<1>m. PICK m \in Messages : m = chat[i]
  OBVIOUS
<1>h. PICK h \in Nat : h = i - 1 /\ i = h + 1 /\ i \in Nat
  OBVIOUS
<1>1. /\ run.out \in Seq(SentMessages) /\ run.results \in Seq(CallIds) /\ run.of \in SUBSET Nat
      /\ m.answers \in Seq(CallIds) /\ m.calls \in Seq(CallIds)
  BY DEF Runs, Messages
<1>2. PairedRun(chat, h, run)
  BY <1>h
<1>3. \A p \in 1..i : p \in 1..h \/ p = i
  BY <1>h
<1>4. ASSUME NEW p \in 1..h, Within(chat, p, i)
      PROVE  /\ Answers(m, chat[p].calls[i - p]) /\ i - p \in 1 .. Len(chat[p].calls)
             /\ Within(chat, p, h) /\ h < p + Len(chat[p].calls)
  <2>1. p < i /\ p \in Nat
    BY <1>h
  <2>2. Answers(m, chat[p].calls[i - p]) /\ i - p \in 1 .. Len(chat[p].calls)
    BY <1>0, <1>4, <1>m, <2>1, WithinAnswers
  <2>4. Len(chat[p].calls) \in Nat
    BY <1>h, MessageTypes
  <2> QED BY <1>4, <1>h, <2>2, <2>4 DEF Within
<1>5. \A p \in 1..h : Within(chat, p, h) /\ h < p + Len(chat[p].calls) => Within(chat, p, i)
  <2> SUFFICES ASSUME NEW p \in 1..h, Within(chat, p, h), h < p + Len(chat[p].calls) PROVE Within(chat, p, i)
    OBVIOUS
  <2>1. chat[p].calls \in Seq(CallIds)
    BY <1>0, <1>h, MessageTypes
  <2>2. Len(chat[p].calls) \in Nat
    BY <2>1
  <2> QED BY <1>h, <2>2 DEF Within
<1>6. m.calls # <<>> => m.answers = <<>> /\ m.role # "system"
  BY <1>0, <1>m DEF CallsAnswered
<1>7. CASE m.role = "system"
  <2>1. WithMessage(run, chat[i], i) = run
    BY <1>7, <1>m DEF WithMessage
  <2>2. \A p \in 1..i : ~Within(chat, p, i)
    <3>1. \A p \in 1..h : ~Within(chat, p, i)
      BY <1>4, <1>7 DEF Answers
    <3>2. ~Within(chat, i, i)
      BY <1>6, <1>7, <1>m DEF Within
    <3> QED BY <1>3, <3>1, <3>2
  <2>3. \A p \in 1..h : ~(Within(chat, p, h) /\ h < p + Len(chat[p].calls))
    BY <1>3, <1>5, <1>h, <2>2
  <2> QED BY <1>2, <2>1, <2>2, <2>3, Zenon DEF PairedRun
<1>8. CASE m.role # "system" /\ m.answers # <<>>
  <2>n. PICK new : new = WithMessage(run, m, i)
    OBVIOUS
  <2>1. new.out = run.out /\ new.results = run.results \o m.answers
    BY <1>8, <2>n DEF WithMessage, Gathered
  <2>2. PICK p \in 1..h : Within(chat, p, i)
    <3>1. PICK p \in DOMAIN chat : \E k \in DOMAIN chat[p].calls : i = p + k
      BY <1>0, <1>8, <1>m DEF AnswersCalled
    <3>2. chat[p].calls \in Seq(CallIds)
      BY <1>0, <3>1, MessageTypes
    <3>3. PICK k \in 1 .. Len(chat[p].calls) : i = p + k
      BY <3>1, <3>2
    <3>4. Len(chat[p].calls) \in Nat /\ chat[p].calls # <<>>
      BY <3>2, <3>3
    <3>5. p \in 1..h /\ i <= p + Len(chat[p].calls)
      BY <1>0, <1>h, <3>3, <3>4
    <3> QED BY <1>h, <3>4, <3>5 DEF Within
  <2>l. PICK calls \in Seq(CallIds) : calls = chat[p].calls
    BY <1>h, MessageTypes
  <2>3. /\ Answers(m, calls[i - p]) /\ i - p \in 1 .. Len(calls) /\ Len(calls) \in Nat
        /\ Within(chat, p, h) /\ calls # <<>>
    BY <1>4, <2>2, <2>l DEF Within
  <2>4. /\ LastCalls(run.out) = calls
        /\ Len(run.results) = h - p /\ \A k \in 1 .. h - p : run.results[k] = calls[k]
    BY <1>2, <2>3, <2>l, Zenon DEF PairedRun
  <2>a. PICK id \in CallIds : id = calls[i - p]
    BY <2>3
  <2>5. /\ Len(new.results) = i - p /\ DOMAIN new.results = 1 .. i - p /\ new.results \in Seq(CallIds)
        /\ \A k \in 1 .. i - p : new.results[k] = calls[k]
    <3>1. m.answers = <<id>>
      BY <2>3, <2>a DEF Answers
    <3>r. PICK rs \in Seq(CallIds) : rs = run.results
      BY <1>1
    <3>s. PICK l \in Nat : l = Len(rs)
      BY <3>r
    <3>2. new.results = rs \o <<id>>
      BY <2>1, <3>1, <3>r
    <3>3. rs \o <<id>> \in Seq(CallIds) /\ Len(rs \o <<id>>) = l + 1 /\ (rs \o <<id>>)[l + 1] = id
          /\ \A k \in 1..l : (rs \o <<id>>)[k] = rs[k]
      BY <3>s
    <3>4. l = h - p /\ l + 1 = i - p /\ i - p \in Nat
      BY <1>h, <2>2, <2>3, <2>4, <3>r, <3>s
    <3>5. \A k \in 1 .. i - p : k \in 1..l \/ k = l + 1
      BY <3>4
    <3>6. \A k \in 1..l : rs[k] = calls[k]
      BY <2>4, <3>4, <3>r
    <3>7. \A k \in 1 .. i - p : new.results[k] = calls[k]
      BY <2>a, <3>2, <3>3, <3>4, <3>5, <3>6
    <3>8. Len(new.results) = l + 1 /\ new.results \in Seq(CallIds)
      BY <3>2, <3>3
    <3>9. DOMAIN new.results = 1 .. Len(new.results)
      BY <3>8
    <3> QED BY <3>4, <3>7, <3>8, <3>9
  <2>6. ASSUME NEW q \in 1..i, Within(chat, q, i)
        PROVE  q = p
    <3>1. q \in 1..h
      <4>1. m.calls = <<>>
        BY <2>3 DEF Answers
      <4>2. q # i
        BY <1>m, <2>6, <4>1 DEF Within
      <4> QED BY <1>3, <4>2
    <3>2. Within(chat, q, h)
      BY <1>4, <2>6, <3>1
    <3>3. Len(run.results) = h - q
      BY <1>2, <3>1, <3>2, Zenon DEF PairedRun
    <3> QED BY <1>h, <2>4, <3>1, <3>3
  <2>7. \A q \in 1..i : Within(chat, q, i) =>
          /\ LastCalls(new.out) = chat[q].calls
          /\ Len(new.results) = i - q /\ \A k \in 1 .. i - q : new.results[k] = chat[q].calls[k]
    BY <2>1, <2>4, <2>5, <2>6, <2>l
  <2>8. new.results = calls \/ \E q \in 1..i : Within(chat, q, i) /\ i < q + Len(chat[q].calls)
    <3>1. CASE i < p + Len(calls)
      <4>1. p \in 1..i
        BY <1>h
      <4> QED BY <2>2, <2>l, <3>1, <4>1
    <3>2. CASE ~(i < p + Len(calls))
      <4>1. i - p = Len(calls)
        BY <1>h, <2>3, <3>2
      <4>2. DOMAIN calls = 1 .. Len(calls)
        OBVIOUS
      <4>3. DOMAIN new.results = DOMAIN calls /\ \A k \in DOMAIN calls : new.results[k] = calls[k]
        BY <2>5, <4>1, <4>2
      <4> QED BY <2>5, <4>1, <4>3
    <3> QED BY <3>1, <3>2
  <2>9. PairedRun(chat, i, new)
    <3>1. /\ \A j \in DOMAIN run.out : run.out[j].calls # <<>> /\ j < Len(run.out) => run.out[j + 1].answers = run.out[j].calls
          /\ \A j \in DOMAIN run.out : run.out[j].answers # <<>> => j > 1 /\ run.out[j - 1].calls = run.out[j].answers
      BY <1>2, Zenon DEF PairedRun
    <3>2. LastCalls(new.out) = calls /\ calls # <<>>
      BY <2>1, <2>3, <2>4
    <3>3. new.out = run.out
      BY <2>1
    <3>4. /\ \A j \in DOMAIN new.out : new.out[j].calls # <<>> /\ j < Len(new.out) => new.out[j + 1].answers = new.out[j].calls
          /\ \A j \in DOMAIN new.out : new.out[j].answers # <<>> => j > 1 /\ new.out[j - 1].calls = new.out[j].answers
      BY <3>1, <3>3, Zenon
    <3>5. LastCalls(new.out) # <<>> =>
            new.results = LastCalls(new.out) \/ \E q \in 1..i : Within(chat, q, i) /\ i < q + Len(chat[q].calls)
      BY <2>8, <3>2, Zenon
    <3>6. new.results # <<>> => LastCalls(new.out) # <<>>
      BY <3>2
    <3> QED BY <2>7, <3>4, <3>5, <3>6, Zenon DEF PairedRun
  <2> QED BY <1>m, <2>9, <2>n
<1>9. CASE m.role # "system" /\ m.answers = <<>>
  <2>1. \A p \in 1..h : ~Within(chat, p, i)
    BY <1>4, <1>9 DEF Answers
  <2>2. \A p \in 1..h : Within(chat, p, h) => ~(h < p + Len(chat[p].calls))
    BY <1>5, <2>1
  <2>o. PICK out : out = Flushed(run)
    OBVIOUS
  <2>3. PairedOut(out) /\ out \in Seq(SentMessages) /\ LastCalls(out) = <<>>
    BY <1>2, <2>2, <2>o, FlushedPaired
  <2>e. PICK e : e = Sent(m.role, m.calls, <<>>, {i})
    OBVIOUS
  <2>4. e \in SentMessages /\ e.calls = m.calls /\ e.answers = <<>>
    BY <1>1, <1>9, <1>h, <2>e DEF Sent, SentMessages, Messages
  <2>n. PICK new : new = WithMessage(run, m, i)
    OBVIOUS
  <2>a. PICK all : all = Append(out, e)
    OBVIOUS
  <2>5. new.out = all /\ new.results = <<>>
    BY <1>9, <2>a, <2>e, <2>n, <2>o DEF WithMessage
  <2>l. PICK n \in Nat : n = Len(out) /\ DOMAIN out = 1..n
    BY <2>3, SentLast
  <2>6. /\ all \in Seq(SentMessages) /\ Len(all) = n + 1 /\ DOMAIN all = 1 .. n + 1
        /\ \A j \in 1..n : all[j] = out[j]
        /\ all[n + 1] = e
    BY <2>3, <2>4, <2>a, <2>l, SentLast
  <2>7. LastCalls(all) = m.calls
    <3>1. all # <<>>
      BY <2>6
    <3> QED BY <2>4, <2>6, <3>1, LastCallsOf
  <2>8. \A j \in 1..n : /\ out[j].calls # <<>> => j < n /\ out[j + 1].answers = out[j].calls
                        /\ out[j].answers # <<>> => j > 1 /\ out[j - 1].calls = out[j].answers
    BY <2>3, <2>l, Zenon DEF PairedOut
  <2>9. ASSUME NEW j \in 1 .. n + 1
        PROVE  /\ all[j].calls # <<>> /\ j < n + 1 => all[j + 1].answers = all[j].calls
               /\ all[j].answers # <<>> => j > 1 /\ all[j - 1].calls = all[j].answers
    <3>1. CASE j = n + 1
      BY <2>4, <2>6, <3>1
    <3>2. CASE j # n + 1
      <4>1. j \in 1..n /\ j < n + 1
        BY <3>2
      <4>2. all[j] = out[j]
        BY <2>6, <4>1
      <4>3. j > 1 => all[j - 1] = out[j - 1]
        BY <2>6, <4>1
      <4>4. j < n => all[j + 1] = out[j + 1]
        BY <2>6, <4>1
      <4> QED BY <2>8, <4>1, <4>2, <4>3, <4>4
    <3> QED BY <3>1, <3>2
  <2>10. \A p \in 1..i : Within(chat, p, i) =>
          /\ LastCalls(all) = chat[p].calls
          /\ Len(<<>>) = i - p /\ \A k \in 1 .. i - p : <<>>[k] = chat[p].calls[k]
    <3> SUFFICES ASSUME NEW p \in 1..i, Within(chat, p, i)
                 PROVE  /\ LastCalls(all) = chat[p].calls
                        /\ Len(<<>>) = i - p /\ \A k \in 1 .. i - p : <<>>[k] = chat[p].calls[k]
      OBVIOUS
    <3>1. p = i
      BY <1>3, <2>1
    <3>2. i - p = 0 /\ 1..0 = {} /\ Len(<<>>) = 0
      BY <1>h, <3>1
    <3> QED BY <1>m, <2>7, <3>1, <3>2
  <2>11. LastCalls(all) # <<>> => \E p \in 1..i : Within(chat, p, i) /\ i < p + Len(chat[p].calls)
    <3> SUFFICES ASSUME m.calls # <<>> PROVE Within(chat, i, i) /\ i < i + Len(chat[i].calls) /\ i \in 1..i
      BY <2>7
    <3>1. Len(m.calls) \in Nat \ {0}
      BY <1>1
    <3> QED BY <1>h, <1>m, <3>1 DEF Within
  <2>12. \A j \in DOMAIN all : /\ all[j].calls # <<>> /\ j < Len(all) => all[j + 1].answers = all[j].calls
                               /\ all[j].answers # <<>> => j > 1 /\ all[j - 1].calls = all[j].answers
    BY <2>6, <2>9
  <2>13. PairedRun(chat, i, new)
    BY <2>5, <2>10, <2>11, <2>12 DEF PairedRun
  <2> QED BY <1>m, <2>13, <2>n
<1> QED BY <1>7, <1>8, <1>9

LEMMA PairedRuns ==
  ASSUME NEW chat \in Seq(Messages), Paired(chat)
  PROVE  \A i \in 0 .. Len(chat) : PairedRun(chat, i, Built(chat)[i]) /\ Built(chat)[i] \in Runs
<1> PICK n \in Nat : n = Len(chat)
  OBVIOUS
<1> PICK f : f = Built(chat)
  OBVIOUS
<1>0. \A i \in 0..n : f[i] \in Runs
  BY WholeRuns DEF WholeRun
<1> DEFINE bad == {i \in 0..n : ~PairedRun(chat, i, f[i])}
<1>1. SUFFICES ASSUME bad # {} PROVE FALSE
  BY <1>0
<1>2. PICK b \in bad : \A k \in bad : b <= k
  <2>1. bad \in SUBSET Nat
    OBVIOUS
  <2> HIDE DEF bad
  <2> QED BY <1>1, <2>1, LeastNumber
<1>3. b \in 0..n /\ ~PairedRun(chat, b, f[b]) /\ f[b] = BuiltStep(chat, f, b)
  BY BuiltIs
<1>4. CASE b = 0
  <2> PICK new : new = [out |-> <<>>, results |-> <<>>, of |-> {}]
    OBVIOUS
  <2>1. f[b] = new
    BY <1>3, <1>4 DEF BuiltStep
  <2>2. new.out = <<>> /\ new.results = <<>> /\ LastCalls(<<>>) = <<>> /\ DOMAIN <<>> = {} /\ 1..0 = {}
    BY DEF LastCalls
  <2>3. PairedRun(chat, 0, new)
    BY <2>2, Zenon DEF PairedRun
  <2> QED BY <1>3, <1>4, <2>1, <2>3
<1>5. CASE b # 0
  <2>1. b \in 1 .. Len(chat) /\ b - 1 \in 0..n /\ ~(b <= b - 1)
    BY <1>3, <1>5
  <2>2. PairedRun(chat, b - 1, f[b - 1])
    <3>1. b - 1 \notin bad
      <4> HIDE DEF bad
      <4> QED BY <1>2, <2>1
    <3> QED BY <2>1, <3>1
  <2>3. PairedRun(chat, b, WithMessage(f[b - 1], chat[b], b))
    BY <1>0, <2>1, <2>2, TakenPaired
  <2> QED BY <1>3, <1>5, <2>3 DEF BuiltStep
<1> QED BY <1>4, <1>5

LEMMA PairsAreSent ==
  ASSUME context \in Seq(Messages), Paired(context)
  PROVE  CallsMeetResults
<1> PICK n \in Nat : n = Len(context)
  OBVIOUS
<1>1. PairedRun(context, n, Built(context)[n]) /\ Built(context)[n] \in Runs
  BY PairedRuns
<1>2. \A p \in 1..n : Within(context, p, n) => ~(n < p + Len(context[p].calls))
  <2> SUFFICES ASSUME NEW p \in 1..n, Within(context, p, n) PROVE ~(n < p + Len(context[p].calls))
    OBVIOUS
  <2>0. p \in DOMAIN context /\ context[p].calls # <<>>
    BY DEF Within
  <2>1. p + Len(context[p].calls) <= Len(context)
    BY <2>0, Zenon DEF Paired, CallsAnswered
  <2> QED BY <2>1, MessageTypes
<1>3. PairedOut(BuildMessages(context))
  BY <1>1, <1>2, FlushedPaired DEF BuildMessages
<1> QED BY <1>3, Zenon DEF CallsMeetResults, PairedOut

(* Contexts that are pairwise whole stay so end to end.                    *)
LEMMA PairedJoined ==
  ASSUME NEW c \in Seq(Messages), NEW s \in Seq(Messages), Paired(c), Paired(s)
  PROVE  c \o s \in Seq(Messages) /\ Paired(c \o s)
<1>c. PICK n \in Nat : n = Len(c) /\ DOMAIN c = 1..n
  OBVIOUS
<1>s. PICK l \in Nat : l = Len(s) /\ DOMAIN s = 1..l
  OBVIOUS
<1>j. c \o s \in Seq(Messages)
  OBVIOUS
<1>a. PICK all \in Seq(Messages) : all = c \o s
  BY <1>j
<1>1. /\ Len(all) = n + l /\ DOMAIN all = 1 .. n + l
      /\ \A i \in 1..n : all[i] = c[i]
      /\ \A i \in 1..l : all[n + i] = s[i]
  BY <1>a, <1>c, <1>s
<1>2. \A p \in 1 .. n + l : p \in 1..n \/ \E i \in 1..l : p = n + i
  <2> SUFFICES ASSUME NEW p \in 1 .. n + l, p \notin 1..n PROVE p - n \in 1..l /\ p = n + (p - n)
    OBVIOUS
  <2> QED OBVIOUS
<1>3. CallsAnswered(all)
  <2> SUFFICES ASSUME NEW p \in 1 .. n + l, all[p].calls # <<>>
               PROVE  /\ all[p].answers = <<>> /\ all[p].role # "system"
                      /\ p + Len(all[p].calls) <= n + l
                      /\ \A k \in DOMAIN all[p].calls : Answers(all[p + k], all[p].calls[k])
    BY <1>1 DEF CallsAnswered
  <2>1. CASE p \in 1..n
    <3>1. all[p] = c[p] /\ DOMAIN c[p].calls = 1 .. Len(c[p].calls) /\ Len(c[p].calls) \in Nat
      BY <1>1, <1>c, <2>1, MessageTypes
    <3>2. /\ c[p].answers = <<>> /\ c[p].role # "system"
          /\ p + Len(c[p].calls) <= n
          /\ \A k \in DOMAIN c[p].calls : Answers(c[p + k], c[p].calls[k])
      BY <1>c, <2>1, <3>1, Zenon DEF Paired, CallsAnswered
    <3>3. \A k \in DOMAIN c[p].calls : p + k \in 1..n /\ all[p + k] = c[p + k]
      <4> SUFFICES ASSUME NEW k \in DOMAIN c[p].calls PROVE p + k \in 1..n /\ all[p + k] = c[p + k]
        OBVIOUS
      <4>1. PICK v \in Nat : v = Len(c[p].calls) /\ k \in 1..v
        BY <3>1
      <4>2. p + v <= n
        BY <3>2, <4>1
      <4>3. p + k \in 1..n
        BY <2>1, <4>1, <4>2
      <4> QED BY <1>1, <4>3
    <3> QED BY <3>1, <3>2, <3>3
  <2>2. ASSUME NEW i \in 1..l, p = n + i
        PROVE  /\ all[p].answers = <<>> /\ all[p].role # "system"
               /\ p + Len(all[p].calls) <= n + l
               /\ \A k \in DOMAIN all[p].calls : Answers(all[p + k], all[p].calls[k])
    <3>1. all[p] = s[i] /\ DOMAIN s[i].calls = 1 .. Len(s[i].calls) /\ Len(s[i].calls) \in Nat
      BY <1>1, <1>s, <2>2, MessageTypes
    <3>2. /\ s[i].answers = <<>> /\ s[i].role # "system"
          /\ i + Len(s[i].calls) <= l
          /\ \A k \in DOMAIN s[i].calls : Answers(s[i + k], s[i].calls[k])
      BY <1>s, <2>2, <3>1, Zenon DEF Paired, CallsAnswered
    <3>3. \A k \in DOMAIN s[i].calls : i + k \in 1..l /\ all[p + k] = s[i + k]
      <4> SUFFICES ASSUME NEW k \in DOMAIN s[i].calls PROVE i + k \in 1..l /\ all[p + k] = s[i + k]
        OBVIOUS
      <4>1. PICK m \in Nat : m = Len(s[i].calls) /\ i + m <= l /\ k \in 1..m
        BY <3>1, <3>2
      <4>2. i + k \in 1..l /\ p + k = n + (i + k)
        BY <2>2, <4>1
      <4>3. all[n + (i + k)] = s[i + k]
        BY <1>1, <4>2
      <4> QED BY <4>2, <4>3
    <3>4. \A k \in DOMAIN s[i].calls : Answers(all[p + k], s[i].calls[k])
      BY <3>2, <3>3, Zenon
    <3>5. p + Len(s[i].calls) <= n + l
      <4>1. PICK m \in Nat : m = Len(s[i].calls) /\ i + m <= l
        BY <3>1, <3>2
      <4>2. p \in Nat /\ i \in Nat /\ i + m <= l
        BY <4>1
      <4>3. p + m = n + (i + m)
        BY <2>2, <4>2
      <4>4. p + m <= n + l
        BY <4>2, <4>3
      <4> QED BY <4>1, <4>4
    <3> QED BY <3>1, <3>2, <3>4, <3>5, Zenon
  <2> QED BY <1>2, <2>1, <2>2
<1>4. AnswersCalled(all)
  <2>0. DOMAIN all = 1 .. n + l
    BY <1>1
  <2> SUFFICES ASSUME NEW q \in DOMAIN all, all[q].answers # <<>>
               PROVE  \E p \in DOMAIN all : \E k \in DOMAIN all[p].calls : q = p + k
    BY Zenon DEF AnswersCalled
  <2>1. CASE q \in 1..n
    <3>0. q \in DOMAIN c /\ c[q].answers # <<>>
      BY <1>1, <1>c, <2>1
    <3>1. PICK p \in DOMAIN c : \E k \in DOMAIN c[p].calls : q = p + k
      BY <3>0, Zenon DEF Paired, AnswersCalled
    <3>2. all[p] = c[p] /\ p \in DOMAIN all
      BY <1>1, <1>c
    <3> QED BY <3>1, <3>2, Zenon
  <2>2. ASSUME NEW i \in 1..l, q = n + i
        PROVE  \E p \in DOMAIN all : \E k \in DOMAIN all[p].calls : q = p + k
    <3>0. i \in DOMAIN s /\ s[i].answers # <<>>
      BY <1>1, <1>s, <2>2
    <3>1. PICK p \in DOMAIN s : \E k \in DOMAIN s[p].calls : i = p + k
      BY <3>0, Zenon DEF Paired, AnswersCalled
    <3>2. PICK k \in DOMAIN s[p].calls : i = p + k
      BY <3>1
    <3>3. all[n + p] = s[p] /\ n + p \in DOMAIN all
      BY <1>1, <1>s
    <3>4. k \in Nat
      BY <1>s, <3>1, <3>2, MessageTypes
    <3>5. q = (n + p) + k
      BY <2>2, <3>2, <3>4
    <3> QED BY <3>2, <3>3, <3>5
  <2> QED BY <1>2, <2>0, <2>1, <2>2
<1> QED BY <1>3, <1>4, <1>a DEF Paired

(* What is said and makes no calls needs no answers.                       *)
LEMMA PlainPaired ==
  ASSUME NEW chat \in Seq(Messages), \A i \in 1 .. Len(chat) : chat[i].calls = <<>> /\ chat[i].answers = <<>>
  PROVE  Paired(chat)
<1>1. \A i \in DOMAIN chat : chat[i].calls = <<>> /\ chat[i].answers = <<>>
  OBVIOUS
<1> QED BY <1>1, Zenon DEF Paired, CallsAnswered, AnswersCalled

LEMMA PlainContexts ==
  ASSUME NEW chat \in Seq(PlainMessage)
  PROVE  chat \in Seq(Messages) /\ Paired(chat)
<1>1. PlainMessage \subseteq Messages
  <2>1. <<>> \in Seq(CallIds)
    OBVIOUS
  <2> QED BY <2>1 DEF PlainMessage, Messages
<1>2. chat \in Seq(Messages)
  <2> HIDE DEF PlainMessage, Messages
  <2> QED BY <1>1, SeqMonotonic
<1>3. ASSUME NEW i \in 1 .. Len(chat) PROVE chat[i].calls = <<>> /\ chat[i].answers = <<>>
  <2>1. chat[i] \in PlainMessage
    OBVIOUS
  <2> QED BY <2>1 DEF PlainMessage
<1> QED BY <1>2, <1>3, PlainPaired

LEMMA SaidPaired ==
  ASSUME NEW chat \in Seq(Messages), Paired(chat), NEW role \in {"user", "assistant"}
  PROVE  Append(chat, Message(role, <<>>, <<>>)) \in Seq(Messages) /\ Paired(Append(chat, Message(role, <<>>, <<>>)))
<1>m. PICK m : m = Message(role, <<>>, <<>>)
  OBVIOUS
<1>0. m \in Messages /\ m.calls = <<>> /\ m.answers = <<>>
  <2>1. <<>> \in Seq(CallIds)
    OBVIOUS
  <2> QED BY <1>m, <2>1 DEF Message, Messages
<1>1. <<m>> \in Seq(Messages) /\ Len(<<m>>) = 1 /\ <<m>>[1] = m
  BY <1>0
<1>2. Paired(<<m>>)
  <2>1. \A i \in 1 .. Len(<<m>>) : <<m>>[i].calls = <<>> /\ <<m>>[i].answers = <<>>
    BY <1>0, <1>1
  <2> QED BY <1>1, <2>1, PlainPaired
<1>3. Append(chat, m) = chat \o <<m>>
  BY <1>0
<1> QED BY <1>1, <1>2, <1>3, <1>m, PairedJoined

(* The calls of an answer, and their results.                              *)
Numbered(calls) == \E n \in Nat : DOMAIN calls = 1..n /\ \A k \in 1..n : calls[k].id = <<>> \/ calls[k].id \in CallIds
AnswerTo(id) == Message("tool", <<>>, IF id = <<>> THEN <<>> ELSE <<id>>)
ResultsTo(calls) == [n \in DOMAIN calls |-> AnswerTo(calls[n].id)]

LEMMA AnswerToIs ==
  ASSUME NEW id, id = <<>> \/ id \in CallIds
  PROVE  /\ AnswerTo(id) \in Messages /\ AnswerTo(id).calls = <<>> /\ AnswerTo(id).role = "tool"
         /\ AnswerTo(id).answers = IF id = <<>> THEN <<>> ELSE <<id>>
<1>1. (IF id = <<>> THEN <<>> ELSE <<id>>) \in Seq(CallIds)
  OBVIOUS
<1> QED BY <1>1 DEF AnswerTo, Message, Messages

LEMMA ResultsAre ==
  ASSUME NEW calls, NEW n \in Nat, DOMAIN calls = 1..n, \A k \in 1..n : calls[k].id = <<>> \/ calls[k].id \in CallIds
  PROVE  /\ ResultsTo(calls) \in Seq(Messages) /\ Len(ResultsTo(calls)) = n
         /\ \A k \in 1..n : ResultsTo(calls)[k] = AnswerTo(calls[k].id)
<1>1. ResultsTo(calls) = [k \in 1..n |-> AnswerTo(calls[k].id)]
  BY Zenon DEF ResultsTo
<1>2. \A k \in 1..n : AnswerTo(calls[k].id) \in Messages
  BY AnswerToIs
<1>3. ResultsTo(calls) \in [1..n -> Messages]
  BY <1>1, <1>2, Zenon
<1> QED BY <1>1, <1>3

(* A message with its calls, and the results.                              *)
LEMMA BlockPaired ==
  ASSUME NEW calls, NEW n \in Nat, DOMAIN calls = 1..n, NEW ids \in Seq(CallIds),
         \/ ids = <<>> /\ \A k \in 1..n : calls[k].id = <<>>
         \/ Len(ids) = n /\ \A k \in 1..n : calls[k].id = ids[k] /\ ids[k] # <<>>
  PROVE  LET block == <<Message("assistant", ids, <<>>)>> \o ResultsTo(calls)
         IN block \in Seq(Messages) /\ Paired(block)
<1>m. PICK m : m = Message("assistant", ids, <<>>)
  OBVIOUS
<1>r. PICK r : r = ResultsTo(calls)
  OBVIOUS
<1>b. PICK block : block = <<m>> \o r
  OBVIOUS
<1>0. m \in Messages /\ m.calls = ids /\ m.answers = <<>> /\ m.role = "assistant"
  <2>1. <<>> \in Seq(CallIds)
    OBVIOUS
  <2> QED BY <1>m, <2>1 DEF Message, Messages
<1>1. \A k \in 1..n : calls[k].id = <<>> \/ calls[k].id \in CallIds
  <2>1. Len(ids) = n => \A k \in 1..n : ids[k] \in CallIds
    OBVIOUS
  <2> QED BY <2>1
<1>2. /\ r \in Seq(Messages) /\ Len(r) = n
      /\ \A k \in 1..n : r[k] = AnswerTo(calls[k].id)
  BY <1>1, <1>r, ResultsAre
<1>3. \A k \in 1..n : /\ r[k].calls = <<>> /\ r[k].role = "tool"
                      /\ r[k].answers = IF calls[k].id = <<>> THEN <<>> ELSE <<calls[k].id>>
  BY <1>1, <1>2, AnswerToIs
<1>4. /\ block \in Seq(Messages) /\ Len(block) = n + 1 /\ DOMAIN block = 1 .. n + 1
      /\ block[1] = m
      /\ \A k \in 1..n : block[1 + k] = r[k]
  <2>1. <<m>> \in Seq(Messages) /\ Len(<<m>>) = 1 /\ <<m>>[1] = m
    BY <1>0
  <2>2. block \in Seq(Messages) /\ Len(block) = n + 1
    BY <1>2, <1>b, <2>1, ConcatProperties
  <2>3. block[1] = m
    BY <1>2, <1>b, <2>1
  <2>4. \A k \in 1..n : block[1 + k] = r[k]
    BY <1>2, <1>b, <2>1
  <2> QED BY <2>2, <2>3, <2>4
<1>5. \A p \in 1 .. n + 1 : p = 1 \/ \E k \in 1..n : p = 1 + k
  <2> SUFFICES ASSUME NEW p \in 1 .. n + 1, p # 1 PROVE p - 1 \in 1..n /\ p = 1 + (p - 1)
    OBVIOUS
  <2> QED OBVIOUS
<1>6. CASE ids = <<>> /\ \A k \in 1..n : calls[k].id = <<>>
  <2>1. ASSUME NEW p \in 1 .. n + 1 PROVE block[p].calls = <<>> /\ block[p].answers = <<>>
    <3>1. CASE p = 1
      BY <1>0, <1>4, <1>6, <3>1
    <3>2. ASSUME NEW k \in 1..n, p = 1 + k PROVE block[p].calls = <<>> /\ block[p].answers = <<>>
      BY <1>3, <1>4, <1>6, <3>2
    <3> QED BY <1>5, <3>1, <3>2
  <2>2. Paired(block)
    BY <1>4, <2>1, PlainPaired
  <2> QED BY <1>4, <1>b, <1>m, <1>r, <2>2
<1>7. CASE Len(ids) = n /\ \A k \in 1..n : calls[k].id = ids[k] /\ ids[k] # <<>>
  <2>1. \A k \in 1..n : Answers(block[1 + k], ids[k]) /\ block[1 + k].calls = <<>>
    <3> SUFFICES ASSUME NEW k \in 1..n PROVE Answers(block[1 + k], ids[k]) /\ block[1 + k].calls = <<>>
      OBVIOUS
    <3>1. block[1 + k] = r[k] /\ calls[k].id = ids[k] /\ ids[k] # <<>>
      BY <1>4, <1>7
    <3>2. r[k].answers = <<ids[k]>> /\ r[k].calls = <<>> /\ r[k].role # "system"
      BY <1>3, <3>1
    <3> QED BY <3>1, <3>2 DEF Answers
  <2>2. DOMAIN ids = 1..n
    BY <1>7
  <2>3. \A p \in 1 .. n + 1 : block[p].calls # <<>> => p = 1
    BY <1>5, <2>1
  <2>4. CallsAnswered(block)
    <3>1. 1 + Len(m.calls) <= Len(block)
      BY <1>0, <1>4, <1>7
    <3>2. \A k \in DOMAIN m.calls : Answers(block[1 + k], m.calls[k])
      BY <1>0, <2>1, <2>2
    <3> QED BY <1>0, <1>4, <2>3, <3>1, <3>2 DEF CallsAnswered
  <2>5. AnswersCalled(block)
    <3> SUFFICES ASSUME NEW q \in DOMAIN block, block[q].answers # <<>>
                 PROVE  \E p \in DOMAIN block : \E k \in DOMAIN block[p].calls : q = p + k
      BY Zenon DEF AnswersCalled
    <3>1. q # 1
      BY <1>0, <1>4
    <3>2. PICK k \in 1..n : q = 1 + k
      BY <1>4, <1>5, <3>1
    <3>3. k \in DOMAIN block[1].calls /\ 1 \in DOMAIN block
      BY <1>0, <1>4, <2>2
    <3> QED BY <3>2, <3>3
  <2> QED BY <1>4, <1>b, <1>m, <1>r, <2>4, <2>5 DEF Paired
<1> QED BY <1>6, <1>7

LEMMA CallsPaired ==
  ASSUME NEW chat \in Seq(Messages), Paired(chat), NEW calls, NEW n \in Nat, DOMAIN calls = 1..n, NEW ids \in Seq(CallIds),
         \/ ids = <<>> /\ \A k \in 1..n : calls[k].id = <<>>
         \/ Len(ids) = n /\ \A k \in 1..n : calls[k].id = ids[k] /\ ids[k] # <<>>
  PROVE  LET next == Append(chat, Message("assistant", ids, <<>>))
         IN next \in Seq(Messages) /\ next \o ResultsTo(calls) \in Seq(Messages) /\ Paired(next \o ResultsTo(calls))
<1>m. PICK m : m = Message("assistant", ids, <<>>)
  OBVIOUS
<1>r. PICK r : r = ResultsTo(calls)
  OBVIOUS
<1>0. m \in Messages
  <2>1. <<>> \in Seq(CallIds)
    OBVIOUS
  <2> QED BY <1>m, <2>1 DEF Message, Messages
<1>1. r \in Seq(Messages)
  <2>1. Len(ids) = n => \A k \in 1..n : ids[k] \in CallIds
    OBVIOUS
  <2>2. \A k \in 1..n : calls[k].id = <<>> \/ calls[k].id \in CallIds
    BY <2>1
  <2> QED BY <1>r, <2>2, ResultsAre
<1>2. <<m>> \o r \in Seq(Messages) /\ Paired(<<m>> \o r)
  BY <1>m, <1>r, BlockPaired
<1>3. chat \o (<<m>> \o r) \in Seq(Messages) /\ Paired(chat \o (<<m>> \o r))
  BY <1>2, PairedJoined
<1>4. <<m>> \in Seq(Messages) /\ Append(chat, m) = chat \o <<m>> /\ Append(chat, m) \in Seq(Messages)
  BY <1>0
<1>5. (chat \o <<m>>) \o r = chat \o (<<m>> \o r)
  BY <1>1, <1>4, ConcatAssociative
<1> QED BY <1>3, <1>4, <1>5, <1>m, <1>r

LEMMA NativeCallsAre ==
  ASSUME asked \in Nat, NEW a \in ModelAnswers, NEW calls, calls = NativeCalls(a.native),
         NEW ids, ids = [k \in DOMAIN calls |-> calls[k].id]
  PROVE  \E n \in Nat : /\ DOMAIN calls = 1..n /\ ids \in Seq(CallIds) /\ Len(ids) = n
                         /\ \A k \in 1..n : calls[k].id = ids[k] /\ ids[k] # <<>>
<1>1. a.native \in Seq(STRING \X STRING)
  BY ToolLoopAssumption
<1>2. PICK n \in Nat : DOMAIN a.native = 1..n
  BY <1>1
<1>3. DOMAIN calls = 1..n /\ \A k \in 1..n : calls[k].id = <<asked + 1, k>>
  BY <1>2 DEF NativeCalls
<1>4. \A k \in 1..n : ids[k] = calls[k].id /\ ids[k] \in CallIds /\ ids[k] # <<>>
  <2> SUFFICES ASSUME NEW k \in 1..n PROVE ids[k] = calls[k].id /\ ids[k] \in CallIds /\ ids[k] # <<>>
    OBVIOUS
  <2>1. ids[k] = <<asked + 1, k>> /\ ids[k] = calls[k].id
    BY <1>3
  <2>2. <<asked + 1, k>> # <<>>
    OBVIOUS
  <2>3. <<asked + 1, k>> \in CallIds
    BY DEF CallIds
  <2> QED BY <2>1, <2>2, <2>3, Zenon
<1>5. ids \in [1..n -> CallIds]
  BY <1>3, <1>4
<1>6. ids \in Seq(CallIds) /\ Len(ids) = n
  BY <1>5
<1> QED BY <1>3, <1>4, <1>6

LEMMA TextCallsAre ==
  ASSUME NEW a \in ModelAnswers
  PROVE  \E n \in Nat : DOMAIN TextCalls(a.text) = 1..n /\ \A k \in 1..n : TextCalls(a.text)[k].id = <<>>
<1>t. PICK text \in Seq(STRING \X (STRING \X STRING)) : text = a.text
  BY ToolLoopAssumption
<1>1. PICK l \in Nat : DOMAIN text = 1..l
  OBVIOUS
<1>2. Parsed(text) \subseteq 1..l
  BY <1>1, Zenon DEF Parsed
<1>k. PICK kept : kept = {i \in Parsed(text) : \A j \in Parsed(text) : FoundBefore(text, j, i) => text[j][2] # text[i][2]}
  OBVIOUS
<1>3. kept \in SUBSET (1..l)
  BY <1>2, <1>k
<1>4. Cardinality(kept) \in Nat
  <2>1. IsFiniteSet(1..l)
    BY FS_Interval
  <2> QED BY <1>3, <2>1, FS_Subset, FS_CardinalityType
<1>5. DOMAIN TextCalls(text) = 1 .. Cardinality(kept) /\ \A k \in 1 .. Cardinality(kept) : TextCalls(text)[k].id = <<>>
  BY <1>k DEF TextCalls
<1> QED BY <1>4, <1>5, <1>t

-----------------------------------------------------------------------------
(* The turn.                                                               *)

TurnSteps == {"idle", "ask", "tools", "check", "fix", "done", "failed"}
Turns == [step : TurnSteps, iteration : Nat, retry : Nat, toolError : BOOLEAN, streaming : BOOLEAN, verify : BOOLEAN]
TurnTypes == turn \in Turns /\ failures \in [any : BOOLEAN, checked : BOOLEAN]

(* The results are owed from the moment the calls are in the context.      *)
ContextInv ==
  /\ context \in Seq(Messages)
  /\ turn.step # "tools" => Paired(context)
  /\ turn.step = "tools" => context \o ResultsTo(pending) \in Seq(Messages) /\ Paired(context \o ResultsTo(pending))

ShownInv ==
  turn.streaming =>
    /\ turn.step \notin {"check", "fix"}
    /\ turn.step = "done" => streamed = reply.of /\ ~reply.corrected

FailureInv ==
  /\ turn.step = "idle" => ~failures.any
  /\ turn.step = "ask" /\ failures.any => turn.toolError
  /\ turn.step = "tools" /\ failures.any => turn.toolError \/ \E n \in DOMAIN slots : slots[n] = "failed"
  /\ turn.step = "fix" => failures.checked
  /\ turn.step = "done" /\ ~turn.streaming /\ failures.any /\ ~reply.admits => failures.checked

(* An iteration asks the model once and once more for every retry.         *)
Share == MaxContextRetries + 1
AskedInv ==
  /\ turn.iteration <= MaxIterations /\ turn.retry <= MaxContextRetries /\ asked \in Nat
  /\ turn.step = "idle" => asked = 0
  /\ turn.step \in {"ask", "tools"} => turn.iteration < MaxIterations
  /\ turn.step = "ask" => asked <= turn.iteration * Share + turn.retry
  /\ turn.step = "tools" => asked <= turn.iteration * Share + turn.retry + 1
  /\ turn.step \in {"check", "failed"} => asked <= MaxIterations * Share
  /\ turn.step = "fix" => asked <= MaxIterations * Share + 1
  /\ turn.step = "done" => asked <= MaxIterations * Share + 2

ToolLoopInv == TurnTypes /\ ContextInv /\ ShownInv /\ FailureInv /\ AskedInv

LEMMA ResultsInOrder == Results = ResultsTo(pending)
BY Zenon DEF Results, ResultOf, ResultsTo, AnswerTo

LEMMA Shares ==
  ASSUME NEW i \in Nat, NEW m \in Nat, NEW s \in Nat
  PROVE  /\ i * s \in Nat /\ m * s \in Nat
         /\ (i + 1) * s = i * s + s
         /\ i < m => i * s + s <= m * s
<1>1. i * s \in Nat /\ m * s \in Nat /\ (i + 1) * s = i * s + s
  OBVIOUS
<1>2. ASSUME i < m PROVE i * s + s <= m * s
  <2>1. PICK d \in Nat : m = (i + 1) + d
    <3>1. m - (i + 1) \in Nat /\ m = (i + 1) + (m - (i + 1))
      BY <1>2
    <3> QED BY <3>1
  <2>2. m * s = (i + 1) * s + d * s /\ d * s \in Nat
    BY <2>1
  <2> QED BY <1>1, <2>2
<1> QED BY <1>1, <1>2

LEMMA ToolLoopStarts == ToolLoopInit => ToolLoopInv
<1> SUFFICES ASSUME ToolLoopInit PROVE ToolLoopInv
  OBVIOUS
<1>1. /\ turn = NoTurn /\ context \in OldContexts /\ asked = 0 /\ failures = [any |-> FALSE, checked |-> FALSE]
      /\ turn.step = "idle" /\ ~turn.streaming /\ turn.iteration = 0 /\ turn.retry = 0
  BY DEF ToolLoopInit, NoTurn
<1>2. TurnTypes
  BY <1>1 DEF TurnTypes, Turns, TurnSteps, NoTurn
<1>3. ContextInv
  <2>1. context \in Seq(PlainMessage)
    BY <1>1, ToolLoopAssumption
  <2> QED BY <1>1, <2>1, PlainContexts DEF ContextInv
<1>4. ShownInv /\ FailureInv
  BY <1>1 DEF ShownInv, FailureInv
<1>5. AskedInv
  BY <1>1, ToolLoopAssumption DEF AskedInv
<1> QED BY <1>2, <1>3, <1>4, <1>5 DEF ToolLoopInv

LEMMA BeginKeeps ==
  ASSUME ToolLoopInv, NEW streaming \in BOOLEAN, NEW verify \in BOOLEAN, BeginTurn(streaming, verify)
  PROVE  ToolLoopInv'
<1>0. MaxIterations \in Nat /\ MaxContextRetries \in Nat
  BY ToolLoopAssumption
<1>1. /\ turn.step = "idle" /\ turn' \in Turns /\ turn'.step = IF MaxIterations = 0 THEN "failed" ELSE "ask"
      /\ turn'.iteration = 0 /\ turn'.retry = 0 /\ asked' = asked /\ failures' = failures
  BY DEF BeginTurn, NoTurn, Turns, TurnSteps
<1>2. TurnTypes'
  BY <1>1 DEF ToolLoopInv, TurnTypes
<1>3. ContextInv'
  <2>1. context' = Append(context, Message("user", <<>>, <<>>)) /\ context \in Seq(Messages) /\ Paired(context)
    BY <1>1 DEF BeginTurn, ToolLoopInv, ContextInv
  <2>2. context' \in Seq(Messages) /\ Paired(context')
    BY <2>1, SaidPaired
  <2> QED BY <1>1, <2>2 DEF ContextInv
<1>4. ShownInv' /\ FailureInv'
  BY <1>1 DEF ToolLoopInv, FailureInv, ShownInv
<1>5. AskedInv'
  <2>1. asked = 0 /\ MaxIterations * Share \in Nat
    BY <1>0, <1>1, Shares DEF ToolLoopInv, AskedInv, Share
  <2> QED BY <1>0, <1>1, <2>1 DEF AskedInv, Share
<1> QED BY <1>2, <1>3, <1>4, <1>5 DEF ToolLoopInv

LEMMA OwedLater ==
  ASSUME NEW c, NEW calls, c = context', calls = pending', turn'.step = "tools",
         c \in Seq(Messages), c \o ResultsTo(calls) \in Seq(Messages), Paired(c \o ResultsTo(calls))
  PROVE  ContextInv'
<1>1. PICK all : all = c \o ResultsTo(calls)
  OBVIOUS
<1>2. (context \o ResultsTo(pending))' = all
  BY <1>1 DEF ResultsTo
<1>3. Paired(context \o ResultsTo(pending))'
  BY <1>1, <1>2
<1>4. (context \o ResultsTo(pending) \in Seq(Messages))'
  BY <1>1, <1>2
<1> QED BY <1>3, <1>4 DEF ContextInv

(* What leaves the context and the calls alone keeps what is owed.         *)
LEMMA ContextKept ==
  ASSUME ContextInv, UNCHANGED <<context, pending>>, (turn'.step = "tools") <=> (turn.step = "tools")
  PROVE  ContextInv'
<1>1. CASE turn.step = "tools"
  <2>1. context \in Seq(Messages) /\ context \o ResultsTo(pending) \in Seq(Messages) /\ Paired(context \o ResultsTo(pending))
    BY <1>1 DEF ContextInv
  <2> QED BY <1>1, <2>1, OwedLater
<1>2. CASE turn.step # "tools"
  BY <1>2 DEF ContextInv
<1> QED BY <1>1, <1>2

LEMMA RetryKeeps ==
  ASSUME ToolLoopInv, NEW some \in BOOLEAN, RetryShorter(some)
  PROVE  ToolLoopInv'
<1>0. MaxIterations \in Nat /\ MaxContextRetries \in Nat
  BY ToolLoopAssumption
<1>1. /\ turn.step = "ask" /\ turn.retry < MaxContextRetries /\ turn' = [turn EXCEPT !.retry = @ + 1]
      /\ turn \in Turns /\ asked' = asked + 1 /\ failures' = failures
      /\ UNCHANGED <<context, pending>>
  BY DEF RetryShorter, Asks, ToolLoopInv, TurnTypes
<1>2. /\ turn' \in Turns /\ turn'.step = "ask" /\ turn'.retry = turn.retry + 1 /\ turn'.iteration = turn.iteration
      /\ turn'.streaming = turn.streaming /\ turn'.toolError = turn.toolError
  BY <1>1 DEF Turns
<1>3. TurnTypes'
  BY <1>1, <1>2 DEF ToolLoopInv, TurnTypes
<1>4. ContextInv'
  BY <1>1, <1>2, ContextKept DEF ToolLoopInv
<1>5. ShownInv' /\ FailureInv'
  BY <1>1, <1>2 DEF ToolLoopInv, FailureInv, ShownInv
<1>6. AskedInv'
  <2>1. PICK share \in Nat : share = turn.iteration * Share
    BY <1>0, <1>1, Shares DEF Share, Turns
  <2>2. asked \in Nat /\ asked <= share + turn.retry /\ turn.iteration < MaxIterations /\ turn.iteration <= MaxIterations
    BY <1>1, <2>1 DEF ToolLoopInv, AskedInv
  <2>3. asked' <= share + turn'.retry /\ asked' \in Nat /\ turn'.retry <= MaxContextRetries
    BY <1>0, <1>1, <1>2, <2>2 DEF Turns
  <2>4. turn'.iteration * Share = share
    BY <1>2, <2>1
  <2> QED BY <1>2, <2>2, <2>3, <2>4 DEF AskedInv, Share
<1> QED BY <1>3, <1>4, <1>5, <1>6 DEF ToolLoopInv

(* Before the last answer the model has been asked for its share at most.  *)
LEMMA SharesLeft ==
  ASSUME ToolLoopInv, turn.step = "ask"
  PROVE  asked \in Nat /\ MaxIterations * Share \in Nat /\ asked + 1 <= MaxIterations * Share
<1>0. MaxIterations \in Nat /\ MaxContextRetries \in Nat
  BY ToolLoopAssumption
<1>1. turn.iteration \in Nat /\ turn.retry \in Nat
  BY DEF ToolLoopInv, TurnTypes, Turns
<1>2. Share \in Nat /\ Share = MaxContextRetries + 1
  BY <1>0 DEF Share
<1>3. PICK share \in Nat : share = turn.iteration * Share
  BY <1>1, <1>2, Shares
<1>4. PICK all \in Nat : all = MaxIterations * Share
  BY <1>0, <1>2, Shares
<1>5. asked \in Nat /\ asked <= share + turn.retry /\ turn.iteration < MaxIterations /\ turn.retry <= MaxContextRetries
  BY <1>3 DEF ToolLoopInv, AskedInv
<1>6. share + Share <= all
  BY <1>0, <1>1, <1>2, <1>3, <1>4, <1>5, Shares
<1>7. asked + 1 <= all
  BY <1>0, <1>1, <1>2, <1>5, <1>6
<1> QED BY <1>4, <1>5, <1>7

LEMMA FailKeeps ==
  ASSUME ToolLoopInv, NEW some \in BOOLEAN, ModelFails(some)
  PROVE  ToolLoopInv'
<1>1. /\ turn.step = "ask" /\ turn' = [turn EXCEPT !.step = "failed"]
      /\ turn \in Turns /\ asked' = asked + 1 /\ failures' = failures
      /\ UNCHANGED <<context, pending>>
  BY DEF ModelFails, Asks, ToolLoopInv, TurnTypes
<1>2. /\ turn' \in Turns /\ turn'.step = "failed" /\ turn'.retry = turn.retry /\ turn'.iteration = turn.iteration
  BY <1>1 DEF Turns, TurnSteps
<1>3. TurnTypes'
  BY <1>1, <1>2 DEF ToolLoopInv, TurnTypes
<1>4. ContextInv'
  BY <1>1, <1>2, ContextKept DEF ToolLoopInv
<1>5. ShownInv' /\ FailureInv'
  BY <1>2 DEF FailureInv, ShownInv
<1>6. AskedInv'
  <2>1. asked' \in Nat /\ asked' <= MaxIterations * Share
    BY <1>1, SharesLeft
  <2> QED BY <1>2, <2>1 DEF ToolLoopInv, AskedInv, Share
<1> QED BY <1>3, <1>4, <1>5, <1>6 DEF ToolLoopInv

LEMMA CallsKeep ==
  ASSUME ToolLoopInv, NEW a \in ModelAnswers, ModelCallsTools(a)
  PROVE  ToolLoopInv'
<1>0. MaxIterations \in Nat /\ MaxContextRetries \in Nat
  BY ToolLoopAssumption
<1>c. PICK calls : calls = IF a.native # <<>> THEN NativeCalls(a.native) ELSE TextCalls(a.text)
  OBVIOUS
<1>e. PICK unknown \in BOOLEAN : unknown = \E n \in DOMAIN calls : calls[n].call[1] \notin KnownTools
  OBVIOUS
<1>i. PICK ids : ids = IF a.native # <<>> THEN [n \in DOMAIN calls |-> calls[n].id] ELSE <<>>
  OBVIOUS
<1>1. /\ turn.step = "ask" /\ asked' = asked + 1 /\ asked \in Nat
      /\ turn \in Turns /\ turn' = [turn EXCEPT !.step = "tools", !.toolError = @ \/ unknown]
      /\ failures \in [any : BOOLEAN, checked : BOOLEAN] /\ failures' = [failures EXCEPT !.any = @ \/ unknown]
      /\ context \in Seq(Messages) /\ Paired(context)
  BY <1>c, <1>e DEF ModelCallsTools, Asks, ToolLoopInv, TurnTypes, AskedInv, ContextInv
<1>2. pending' = calls /\ context' = Append(context, Message("assistant", ids, <<>>))
  BY <1>c, <1>i DEF ModelCallsTools
<1>3. /\ turn' \in Turns /\ turn'.step = "tools" /\ turn'.retry = turn.retry /\ turn'.iteration = turn.iteration
      /\ turn'.streaming = turn.streaming /\ turn'.toolError = (turn.toolError \/ unknown)
  BY <1>1 DEF Turns, TurnSteps
<1>4. failures' \in [any : BOOLEAN, checked : BOOLEAN] /\ failures'.any = (failures.any \/ unknown)
  BY <1>1
<1>5. TurnTypes'
  BY <1>3, <1>4 DEF TurnTypes
<1>6. ContextInv'
  <2>1. CASE a.native # <<>>
    <3>1. calls = NativeCalls(a.native) /\ ids = [k \in DOMAIN calls |-> calls[k].id]
      BY <1>c, <1>i, <2>1
    <3>2. PICK n \in Nat : /\ DOMAIN calls = 1..n /\ ids \in Seq(CallIds) /\ Len(ids) = n
                           /\ \A k \in 1..n : calls[k].id = ids[k] /\ ids[k] # <<>>
      <4>1. asked \in Nat
        BY <1>1
      <4> DEFINE Facts(c, s, n) == /\ DOMAIN c = 1..n /\ s \in Seq(CallIds) /\ Len(s) = n
                                   /\ \A k \in 1..n : c[k].id = s[k] /\ s[k] # <<>>
      <4>2. \A c, s : c = NativeCalls(a.native) /\ s = [k \in DOMAIN c |-> c[k].id] => \E n \in Nat : Facts(c, s, n)
        BY <4>1, NativeCallsAre
      <4> HIDE DEF Facts
      <4>3. PICK n \in Nat : Facts(calls, ids, n)
        BY <3>1, <4>2
      <4> QED BY <4>3 DEF Facts
    <3>3. /\ context' \in Seq(Messages) /\ context' \o ResultsTo(calls) \in Seq(Messages)
          /\ Paired(context' \o ResultsTo(calls))
      BY <1>1, <1>2, <3>2, CallsPaired
    <3> QED BY <1>2, <1>3, <3>3, OwedLater
  <2>2. CASE a.native = <<>>
    <3>1. calls = TextCalls(a.text) /\ ids = <<>>
      BY <1>c, <1>i, <2>2
    <3>2. PICK n \in Nat : DOMAIN calls = 1..n /\ \A k \in 1..n : calls[k].id = <<>>
      BY <3>1, TextCallsAre
    <3>3. ids \in Seq(CallIds)
      BY <3>1
    <3>4. /\ context' \in Seq(Messages) /\ context' \o ResultsTo(calls) \in Seq(Messages)
          /\ Paired(context' \o ResultsTo(calls))
      BY <1>1, <1>2, <3>1, <3>2, <3>3, CallsPaired
    <3> QED BY <1>2, <1>3, <3>4, OwedLater
  <2> QED BY <2>1, <2>2
<1>7. ShownInv'
  BY <1>3 DEF ShownInv
<1>8. FailureInv'
  BY <1>1, <1>3, <1>4 DEF ToolLoopInv, FailureInv, Turns
<1>9. AskedInv'
  <2>1. PICK share \in Nat : share = turn.iteration * Share
    BY <1>0, <1>1, Shares DEF Share, Turns
  <2>2. asked <= share + turn.retry /\ turn.iteration < MaxIterations /\ turn.iteration <= MaxIterations /\ turn.retry <= MaxContextRetries
    BY <1>1, <2>1 DEF ToolLoopInv, AskedInv
  <2>3. asked' <= share + turn'.retry + 1 /\ asked' \in Nat /\ turn'.retry <= MaxContextRetries
    BY <1>0, <1>1, <1>3, <2>2 DEF Turns
  <2>4. turn'.iteration * Share = share
    BY <1>3, <2>1
  <2> QED BY <1>3, <2>2, <2>3, <2>4 DEF AskedInv, Share
<1> QED BY <1>5, <1>6, <1>7, <1>8, <1>9 DEF ToolLoopInv

LEMMA ReturnsKeep ==
  ASSUME ToolLoopInv, NEW n \in DOMAIN slots, NEW ok \in BOOLEAN, ToolReturns(n, ok)
  PROVE  ToolLoopInv'
<1>1. /\ turn.step = "tools" /\ slots[n] = "running" /\ slots' = [slots EXCEPT ![n] = IF ok THEN "done" ELSE "failed"]
      /\ failures \in [any : BOOLEAN, checked : BOOLEAN] /\ failures' = [failures EXCEPT !.any = @ \/ ~ok]
      /\ turn' = turn /\ asked' = asked /\ UNCHANGED <<context, pending>>
  BY DEF ToolReturns, ToolLoopInv, TurnTypes
<1>2. failures' \in [any : BOOLEAN, checked : BOOLEAN] /\ failures'.any = (failures.any \/ ~ok)
  BY <1>1
<1>3. TurnTypes'
  BY <1>1, <1>2 DEF ToolLoopInv, TurnTypes
<1>4. ContextInv'
  BY <1>1, ContextKept DEF ToolLoopInv
<1>5. ShownInv'
  BY <1>1 DEF ToolLoopInv, ShownInv
<1>6. FailureInv'
  <2>1. failures'.any => turn.toolError \/ \E m \in DOMAIN slots : slots'[m] = "failed"
    <3>1. CASE ok
      <4>1. failures'.any => turn.toolError \/ \E m \in DOMAIN slots : slots[m] = "failed"
        BY <1>1, <1>2, <3>1 DEF ToolLoopInv, FailureInv
      <4>2. \A m \in DOMAIN slots : slots[m] = "failed" => slots'[m] = "failed"
        BY <1>1
      <4> QED BY <4>1, <4>2
    <3>2. CASE ~ok
      BY <1>1, <3>2
    <3> QED BY <3>1, <3>2
  <2>2. DOMAIN slots' = DOMAIN slots
    BY <1>1
  <2> QED BY <1>1, <2>1, <2>2 DEF FailureInv
<1>7. AskedInv'
  BY <1>1 DEF ToolLoopInv, AskedInv, Share
<1> QED BY <1>3, <1>4, <1>5, <1>6, <1>7 DEF ToolLoopInv

LEMMA PushKeeps ==
  ASSUME ToolLoopInv, PushResults
  PROVE  ToolLoopInv'
<1>0. MaxIterations \in Nat /\ MaxContextRetries \in Nat
  BY ToolLoopAssumption
<1>e. PICK e \in BOOLEAN : e = (turn.toolError \/ \E n \in DOMAIN slots : slots[n] = "failed")
  OBVIOUS
<1>s. PICK step \in {"failed", "ask"} : step = IF turn.iteration + 1 = MaxIterations THEN "failed" ELSE "ask"
  OBVIOUS
<1>1. /\ turn.step = "tools" /\ turn \in Turns /\ asked' = asked /\ failures' = failures
      /\ turn' = [turn EXCEPT !.step = step, !.iteration = @ + 1, !.retry = 0, !.toolError = e]
      /\ context' = context \o Results
  BY <1>e, <1>s DEF PushResults, ErrorSoFar, ToolLoopInv, TurnTypes
<1>2. /\ turn' \in Turns /\ turn'.step = step
      /\ turn'.iteration = turn.iteration + 1 /\ turn'.retry = 0 /\ turn'.toolError = e /\ turn'.streaming = turn.streaming
  <2>1. PICK i \in Nat : i = turn.iteration + 1
    BY <1>1 DEF Turns
  <2>2. turn' = [turn EXCEPT !.step = step, !.iteration = i, !.retry = 0, !.toolError = e] /\ turn \in Turns
    BY <1>1, <2>1
  <2>3. turn' \in Turns
    BY <2>2 DEF Turns, TurnSteps
  <2>4. turn'.step = step /\ turn'.iteration = i /\ turn'.retry = 0 /\ turn'.streaming = turn.streaming
    BY <2>2 DEF Turns
  <2>5. turn'.toolError = e
    BY <2>2, Zenon DEF Turns
  <2> QED BY <2>1, <2>3, <2>4, <2>5
<1>3. TurnTypes'
  BY <1>1, <1>2 DEF ToolLoopInv, TurnTypes
<1>4. ContextInv'
  <2>1. context' = context \o ResultsTo(pending)
    BY <1>1, ResultsInOrder
  <2>2. context' \in Seq(Messages) /\ Paired(context')
    BY <1>1, <2>1 DEF ToolLoopInv, ContextInv
  <2> QED BY <1>2, <2>2 DEF ContextInv
<1>5. ShownInv'
  BY <1>2 DEF ShownInv
<1>6. FailureInv'
  <2>1. failures'.any => turn'.toolError
    BY <1>1, <1>2, <1>e DEF ToolLoopInv, FailureInv
  <2> QED BY <1>2, <2>1 DEF FailureInv
<1>7. AskedInv'
  <2>1. turn.iteration \in Nat /\ turn.retry \in Nat /\ Share \in Nat /\ Share = MaxContextRetries + 1
    BY <1>0, <1>1 DEF Turns, Share
  <2>2. PICK share \in Nat : share = turn.iteration * Share
    BY <2>1, Shares
  <2>3. /\ asked \in Nat /\ asked <= share + turn.retry + 1
        /\ turn.iteration < MaxIterations /\ turn.retry <= MaxContextRetries
    BY <1>1, <2>2 DEF ToolLoopInv, AskedInv
  <2>4. turn'.iteration * Share = share + Share
    BY <1>2, <2>1, <2>2, Shares
  <2>5. asked' <= turn'.iteration * Share + turn'.retry
    BY <1>0, <1>1, <1>2, <2>1, <2>3, <2>4
  <2>6. CASE turn.iteration + 1 = MaxIterations
    <3>0. turn'.iteration = MaxIterations
      BY <1>2, <2>6
    <3>1. asked' <= MaxIterations * Share
      <4>1. MaxIterations * Share = share + Share
        BY <2>4, <3>0
      <4>2. asked' <= share + Share
        BY <1>0, <1>1, <2>1, <2>3
      <4> QED BY <4>1, <4>2
    <3> QED BY <1>0, <1>1, <1>2, <1>s, <2>3, <2>6, <3>1 DEF AskedInv, Share
  <2>7. CASE turn.iteration + 1 # MaxIterations
    <3>1. turn'.iteration < MaxIterations /\ turn'.iteration <= MaxIterations
      BY <1>0, <1>2, <2>1, <2>3, <2>7
    <3> QED BY <1>0, <1>1, <1>2, <1>s, <2>3, <2>5, <2>7, <3>1 DEF AskedInv, Share
  <2> QED BY <2>6, <2>7
<1> QED BY <1>3, <1>4, <1>5, <1>6, <1>7 DEF ToolLoopInv

LEMMA AnswerKeeps ==
  ASSUME ToolLoopInv, NEW a \in ModelAnswers, ModelAnswersUser(a)
  PROVE  ToolLoopInv'
<1>0. MaxIterations \in Nat /\ MaxContextRetries \in Nat
  BY ToolLoopAssumption
<1>1. /\ turn.step = "ask" /\ turn \in Turns /\ asked' = asked + 1 /\ failures' = failures
      /\ context' = Append(context, Message("assistant", <<>>, <<>>))
      /\ context \in Seq(Messages) /\ Paired(context)
      /\ turn.streaming => streamed' = asked + 1
  BY DEF ModelAnswersUser, Asks, Shows, ToolLoopInv, TurnTypes, ContextInv
<1>2. /\ Reflects(a) => turn' = [turn EXCEPT !.step = "check"]
      /\ ~Reflects(a) => turn' = [turn EXCEPT !.step = "done"] /\ reply' = [of |-> asked + 1, corrected |-> FALSE, admits |-> a.admits]
  BY DEF ModelAnswersUser, Complete
<1>3. /\ turn' \in Turns /\ turn'.step = (IF Reflects(a) THEN "check" ELSE "done")
      /\ turn'.iteration = turn.iteration /\ turn'.retry = turn.retry /\ turn'.streaming = turn.streaming
  BY <1>1, <1>2 DEF Turns, TurnSteps
<1>4. TurnTypes'
  BY <1>1, <1>3 DEF ToolLoopInv, TurnTypes
<1>5. ContextInv'
  <2>1. context' \in Seq(Messages) /\ Paired(context')
    BY <1>1, SaidPaired
  <2> QED BY <1>3, <2>1 DEF ContextInv
<1>6. ShownInv'
  BY <1>1, <1>2, <1>3 DEF ShownInv, Reflects
<1>7. FailureInv'
  BY <1>1, <1>2, <1>3 DEF ToolLoopInv, FailureInv, Reflects
<1>8. AskedInv'
  <2>1. PICK all \in Nat : all = MaxIterations * Share /\ asked' \in Nat /\ asked' <= all
    BY <1>1, SharesLeft
  <2> QED BY <1>3, <2>1 DEF ToolLoopInv, AskedInv, Share
<1> QED BY <1>4, <1>5, <1>6, <1>7, <1>8 DEF ToolLoopInv

LEMMA CheckKeeps ==
  ASSUME ToolLoopInv, NEW complete \in BOOLEAN, Check(complete) \/ Fix(complete)
  PROVE  ToolLoopInv'
<1>0. MaxIterations \in Nat /\ MaxContextRetries \in Nat
  BY ToolLoopAssumption
<1>1. /\ turn \in Turns /\ asked' = asked + 1 /\ failures \in [any : BOOLEAN, checked : BOOLEAN] /\ UNCHANGED <<context, pending>>
      /\ \/ /\ turn.step = "check" /\ failures' = [failures EXCEPT !.checked = TRUE]
            /\ \/ turn' = [turn EXCEPT !.step = "done"] \/ turn' = [turn EXCEPT !.step = "fix"]
         \/ turn.step = "fix" /\ failures' = failures /\ turn' = [turn EXCEPT !.step = "done"]
  BY DEF Check, Fix, Complete, ToolLoopInv, TurnTypes
<1>2. /\ turn' \in Turns /\ turn'.iteration = turn.iteration /\ turn'.retry = turn.retry /\ turn'.streaming = turn.streaming
      /\ \/ turn.step = "check" /\ turn'.step \in {"done", "fix"}
         \/ turn.step = "fix" /\ turn'.step = "done"
  BY <1>1 DEF Turns, TurnSteps
<1>3. failures' \in [any : BOOLEAN, checked : BOOLEAN] /\ failures'.checked
  BY <1>1 DEF ToolLoopInv, FailureInv
<1>4. TurnTypes'
  BY <1>2, <1>3 DEF TurnTypes
<1>5. ContextInv'
  BY <1>1, <1>2, ContextKept DEF ToolLoopInv
<1>6. ShownInv' /\ FailureInv'
  BY <1>2, <1>3 DEF ToolLoopInv, ShownInv, FailureInv
<1>7. AskedInv'
  <2>1. PICK all \in Nat : all = MaxIterations * Share
    BY <1>0, Shares DEF Share
  <2> QED BY <1>0, <1>1, <1>2, <2>1 DEF ToolLoopInv, AskedInv, Share
<1> QED BY <1>4, <1>5, <1>6, <1>7 DEF ToolLoopInv

LEMMA ToolLoopKeeps == ToolLoopInv /\ [ToolLoopNext]_toolLoopVars => ToolLoopInv'
<1> SUFFICES ASSUME ToolLoopInv, [ToolLoopNext]_toolLoopVars PROVE ToolLoopInv'
  OBVIOUS
<1>1. CASE ToolLoopNext
  BY <1>1, BeginKeeps, RetryKeeps, FailKeeps, CallsKeep, AnswerKeeps, ReturnsKeep, PushKeeps, CheckKeeps DEF ToolLoopNext
<1>2. CASE UNCHANGED toolLoopVars
  <2>1. ContextInv'
    BY <1>2, ContextKept DEF toolLoopVars, ToolLoopInv
  <2> QED BY <1>2, <2>1 DEF toolLoopVars, ToolLoopInv, TurnTypes, ShownInv, FailureInv, AskedInv, Share
<1> QED BY <1>1, <1>2

(* Of any context and any answers, a turn of the engine sends the model    *)
(* every call with its results and nothing less than the whole context,    *)
(* records what the reader saw, checks an answer that passes over a        *)
(* failure, and asks no more often than its iterations and retries allow   *)
(* (run_tool_loop_with_options of engine.rs, build_messages of             *)
(* anthropic.rs).                                                          *)
THEOREM AnyTurnIsWhole == ToolLoopSpec => []TurnIsWhole
<1>1. ToolLoopInv => TurnIsWhole
  <2> SUFFICES ASSUME ToolLoopInv PROVE TurnIsWhole
    OBVIOUS
  <2>1. CallsMeetResults
    <3>1. CASE turn.step \in {"ask", "check", "fix"}
      BY <3>1, PairsAreSent DEF ToolLoopInv, ContextInv
    <3>2. CASE turn.step \notin {"ask", "check", "fix"}
      BY <3>2 DEF CallsMeetResults
    <3> QED BY <3>1, <3>2
  <2>2. NothingIsLeftUnsaid
    BY AllIsSaid DEF ToolLoopInv, ContextInv
  <2>3. ShownIsSaid /\ ErrorsAreChecked
    BY DEF ToolLoopInv, ShownInv, FailureInv, ShownIsSaid, ErrorsAreChecked
  <2>4. AskedInBounds
    <3>0. MaxIterations \in Nat /\ Share \in Nat
      BY ToolLoopAssumption DEF Share
    <3>1. PICK all \in Nat : all = MaxIterations * Share
      BY <3>0, Shares
    <3>2. turn.iteration \in Nat /\ turn.step \in TurnSteps
      BY DEF ToolLoopInv, TurnTypes, Turns
    <3>3. turn.step = "tools" => asked <= all
      <4> SUFFICES ASSUME turn.step = "tools" PROVE asked <= all
        OBVIOUS
      <4>1. PICK share \in Nat : share = turn.iteration * Share
        BY <3>0, <3>2, Shares
      <4>2. asked \in Nat /\ asked <= share + turn.retry + 1 /\ turn.iteration < MaxIterations /\ turn.retry <= MaxContextRetries
        BY <4>1 DEF ToolLoopInv, AskedInv
      <4>3. turn.retry \in Nat /\ Share = MaxContextRetries + 1 /\ MaxContextRetries \in Nat
        BY ToolLoopAssumption DEF ToolLoopInv, TurnTypes, Turns, Share
      <4>4. share + Share <= all
        BY <3>0, <3>1, <3>2, <4>1, <4>2, Shares
      <4> QED BY <4>2, <4>3, <4>4
    <3>4. asked \in Nat /\ asked <= all + 2
      <4>1. turn.step = "ask" => asked + 1 <= all
        BY <3>1, SharesLeft
      <4> QED BY <3>1, <3>2, <3>3, <4>1 DEF ToolLoopInv, AskedInv, TurnSteps
    <3> QED BY <3>1, <3>4 DEF AskedInBounds, Share
  <2> QED BY <2>1, <2>2, <2>3, <2>4 DEF TurnIsWhole
<1> QED BY <1>1, ToolLoopStarts, ToolLoopKeeps, PTL DEF ToolLoopSpec

-----------------------------------------------------------------------------
(* Streams.  First sequences joined together, and lists of them.           *)
LEMMA JoinOf ==
  ASSUME NEW S, NEW s \in Seq(S), NEW t \in Seq(S)
  PROVE  /\ s \o t \in Seq(S) /\ Len(s) \in Nat /\ Len(t) \in Nat /\ Len(s \o t) = Len(s) + Len(t)
         /\ \A j \in 1 .. Len(s) : (s \o t)[j] = s[j]
         /\ \A j \in 1 .. Len(t) : (s \o t)[Len(s) + j] = t[j]
OBVIOUS

LEMMA OneAfter ==
  ASSUME NEW S, NEW s \in Seq(S), NEW x \in S
  PROVE  /\ Append(s, x) \in Seq(S) /\ Len(s) \in Nat /\ Len(Append(s, x)) = Len(s) + 1
         /\ \A j \in 1 .. Len(s) : Append(s, x)[j] = s[j]
         /\ Append(s, x)[Len(s) + 1] = x
         /\ s \o <<x>> = Append(s, x) /\ s \o <<>> = s
OBVIOUS

LEMMA SameLists ==
  ASSUME NEW S, NEW T, NEW s \in Seq(S), NEW t \in Seq(T), Len(s) = Len(t), \A i \in 1 .. Len(s) : s[i] = t[i]
  PROVE  s = t
OBVIOUS

LEMMA ListOf ==
  ASSUME NEW S, NEW n \in Nat, NEW f, f = [i \in 1..n |-> f[i]], \A i \in 1..n : f[i] \in S
  PROVE  f \in Seq(S) /\ Len(f) = n
OBVIOUS

LEMMA OneLong ==
  ASSUME NEW S, NEW x \in S
  PROVE  <<x>> \in Seq(S) /\ Len(<<x>>) = 1 /\ <<x>>[1] = x
OBVIOUS

LEMMA TwoLong ==
  ASSUME NEW S, NEW x \in S, NEW y \in S
  PROVE  <<x, y>> \in Seq(S) /\ Len(<<x, y>>) = 2 /\ <<x, y>>[1] = x /\ <<x, y>>[2] = y
OBVIOUS

LEMMA PartOf ==
  ASSUME NEW S, NEW s \in Seq(S), NEW k \in Nat, NEW n \in Nat, k + n <= Len(s)
  PROVE  LET p == SubSeq(s, k + 1, k + n)
         IN /\ p \in Seq(S) /\ Len(p) = n
            /\ \A j \in 1..n : p[j] = s[k + j] /\ k + j \in 1 .. Len(s)
OBVIOUS

LEMMA OneMore ==
  ASSUME NEW S, NEW s \in Seq(S), NEW n \in 1 .. Len(s)
  PROVE  SubSeq(s, 1, n) = Append(SubSeq(s, 1, n - 1), s[n])
<1> DEFINE p == SubSeq(s, 1, n)
           q == SubSeq(s, 1, n - 1)
<1>1. n \in Nat /\ n - 1 \in Nat /\ Len(s) \in Nat /\ s[n] \in S
  OBVIOUS
<1>2. p \in Seq(S) /\ Len(p) = n /\ \A j \in 1..n : p[j] = s[j]
  BY <1>1
<1>3. q \in Seq(S) /\ Len(q) = n - 1 /\ \A j \in 1..(n - 1) : q[j] = s[j]
  BY <1>1
<1> HIDE DEF p, q
<1>4. /\ Append(q, s[n]) \in Seq(S) /\ Len(Append(q, s[n])) = n
      /\ \A j \in 1..n : Append(q, s[n])[j] = s[j]
  <2> DEFINE r == Append(q, s[n])
  <2>1. /\ r \in Seq(S) /\ Len(q) \in Nat /\ Len(r) = Len(q) + 1 /\ r[Len(q) + 1] = s[n]
        /\ \A j \in 1 .. Len(q) : r[j] = q[j]
    BY <1>1, <1>3, OneAfter
  <2> HIDE DEF r
  <2>2. \A j \in 1..n : j = n \/ j \in 1..(n - 1)
    BY <1>1
  <2>3. Len(r) = n /\ Len(q) + 1 = n
    BY <1>1, <1>3, <2>1
  <2> QED BY <1>3, <2>1, <2>2, <2>3 DEF r
<1>5. p = Append(q, s[n])
  <2> DEFINE r == Append(q, s[n])
  <2> HIDE DEF r
  <2>1. r \in Seq(S) /\ Len(p) = Len(r) /\ \A j \in 1 .. Len(p) : p[j] = r[j]
    BY <1>2, <1>4 DEF r
  <2> QED BY <1>2, <2>1, SameLists DEF r
<1> QED BY <1>5 DEF p, q

JoinStep(ss, f, n) == IF n = 0 THEN <<>> ELSE f[n - 1] \o ss[n]

LEMMA JoinsAre ==
  ASSUME NEW ss, Len(ss) \in Nat
  PROVE  /\ Joins(ss)[0] = <<>>
         /\ \A n \in 1 .. Len(ss) : Joins(ss)[n] = Joins(ss)[n - 1] \o ss[n]
<1> PICK l \in Nat : l = Len(ss)
  OBVIOUS
<1> DEFINE Fits(k, f) == f = [n \in 0..k |-> JoinStep(ss, f, n)]
           bad == {k \in 0..l : \A f : ~Fits(k, f)}
<1>1. bad = {}
  <2> SUFFICES ASSUME bad # {} PROVE FALSE
    OBVIOUS
  <2>1. PICK b \in bad : \A k \in bad : b <= k
    <3>1. bad \in SUBSET Nat
      OBVIOUS
    <3> HIDE DEF bad
    <3> QED BY <3>1, LeastNumber
  <2>2. b \in 0..l /\ \A f : ~Fits(b, f)
    OBVIOUS
  <2>3. CASE b = 0
    <3> DEFINE f == [n \in 0..0 |-> JoinStep(ss, <<>>, 0)]
    <3>1. \A n \in 0..0 : f[n] = JoinStep(ss, f, n)
      BY DEF JoinStep
    <3>2. f = [n \in 0..0 |-> f[n]]
      OBVIOUS
    <3>3. Fits(0, f)
      <4> HIDE DEF f
      <4> QED BY <3>1, <3>2
    <3> HIDE DEF Fits
    <3> QED BY <2>2, <2>3, <3>3
  <2>4. CASE b # 0
    <3> PICK c \in Nat : c = b - 1 /\ b = c + 1
      BY <2>2, <2>4
    <3>1. \E f : Fits(c, f)
      <4>1. c \in 0..l /\ ~(b <= c)
        BY <2>2
      <4>2. c \notin bad
        <5> HIDE DEF bad
        <5> QED BY <2>1, <4>1
      <4> QED BY <4>1, <4>2
    <3>2. PICK f : Fits(c, f)
      <4> HIDE DEF Fits
      <4> QED BY <3>1
    <3> DEFINE g == [n \in 0..b |-> IF n = b THEN JoinStep(ss, f, b) ELSE f[n]]
    <3>3. \A n \in 0..c : f[n] = JoinStep(ss, f, n)
      BY <3>2
    <3>4. \A n \in 0..b : g[n] = JoinStep(ss, f, n)
      BY <3>3
    <3>5. \A n \in 0..b : JoinStep(ss, g, n) = JoinStep(ss, f, n)
      <4>1. ASSUME NEW n \in 0..b, n # 0 PROVE g[n - 1] = f[n - 1]
        <5>1. n - 1 \in 0..b /\ n - 1 # b
          BY <2>2, <4>1
        <5> QED BY <5>1, Zenon
      <4> HIDE DEF g
      <4> QED BY <4>1 DEF JoinStep
    <3>6. g = [n \in 0..b |-> g[n]]
      OBVIOUS
    <3>7. Fits(b, g)
      <4> HIDE DEF g
      <4> QED BY <3>4, <3>5, <3>6
    <3> HIDE DEF Fits
    <3> QED BY <2>2, <3>7
  <2> QED BY <2>3, <2>4
<1>2. PICK f : Fits(l, f)
  <2>1. \E f : Fits(l, f)
    <3>1. l \in 0..l /\ l \notin bad
      BY <1>1
    <3> QED BY <3>1
  <2> HIDE DEF Fits
  <2> QED BY <2>1
<1>3. f = [n \in 0 .. Len(ss) |-> IF n = 0 THEN <<>> ELSE f[n - 1] \o ss[n]]
  BY <1>2, Zenon DEF JoinStep
<1>4. Joins(ss) = [n \in 0 .. Len(ss) |-> IF n = 0 THEN <<>> ELSE Joins(ss)[n - 1] \o ss[n]]
  BY <1>3, Zenon DEF Joins
<1>5. \A n \in 0..l : Joins(ss)[n] = JoinStep(ss, Joins(ss), n)
  <2>1. Joins(ss) = [n \in 0..l |-> JoinStep(ss, Joins(ss), n)]
    BY <1>4, Zenon DEF JoinStep
  <2> QED BY <2>1
<1>6. Joins(ss)[0] = <<>>
  BY <1>5 DEF JoinStep
<1>7. ASSUME NEW n \in 1..l PROVE Joins(ss)[n] = Joins(ss)[n - 1] \o ss[n]
  <2>1. n \in 0..l /\ n # 0
    OBVIOUS
  <2> QED BY <1>5, <2>1, Zenon DEF JoinStep
<1> QED BY <1>6, <1>7

LEMMA JoinsTyped ==
  ASSUME NEW S, NEW ss \in Seq(Seq(S))
  PROVE  /\ \A n \in 0 .. Len(ss) : Joins(ss)[n] \in Seq(S)
         /\ \A n \in 1 .. Len(ss) : Len(Joins(ss)[n]) = Len(Joins(ss)[n - 1]) + Len(ss[n])
<1> DEFINE l == Len(ss)
           bad == {n \in 0..l : Joins(ss)[n] \notin Seq(S)}
<1>0. l \in Nat /\ \A n \in 1..l : ss[n] \in Seq(S)
  OBVIOUS
<1>1. Joins(ss)[0] = <<>> /\ \A n \in 1..l : Joins(ss)[n] = Joins(ss)[n - 1] \o ss[n]
  BY <1>0, JoinsAre
<1>2. bad = {}
  <2> SUFFICES ASSUME bad # {} PROVE FALSE
    OBVIOUS
  <2>1. PICK b \in bad : \A k \in bad : b <= k
    <3>1. bad \in SUBSET Nat
      BY <1>0
    <3> HIDE DEF bad
    <3> QED BY <3>1, LeastNumber
  <2>2. b \in 0..l /\ Joins(ss)[b] \notin Seq(S)
    OBVIOUS
  <2>3. b # 0
    <3>1. <<>> \in Seq(S)
      OBVIOUS
    <3> HIDE DEF bad, l
    <3> QED BY <1>1, <2>2, <3>1
  <2>4. b \in 1..l /\ b - 1 \in 0..l /\ ~(b <= b - 1)
    BY <1>0, <2>2, <2>3
  <2>5. Joins(ss)[b - 1] \in Seq(S)
    BY <2>1, <2>4
  <2>6. Joins(ss)[b] = Joins(ss)[b - 1] \o ss[b] /\ ss[b] \in Seq(S)
    BY <1>0, <1>1, <2>4
  <2> HIDE DEF bad, l
  <2> QED BY <2>2, <2>5, <2>6
<1>3. ASSUME NEW n \in 1..l PROVE Len(Joins(ss)[n]) = Len(Joins(ss)[n - 1]) + Len(ss[n])
  <2>1. n - 1 \in 0..l /\ n \in 0..l
    BY <1>0
  <2>2. Joins(ss)[n - 1] \in Seq(S) /\ ss[n] \in Seq(S)
    BY <1>0, <1>2, <2>1
  <2>3. Joins(ss)[n] = Joins(ss)[n - 1] \o ss[n]
    BY <1>1
  <2> QED BY <2>2, <2>3, JoinOf
<1> QED BY <1>2, <1>3

(* The beginning of a list joined together depends on nothing behind it.   *)
LEMMA JoinsAgree ==
  ASSUME NEW ss, NEW tt, Len(ss) \in Nat, Len(tt) \in Nat, NEW l \in Nat, l <= Len(ss), l <= Len(tt),
         \A n \in 1..l : ss[n] = tt[n]
  PROVE  \A n \in 0..l : Joins(ss)[n] = Joins(tt)[n]
<1> DEFINE bad == {n \in 0..l : Joins(ss)[n] # Joins(tt)[n]}
<1>0. \A n \in 1..l : n \in 1 .. Len(ss) /\ n \in 1 .. Len(tt)
  OBVIOUS
<1>1. Joins(ss)[0] = <<>> /\ \A n \in 1 .. Len(ss) : Joins(ss)[n] = Joins(ss)[n - 1] \o ss[n]
  BY JoinsAre
<1>2. Joins(tt)[0] = <<>> /\ \A n \in 1 .. Len(tt) : Joins(tt)[n] = Joins(tt)[n - 1] \o tt[n]
  BY JoinsAre
<1>3. bad = {}
  <2> SUFFICES ASSUME bad # {} PROVE FALSE
    OBVIOUS
  <2>1. PICK b \in bad : \A k \in bad : b <= k
    <3>1. bad \in SUBSET Nat
      OBVIOUS
    <3> HIDE DEF bad
    <3> QED BY <3>1, LeastNumber
  <2>2. b \in 0..l /\ Joins(ss)[b] # Joins(tt)[b]
    OBVIOUS
  <2>3. b # 0
    BY <1>1, <1>2, <2>2
  <2>4. b \in 1..l /\ b - 1 \in 0..l /\ ~(b <= b - 1)
    BY <2>2, <2>3
  <2>5. Joins(ss)[b - 1] = Joins(tt)[b - 1]
    BY <2>1, <2>4
  <2> HIDE DEF bad
  <2> QED BY <1>0, <1>1, <1>2, <2>2, <2>4, <2>5
<1> QED BY <1>3

(* What is joined on leaves what was there in its place.                   *)
LEMMA JoinsGrow ==
  ASSUME NEW S, NEW ss \in Seq(Seq(S)), NEW m \in 0 .. Len(ss)
  PROVE  \A n \in m .. Len(ss) :
           /\ Len(Joins(ss)[m]) <= Len(Joins(ss)[n])
           /\ \A j \in 1 .. Len(Joins(ss)[m]) : Joins(ss)[n][j] = Joins(ss)[m][j]
<1> DEFINE l == Len(ss)
           J(n) == Joins(ss)[n]
           Grew(n) == Len(J(m)) <= Len(J(n)) /\ \A j \in 1 .. Len(J(m)) : J(n)[j] = J(m)[j]
           bad == {n \in m..l : ~Grew(n)}
<1>0. l \in Nat /\ m \in Nat /\ \A n \in 1..l : ss[n] \in Seq(S)
  OBVIOUS
<1>1. \A n \in 1..l : J(n) = J(n - 1) \o ss[n]
  BY <1>0, JoinsAre
<1>2. \A n \in 0..l : J(n) \in Seq(S)
  BY JoinsTyped
<1> HIDE DEF J
<1>3. bad = {}
  <2> SUFFICES ASSUME bad # {} PROVE FALSE
    OBVIOUS
  <2>1. PICK b \in bad : \A k \in bad : b <= k
    <3>1. bad \in SUBSET Nat
      BY <1>0
    <3> HIDE DEF bad
    <3> QED BY <3>1, LeastNumber
  <2>2. b \in m..l /\ ~Grew(b)
    OBVIOUS
  <2>3. Len(J(m)) \in Nat
    BY <1>0, <1>2
  <2>4. b # m
    BY <2>2, <2>3
  <2>5. b \in 1..l /\ b - 1 \in m..l /\ ~(b <= b - 1) /\ b - 1 \in 0..l
    BY <1>0, <2>2, <2>4
  <2>6. Grew(b - 1)
    <3> HIDE DEF Grew
    <3> QED BY <2>1, <2>5
  <2>7. J(b) = J(b - 1) \o ss[b] /\ ss[b] \in Seq(S) /\ J(b - 1) \in Seq(S)
    BY <1>0, <1>1, <1>2, <2>5
  <2>8. Len(J(b)) = Len(J(b - 1)) + Len(ss[b]) /\ \A j \in 1 .. Len(J(b - 1)) : J(b)[j] = J(b - 1)[j]
    BY <2>7
  <2>9. Len(ss[b]) \in Nat /\ Len(J(b - 1)) \in Nat
    BY <2>7
  <2>10. \A j \in 1 .. Len(J(m)) : j \in 1 .. Len(J(b - 1))
    BY <2>3, <2>6, <2>9
  <2>11. Grew(b)
    <3>1. Len(J(m)) <= Len(J(b))
      <4>1. Len(J(m)) <= Len(J(b - 1))
        BY <2>6
      <4>2. Len(J(b)) = Len(J(b - 1)) + Len(ss[b])
        BY <2>8
      <4>3. \A x, y, z \in Nat : \A w : x <= y /\ w = y + z => x <= w
        OBVIOUS
      <4> QED BY <2>3, <2>9, <4>1, <4>2, <4>3, Zenon
    <3>2. \A j \in 1 .. Len(J(m)) : J(b)[j] = J(m)[j]
      BY <2>6, <2>8, <2>10
    <3> QED BY <3>1, <3>2
  <2> HIDE DEF Grew
  <2> QED BY <2>2, <2>11
<1> QED BY <1>3 DEF J

(* Where the parts stand in the whole.                                     *)
LEMMA JoinedPlaces ==
  ASSUME NEW S, NEW ss \in Seq(Seq(S)), NEW n \in 1 .. Len(ss)
  PROVE  /\ Concat(ss) \in Seq(S) /\ ss[n] \in Seq(S)
         /\ Len(Joins(ss)[n - 1]) \in Nat /\ Len(ss[n]) \in Nat
         /\ Len(Joins(ss)[n]) = Len(Joins(ss)[n - 1]) + Len(ss[n])
         /\ Len(Joins(ss)[n]) <= Len(Concat(ss))
         /\ \A j \in 1 .. Len(ss[n]) : Concat(ss)[Len(Joins(ss)[n - 1]) + j] = ss[n][j]
<1> DEFINE l == Len(ss)
           J(k) == Joins(ss)[k]
<1>0. l \in Nat /\ n \in Nat /\ n - 1 \in 0..l /\ n \in 0..l /\ l \in n..l /\ l \in 0..l
  OBVIOUS
<1>1. J(n) = J(n - 1) \o ss[n] /\ J(l) = Concat(ss)
  BY <1>0, JoinsAre DEF Concat
<1>2. J(n - 1) \in Seq(S) /\ J(n) \in Seq(S) /\ J(l) \in Seq(S) /\ ss[n] \in Seq(S)
  <2>1. \A k \in 0..l : J(k) \in Seq(S)
    BY JoinsTyped
  <2>2. ss[n] \in Seq(S)
    OBVIOUS
  <2> HIDE DEF J, l
  <2> QED BY <1>0, <2>1, <2>2
<1>3. Len(J(n)) <= Len(J(l)) /\ \A j \in 1 .. Len(J(n)) : J(l)[j] = J(n)[j]
  BY <1>0, JoinsGrow
<1> HIDE DEF J, l
<1>4. Len(J(n)) = Len(J(n - 1)) + Len(ss[n]) /\ Len(J(n - 1)) \in Nat /\ Len(ss[n]) \in Nat
  BY <1>1, <1>2
<1>5. \A j \in 1 .. Len(ss[n]) : J(n)[Len(J(n - 1)) + j] = ss[n][j] /\ Len(J(n - 1)) + j \in 1 .. Len(J(n))
  BY <1>1, <1>2, <1>4
<1>6. \A j \in 1 .. Len(ss[n]) : J(l)[Len(J(n - 1)) + j] = ss[n][j]
  BY <1>3, <1>5
<1> QED BY <1>1, <1>2, <1>3, <1>4, <1>6 DEF J

(* One more in a list that is gone through for what is in S.               *)
LEMMA AmongMore ==
  ASSUME NEW X, NEW S, NEW s \in Seq(X), NEW x \in X
  PROVE  /\ Among(s, S) \in Seq(X)
         /\ Among(Append(s, x), S) = IF x \in S THEN Append(Among(s, S), x) ELSE Among(s, S)
<1> DEFINE t == Append(s, x)
           Of(y) == IF y \in S THEN <<y>> ELSE <<>>
           ss == [n \in DOMAIN s |-> Of(s[n])]
           tt == [n \in DOMAIN t |-> Of(t[n])]
           l == Len(s)
<1>1. l \in Nat /\ t \in Seq(X) /\ Len(t) = l + 1 /\ t[l + 1] = x /\ \A n \in 1..l : t[n] = s[n]
  OBVIOUS
<1>2. \A y \in X : Of(y) \in Seq(X)
  OBVIOUS
<1> HIDE DEF Of, t
<1>3. ss \in Seq(Seq(X)) /\ Len(ss) = l /\ \A n \in 1..l : ss[n] = Of(s[n])
  <2>1. DOMAIN s = 1..l /\ \A n \in 1..l : s[n] \in X
    OBVIOUS
  <2>2. ss = [n \in 1..l |-> ss[n]] /\ \A n \in 1..l : ss[n] = Of(s[n])
    BY <2>1
  <2>3. \A n \in 1..l : ss[n] \in Seq(X)
    BY <1>2, <2>1, <2>2
  <2> HIDE DEF ss, l
  <2> QED BY <1>1, <2>2, <2>3, ListOf
<1>4. tt \in Seq(Seq(X)) /\ Len(tt) = l + 1 /\ \A n \in 1..(l + 1) : tt[n] = Of(t[n])
  <2>1. DOMAIN t = 1..(l + 1) /\ \A n \in 1..(l + 1) : t[n] \in X
    BY <1>1
  <2>2. tt = [n \in 1..(l + 1) |-> tt[n]] /\ \A n \in 1..(l + 1) : tt[n] = Of(t[n])
    BY <2>1
  <2>3. (\A n \in 1..(l + 1) : tt[n] \in Seq(X)) /\ l + 1 \in Nat
    BY <1>1, <1>2, <2>1, <2>2
  <2> HIDE DEF tt, l
  <2> QED BY <2>2, <2>3, ListOf
<1>5. Among(s, S) = Concat(ss) /\ Among(t, S) = Concat(tt)
  BY DEF Among, Of
<1> HIDE DEF ss, tt, l
<1>6. Joins(ss)[l] = Joins(tt)[l]
  <2>1. \A n \in 1..l : ss[n] = tt[n]
    BY <1>1, <1>3, <1>4
  <2>2. l \in Nat /\ l \in 0..l /\ Len(ss) \in Nat /\ Len(tt) \in Nat /\ l <= Len(ss) /\ l <= Len(tt)
    BY <1>1, <1>3, <1>4
  <2> QED BY <2>1, <2>2, JoinsAgree
<1>7. Joins(tt)[l + 1] = Joins(tt)[l] \o Of(x)
  <2>1. l + 1 \in 1..(l + 1) /\ (l + 1) - 1 = l /\ l + 1 \in Nat
    BY <1>1
  <2>2. Len(tt) = l + 1 /\ tt[l + 1] = Of(t[l + 1]) /\ t[l + 1] = x
    BY <1>1, <1>4, <2>1
  <2>3. l + 1 \in 1 .. Len(tt) /\ Len(tt) \in Nat /\ tt[l + 1] = Of(x)
    BY <2>1, <2>2
  <2> QED BY <2>1, <2>3, JoinsAre
<1>8. Joins(ss)[l] \in Seq(X)
  <2>1. l \in 0 .. Len(ss)
    BY <1>1, <1>3
  <2> QED BY <1>3, <2>1, JoinsTyped
<1>9. Among(s, S) = Joins(ss)[l] /\ Among(t, S) = Joins(ss)[l] \o Of(x)
  BY <1>3, <1>4, <1>5, <1>6, <1>7 DEF Concat
<1>10. CASE x \in S
  <2>1. Of(x) = <<x>>
    BY <1>10 DEF Of
  <2>2. Joins(ss)[l] \o <<x>> = Append(Joins(ss)[l], x)
    BY <1>8
  <2> QED BY <1>8, <1>9, <1>10, <2>1, <2>2 DEF t
<1>11. CASE x \notin S
  <2>1. Of(x) = <<>>
    BY <1>11 DEF Of
  <2>2. Joins(ss)[l] \o <<>> = Joins(ss)[l]
    BY <1>8
  <2> QED BY <1>8, <1>9, <1>11, <2>1, <2>2 DEF t
<1> QED BY <1>10, <1>11

LEMMA AmongNone == ASSUME NEW S PROVE Among(<<>>, S) = <<>>
<1> DEFINE ss == [n \in DOMAIN <<>> |-> IF <<>>[n] \in S THEN <<<<>>[n]>> ELSE <<>>]
<1>1. Len(ss) = 0
  OBVIOUS
<1>2. Among(<<>>, S) = Joins(ss)[0]
  BY <1>1 DEF Among, Concat
<1> HIDE DEF ss
<1>3. Len(ss) \in Nat
  BY <1>1
<1> QED BY <1>2, <1>3, JoinsAre

(* What the service sends.                                                 *)
EventSet ==
  [kind : {"text", "block", "tool", "json", "usage", "end"}, block : Nat,
   part : Nat \cup (Nat \X Nat), how : {"plain", "wide"}]
UnitSet == [event : Nat, unit : {"bytes", "first byte", "last byte", "newline"}, good : BOOLEAN]

StreamTypes ==
  /\ dialect \in Dialects /\ said \in Seq(BlockSet) /\ cutWide \in BOOLEAN
  /\ read \in Nat /\ buffer \in Seq(UnitSet)

BlockEnd(b) == Len(Joins(Blocks(dialect, said))[b])
LineStart(m) == Len(Joins(Lines)[m])

(* What begins a block, and the number that its events carry.              *)
Opens(b) == IF IsTool(said, b) \/ dialect = "anthropic" THEN 1 ELSE 0
NumberOf(b) == IF dialect # "anthropic" /\ IsTool(said, b) THEN ToolNumber(said, b) ELSE b

LEMMA SaidFacts ==
  ASSUME StreamTypes
  PROVE  /\ Len(said) \in Nat /\ DOMAIN said = 1 .. Len(said)
         /\ \A b \in 1 .. Len(said) :
              /\ said[b] \in BlockSet /\ said[b].kind \in {"text", "thought", "tool"}
              /\ said[b].parts \in Seq({"plain", "wide"})
              /\ Len(said[b].parts) \in Nat /\ DOMAIN said[b].parts = 1 .. Len(said[b].parts)
<1>1. said \in Seq(BlockSet)
  BY DEF StreamTypes
<1>2. \A b \in 1 .. Len(said) : said[b] \in BlockSet
  BY <1>1
<1>3. \A x \in BlockSet : x.kind \in {"text", "thought", "tool"} /\ x.parts \in Seq({"plain", "wide"})
  BY DEF BlockSet
<1> QED BY <1>1, <1>2, <1>3

LEMMA ToolNumbers ==
  ASSUME StreamTypes
  PROVE  /\ ToolNumber(said, 0) = 0
         /\ \A b \in 0 .. Len(said) : ToolNumber(said, b) \in Nat
         /\ \A b \in 1 .. Len(said) :
              ToolNumber(said, b) = ToolNumber(said, b - 1) + (IF IsTool(said, b) THEN 1 ELSE 0)
<1> DEFINE T(b) == {i \in 1..b : IsTool(said, i)}
<1>1. ASSUME NEW b \in Nat PROVE IsFiniteSet(T(b))
  <2>1. IsFiniteSet(1..b) /\ T(b) \subseteq 1..b
    BY FS_Interval
  <2> QED BY <2>1, FS_Subset
<1>2. \A b \in Nat : Cardinality(T(b)) \in Nat
  BY <1>1, FS_CardinalityType
<1>3. T(0) = {}
  OBVIOUS
<1>4. ASSUME NEW b \in 1 .. Len(said)
      PROVE  Cardinality(T(b)) = Cardinality(T(b - 1)) + (IF IsTool(said, b) THEN 1 ELSE 0)
  <2>0. b \in Nat /\ b - 1 \in Nat
    BY SaidFacts
  <2>1. CASE IsTool(said, b)
    <3>1. T(b) = T(b - 1) \cup {b} /\ b \notin T(b - 1)
      BY <2>0, <2>1
    <3> HIDE DEF T
    <3>2. Cardinality(T(b - 1) \cup {b}) = Cardinality(T(b - 1)) + 1
      BY <1>1, <2>0, <3>1, FS_AddElement
    <3> QED BY <2>1, <3>1, <3>2
  <2>2. CASE ~IsTool(said, b)
    <3>1. T(b) = T(b - 1)
      BY <2>0, <2>2
    <3> HIDE DEF T
    <3> QED BY <1>2, <2>0, <2>2, <3>1
  <2> QED BY <2>1, <2>2
<1>5. Cardinality(T(0)) = 0
  BY <1>3, FS_EmptySet
<1>6. \A b \in 0 .. Len(said) : b \in Nat
  BY SaidFacts
<1> HIDE DEF T
<1>7. \A b : ToolNumber(said, b) = Cardinality(T(b))
  BY DEF ToolNumber, T
<1> QED BY <1>2, <1>4, <1>5, <1>6, <1>7

LEMMA BlockEventsAre ==
  ASSUME StreamTypes, NEW b \in 1 .. Len(said)
  PROVE  LET es == BlockEvents(dialect, said, b)
             n == Len(said[b].parts)
         IN /\ es \in Seq(EventSet) /\ Len(es) = Opens(b) + n
            /\ IsTool(said, b) => es[1] = Event("tool", NumberOf(b), b, "plain")
            /\ ~IsTool(said, b) /\ dialect = "anthropic" => es[1] = Event("block", b, b, "plain")
            /\ \A i \in 1..n : es[Opens(b) + i] =
                 Event(IF IsTool(said, b) THEN "json" ELSE "text", NumberOf(b), <<b, i>>, said[b].parts[i])
<1> DEFINE parts == said[b].parts
           n == Len(parts)
           k == NumberOf(b)
           of == IF IsTool(said, b) THEN "json" ELSE "text"
           begin == IF IsTool(said, b) THEN <<Event("tool", k, b, "plain")>>
                    ELSE IF dialect = "anthropic" THEN <<Event("block", k, b, "plain")>> ELSE <<>>
           ends == [i \in 1..n |-> Event(of, k, <<b, i>>, parts[i])]
<1>1. b \in Nat /\ n \in Nat /\ DOMAIN parts = 1..n /\ \A i \in 1..n : parts[i] \in {"plain", "wide"}
  BY SaidFacts
<1>2. k \in Nat
  BY <1>1, ToolNumbers, SaidFacts DEF NumberOf
<1>3. BlockEvents(dialect, said, b) = begin \o ends
  BY <1>1 DEF BlockEvents, NumberOf
<1> HIDE DEF k, parts
<1>4. ends \in Seq(EventSet) /\ Len(ends) = n /\ \A i \in 1..n : ends[i] = Event(of, k, <<b, i>>, parts[i])
  <2>1. \A i \in 1..n : Event(of, k, <<b, i>>, parts[i]) \in EventSet
    BY <1>1, <1>2 DEF Event, EventSet
  <2> QED BY <1>1, <2>1
<1>5. /\ begin \in Seq(EventSet) /\ Len(begin) = Opens(b)
      /\ IsTool(said, b) => begin[1] = Event("tool", k, b, "plain")
      /\ ~IsTool(said, b) /\ dialect = "anthropic" => begin[1] = Event("block", k, b, "plain")
  <2>1. Event("tool", k, b, "plain") \in EventSet /\ Event("block", k, b, "plain") \in EventSet
    BY <1>1, <1>2 DEF Event, EventSet
  <2>2. CASE IsTool(said, b)
    BY <2>1, <2>2 DEF Opens
  <2>3. CASE ~IsTool(said, b) /\ dialect = "anthropic"
    BY <2>1, <2>3 DEF Opens
  <2>4. CASE ~IsTool(said, b) /\ dialect # "anthropic"
    BY <2>4 DEF Opens
  <2> QED BY <2>2, <2>3, <2>4
<1>6. ~IsTool(said, b) => k = b
  BY DEF NumberOf, k
<1> HIDE DEF begin, ends, of, n
<1>7. Len(begin \o ends) = Len(begin) + Len(ends) /\ begin \o ends \in Seq(EventSet)
  BY <1>4, <1>5, JoinOf
<1>8. \A i \in 1..n : (begin \o ends)[Len(begin) + i] = ends[i]
  BY <1>4, <1>5, JoinOf
<1>9. Len(begin) = 1 => (begin \o ends)[1] = begin[1]
  <2>1. \A j \in 1 .. Len(begin) : (begin \o ends)[j] = begin[j]
    BY <1>4, <1>5, JoinOf
  <2> QED BY <2>1
<1>10. IsTool(said, b) \/ dialect = "anthropic" => Opens(b) = 1
  BY DEF Opens
<1> QED BY <1>3, <1>4, <1>5, <1>6, <1>7, <1>8, <1>9, <1>10 DEF k, n, of, parts

LEMMA BlocksAre ==
  ASSUME StreamTypes
  PROVE  /\ Blocks(dialect, said) \in Seq(Seq(EventSet)) /\ Len(Blocks(dialect, said)) = Len(said)
         /\ \A b \in 1 .. Len(said) : Blocks(dialect, said)[b] = BlockEvents(dialect, said, b)
<1>1. \A b \in 1 .. Len(said) : BlockEvents(dialect, said, b) \in Seq(EventSet)
  BY BlockEventsAre
<1>2. DOMAIN said = 1 .. Len(said) /\ Len(said) \in Nat
  BY SaidFacts
<1> QED BY <1>1, <1>2 DEF Blocks

(* Where the events of a block stand, and what comes behind the blocks.    *)
LEMMA SendingIs ==
  ASSUME StreamTypes
  PROVE  /\ Sending \in Seq(EventSet) /\ BlockEnd(0) = 0
         /\ BlockEnd(Len(said)) \in Nat
         /\ Sending[BlockEnd(Len(said)) + 1] = Event("usage", 0, 0, "plain")
         /\ Len(Sending) > BlockEnd(Len(said)) /\ Len(Sending) <= BlockEnd(Len(said)) + 2
         /\ \A m \in 1 .. Len(Sending) :
              m > BlockEnd(Len(said)) + 1 => Sending[m] = Event("end", 0, 0, "plain")
         /\ \A b \in 1 .. Len(said) :
              /\ BlockEnd(b - 1) \in Nat /\ BlockEnd(b) = BlockEnd(b - 1) + Opens(b) + Len(said[b].parts)
              /\ BlockEnd(b) <= BlockEnd(Len(said))
              /\ \A j \in 1 .. (Opens(b) + Len(said[b].parts)) :
                   Sending[BlockEnd(b - 1) + j] = BlockEvents(dialect, said, b)[j]
<1> DEFINE bs == Blocks(dialect, said)
           all == Concat(bs)
           usage == <<Event("usage", 0, 0, "plain")>>
           end == IF dialect = "anthropic" THEN <<>> ELSE <<Event("end", 0, 0, "plain")>>
<1>0. Len(said) \in Nat
  BY SaidFacts
<1>1. bs \in Seq(Seq(EventSet)) /\ Len(bs) = Len(said) /\ \A b \in 1 .. Len(said) : bs[b] = BlockEvents(dialect, said, b)
  BY BlocksAre
<1>2. Sending = (all \o usage) \o end
  BY DEF Sending, Events
<1>3. usage \in Seq(EventSet) /\ Len(usage) = 1 /\ usage[1] = Event("usage", 0, 0, "plain")
  BY DEF Event, EventSet
<1>4. /\ end \in Seq(EventSet) /\ Len(end) \in {0, 1}
      /\ \A j \in 1 .. Len(end) : end[j] = Event("end", 0, 0, "plain")
  <2>1. Event("end", 0, 0, "plain") \in EventSet
    BY DEF Event, EventSet
  <2>2. CASE dialect = "anthropic"
    BY <2>2
  <2>3. CASE dialect # "anthropic"
    BY <2>1, <2>3
  <2> QED BY <2>2, <2>3
<1>5. all = Joins(bs)[Len(said)]
  BY <1>1 DEF Concat
<1>6. all \in Seq(EventSet)
  <2>1. Len(said) \in 0 .. Len(bs)
    BY <1>0, <1>1
  <2> HIDE DEF bs
  <2> QED BY <1>1, <1>5, <2>1, JoinsTyped
<1>7. BlockEnd(Len(said)) = Len(all)
  BY <1>5 DEF BlockEnd
<1>8. BlockEnd(0) = 0
  <2>1. Joins(bs)[0] = <<>>
    <3>1. Len(bs) \in Nat
      BY <1>0, <1>1
    <3> HIDE DEF bs
    <3> QED BY <3>1, JoinsAre
  <2> QED BY <2>1 DEF BlockEnd
<1> HIDE DEF all, usage, end, bs
<1>9. /\ Sending \in Seq(EventSet) /\ Len(all) \in Nat /\ Len(Sending) = Len(all) + 1 + Len(end)
      /\ \A j \in 1 .. Len(all) : Sending[j] = all[j]
      /\ Sending[Len(all) + 1] = usage[1]
      /\ \A m \in 1 .. Len(Sending) : m > Len(all) + 1 => m - (Len(all) + 1) \in 1 .. Len(end) /\ Sending[m] = end[m - (Len(all) + 1)]
  <2>1. usage \in Seq(EventSet)
    BY <1>3
  <2>a. /\ all \o usage \in Seq(EventSet) /\ Len(all) \in Nat /\ Len(all \o usage) = Len(all) + Len(usage)
        /\ \A j \in 1 .. Len(all) : (all \o usage)[j] = all[j]
        /\ \A j \in 1 .. Len(usage) : (all \o usage)[Len(all) + j] = usage[j]
    BY <1>6, <2>1, JoinOf
  <2>b. Len(usage) = 1 /\ 1 \in 1 .. Len(usage)
    BY <1>3
  <2>2. (\A j \in 1 .. Len(all) : (all \o usage)[j] = all[j]) /\ (all \o usage)[Len(all) + 1] = usage[1]
    BY <2>a, <2>b
  <2> DEFINE au == all \o usage
  <2> HIDE DEF au
  <2>3. Sending = au \o end /\ au \in Seq(EventSet) /\ Len(au) = Len(all) + 1
    BY <1>2, <2>a, <2>b DEF au
  <2>4. /\ Sending \in Seq(EventSet) /\ Len(Sending) = Len(au) + Len(end)
        /\ \A j \in 1 .. Len(au) : Sending[j] = au[j]
    BY <1>4, <2>3
  <2>5. \A m \in 1 .. Len(Sending) : m > Len(au) => m - Len(au) \in 1 .. Len(end) /\ Sending[m] = end[m - Len(au)]
    BY <1>4, <2>3
  <2> QED BY <1>4, <2>a, <2>2, <2>3, <2>4, <2>5 DEF au
<1>10. ASSUME NEW b \in 1 .. Len(said)
       PROVE  /\ BlockEnd(b - 1) \in Nat /\ BlockEnd(b) = BlockEnd(b - 1) + Opens(b) + Len(said[b].parts)
              /\ BlockEnd(b) <= BlockEnd(Len(said))
              /\ \A j \in 1 .. (Opens(b) + Len(said[b].parts)) :
                   Sending[BlockEnd(b - 1) + j] = BlockEvents(dialect, said, b)[j]
  <2>1. b \in 1 .. Len(bs) /\ bs[b] = BlockEvents(dialect, said, b)
    BY <1>1
  <2>2. Len(bs[b]) = Opens(b) + Len(said[b].parts)
    BY <2>1, BlockEventsAre
  <2>3. /\ Len(Joins(bs)[b - 1]) \in Nat /\ Len(bs[b]) \in Nat
        /\ Len(Joins(bs)[b]) = Len(Joins(bs)[b - 1]) + Len(bs[b])
        /\ Len(Joins(bs)[b]) <= Len(all)
        /\ \A j \in 1 .. Len(bs[b]) : all[Len(Joins(bs)[b - 1]) + j] = bs[b][j]
    BY <1>1, <2>1, JoinedPlaces DEF all
  <2>4. BlockEnd(b - 1) = Len(Joins(bs)[b - 1]) /\ BlockEnd(b) = Len(Joins(bs)[b])
    BY DEF BlockEnd, bs
  <2>5. Opens(b) \in Nat /\ Len(said[b].parts) \in Nat
    BY SaidFacts DEF Opens
  <2> DEFINE u == Len(Joins(bs)[b - 1])  v == Len(Joins(bs)[b])  w == Len(bs[b])
  <2>6. \A j \in 1..w : u + j \in 1 .. Len(all)
    <3>1. u \in Nat /\ w \in Nat /\ v = u + w /\ v <= Len(all) /\ Len(all) \in Nat
      BY <1>9, <2>3
    <3> HIDE DEF u, v, w
    <3> QED BY <3>1
  <2>7. \A j \in 1..w : Sending[u + j] = bs[b][j]
    BY <1>9, <2>3, <2>6
  <2>8. w = Opens(b) + Len(said[b].parts) /\ bs[b] = BlockEvents(dialect, said, b)
    BY <2>1, <2>2
  <2>9. u \in Nat /\ v = u + w /\ v <= BlockEnd(Len(said))
    BY <1>7, <2>3
  <2> HIDE DEF u, v, w
  <2>10. BlockEnd(b - 1) = u /\ BlockEnd(b) = v
    BY <2>4 DEF u, v
  <2>11. v = u + Opens(b) + Len(said[b].parts)
    BY <2>5, <2>8, <2>9
  <2> QED BY <2>7, <2>8, <2>9, <2>10, <2>11
<1>11. Len(end) = 0 \/ Len(end) = 1
  BY <1>4
<1>12. \A m \in 1 .. Len(Sending) : m > Len(all) + 1 => Sending[m] = Event("end", 0, 0, "plain")
  BY <1>4, <1>9
<1>13. Len(Sending) > Len(all) /\ Len(Sending) <= Len(all) + 2
  BY <1>9, <1>11
<1>14. Sending \in Seq(EventSet) /\ Len(all) \in Nat /\ Sending[Len(all) + 1] = Event("usage", 0, 0, "plain")
  BY <1>3, <1>9
<1> QED BY <1>7, <1>8, <1>10, <1>12, <1>13, <1>14

LEMMA LineIs ==
  ASSUME NEW e \in EventSet, NEW i \in Nat
  PROVE  /\ Line(e, i) \in Seq(UnitSet) /\ Len(Line(e, i)) \in {2, 3}
         /\ \A j \in 1 .. Len(Line(e, i)) :
              /\ Line(e, i)[j].event = i /\ Line(e, i)[j].good
              /\ Line(e, i)[j].unit = "newline" <=> j = Len(Line(e, i))
<1> DEFINE unit(u) == [event |-> i, unit |-> u, good |-> TRUE]
           first == unit("first byte")
           last == unit("last byte")
           bytes == unit("bytes")
           newline == unit("newline")
<1>1. first \in UnitSet /\ last \in UnitSet /\ bytes \in UnitSet /\ newline \in UnitSet
  BY DEF UnitSet
<1>2. /\ first.event = i /\ first.good /\ first.unit # "newline"
      /\ last.event = i /\ last.good /\ last.unit # "newline"
      /\ bytes.event = i /\ bytes.good /\ bytes.unit # "newline"
      /\ newline.event = i /\ newline.good /\ newline.unit = "newline"
  OBVIOUS
<1>3. Line(e, i) = (IF e.how = "wide" THEN <<first, last>> ELSE <<bytes>>) \o <<newline>>
  BY DEF Line
<1> HIDE DEF first, last, bytes, newline
<1> DEFINE t == <<newline>>
<1>4. t \in Seq(UnitSet)
  BY <1>1, OneLong
<1>5. Len(t) = 1 /\ t[1] = newline /\ 1 \in 1 .. Len(t)
  BY <1>1, OneLong
<1>6. CASE e.how = "wide"
  <2> DEFINE s == <<first, last>>
  <2>1. s \in Seq(UnitSet)
    BY <1>1, TwoLong
  <2>2. Len(s) = 2 /\ s[1] = first /\ s[2] = last /\ 1 \in 1 .. Len(s) /\ 2 \in 1 .. Len(s)
    BY <1>1, TwoLong
  <2>3. Line(e, i) = s \o t
    BY <1>3, <1>6
  <2> HIDE DEF s, t
  <2>4. /\ s \o t \in Seq(UnitSet) /\ Len(s \o t) = Len(s) + Len(t)
        /\ \A j \in 1 .. Len(s) : (s \o t)[j] = s[j]
        /\ \A j \in 1 .. Len(t) : (s \o t)[Len(s) + j] = t[j]
    BY <1>4, <2>1, JoinOf
  <2>5. (s \o t)[1] = first /\ (s \o t)[2] = last
    BY <2>2, <2>4
  <2>6. (s \o t)[Len(s) + 1] = newline
    BY <1>5, <2>4
  <2>7. Len(s) + 1 = 3 /\ Len(s) + Len(t) = 3
    BY <1>5, <2>2
  <2>8. /\ Line(e, i) \in Seq(UnitSet) /\ Len(Line(e, i)) = 3
        /\ Line(e, i)[1] = first /\ Line(e, i)[2] = last /\ Line(e, i)[3] = newline
    BY <2>3, <2>4, <2>5, <2>6, <2>7
  <2>9. \A j \in 1..3 : j = 1 \/ j = 2 \/ j = 3
    OBVIOUS
  <2> QED BY <1>2, <2>8, <2>9
<1>7. CASE e.how # "wide"
  <2> DEFINE s == <<bytes>>
  <2>1. s \in Seq(UnitSet)
    BY <1>1, OneLong
  <2>2. Len(s) = 1 /\ s[1] = bytes /\ 1 \in 1 .. Len(s)
    BY <1>1, OneLong
  <2>3. Line(e, i) = s \o t
    BY <1>3, <1>7
  <2> HIDE DEF s, t
  <2>4. /\ s \o t \in Seq(UnitSet) /\ Len(s \o t) = Len(s) + Len(t)
        /\ \A j \in 1 .. Len(s) : (s \o t)[j] = s[j]
        /\ \A j \in 1 .. Len(t) : (s \o t)[Len(s) + j] = t[j]
    BY <1>4, <2>1, JoinOf
  <2>5. (s \o t)[1] = bytes
    BY <2>2, <2>4
  <2>6. (s \o t)[Len(s) + 1] = newline
    BY <1>5, <2>4
  <2>7. Len(s) + 1 = 2 /\ Len(s) + Len(t) = 2
    BY <1>5, <2>2
  <2>8. /\ Line(e, i) \in Seq(UnitSet) /\ Len(Line(e, i)) = 2
        /\ Line(e, i)[1] = bytes /\ Line(e, i)[2] = newline
    BY <2>3, <2>4, <2>5, <2>6, <2>7
  <2>9. \A j \in 1..2 : j = 1 \/ j = 2
    OBVIOUS
  <2> QED BY <1>2, <2>8, <2>9
<1> QED BY <1>6, <1>7

(* Where the lines stand in what the network brings.                       *)
LEMMA WireIs ==
  ASSUME StreamTypes
  PROVE  /\ Wire \in Seq(UnitSet) /\ LineStart(0) = 0 /\ LineStart(Len(Sending)) = Len(Wire)
         /\ Len(Sending) \in Nat /\ Len(Wire) \in Nat
         /\ \A m \in 0 .. Len(Sending) : LineStart(m) \in Nat
         /\ \A m \in 1 .. Len(Sending) :
              /\ LineStart(m) = LineStart(m - 1) + Len(Lines[m]) /\ LineStart(m) <= Len(Wire)
              /\ Len(Lines[m]) \in {2, 3}
              /\ \A j \in 1 .. Len(Lines[m]) :
                   LET u == Wire[LineStart(m - 1) + j]
                   IN u.event = m /\ u.good /\ (u.unit = "newline" <=> j = Len(Lines[m]))
<1>1. Sending \in Seq(EventSet)
  BY SendingIs
<1>2. /\ Len(Sending) \in Nat /\ DOMAIN Sending = 1 .. Len(Sending)
      /\ \A m \in 1 .. Len(Sending) : Sending[m] \in EventSet /\ m \in Nat
  BY <1>1
<1>3. /\ Lines \in Seq(Seq(UnitSet)) /\ Len(Lines) = Len(Sending)
      /\ \A m \in 1 .. Len(Sending) : Lines[m] = Line(Sending[m], m)
  BY <1>2, LineIs DEF Lines
<1>4. Joins(Lines)[0] = <<>> /\ Wire = Joins(Lines)[Len(Sending)]
  BY <1>2, <1>3, JoinsAre DEF Wire, Concat
<1>5. \A m \in 0 .. Len(Sending) : Joins(Lines)[m] \in Seq(UnitSet)
  BY <1>3, JoinsTyped
<1>6. Wire \in Seq(UnitSet) /\ LineStart(0) = 0 /\ LineStart(Len(Sending)) = Len(Wire)
  BY <1>2, <1>4, <1>5 DEF LineStart
<1>7. \A m \in 0 .. Len(Sending) : LineStart(m) \in Nat
  BY <1>5 DEF LineStart
<1>8. ASSUME NEW m \in 1 .. Len(Sending)
      PROVE  /\ LineStart(m) = LineStart(m - 1) + Len(Lines[m]) /\ LineStart(m) <= Len(Wire)
             /\ Len(Lines[m]) \in {2, 3}
             /\ \A j \in 1 .. Len(Lines[m]) :
                  LET u == Wire[LineStart(m - 1) + j]
                  IN u.event = m /\ u.good /\ (u.unit = "newline" <=> j = Len(Lines[m]))
  <2>1. m \in 1 .. Len(Lines) /\ Lines[m] = Line(Sending[m], m) /\ Sending[m] \in EventSet /\ m \in Nat
    BY <1>2, <1>3
  <2>2. /\ LineStart(m) = LineStart(m - 1) + Len(Lines[m]) /\ LineStart(m) <= Len(Wire)
        /\ \A j \in 1 .. Len(Lines[m]) : Wire[LineStart(m - 1) + j] = Lines[m][j]
    BY <1>3, <2>1, JoinedPlaces DEF LineStart, Wire
  <2>3. /\ Len(Lines[m]) \in {2, 3}
        /\ \A j \in 1 .. Len(Lines[m]) :
             Lines[m][j].event = m /\ Lines[m][j].good /\ (Lines[m][j].unit = "newline" <=> j = Len(Lines[m]))
    BY <2>1, LineIs
  <2> QED BY <2>2, <2>3
<1> QED BY <1>2, <1>6, <1>7, <1>8

(* What the assembler has after a number of events: all of some blocks, or *)
(* of the next one a number of parts.                                      *)
ToolSet == [name : Nat, json : Seq(Marks)]
AnswerSet == [content : Seq(Marks), tools : Seq(ToolSet), usage : BOOLEAN]

ShownTo(b) == Joins(ShownParts)[b]
ToolParts == [b \in DOMAIN said |-> IF IsTool(said, b) THEN <<[name |-> b, json |-> PartsOf(b)]>> ELSE <<>>]
ToolsTo(b) == Joins(ToolParts)[b]
PlacesTo(b) == IF dialect = "anthropic" THEN b ELSE ToolNumber(said, b)

Told(b, a, d) ==
  /\ a \in AnswerSet /\ d = a.content
  /\ Among(a.content, Visible) = ShownTo(b)
  /\ Among(a.tools, NamedTools) = ToolsTo(b) /\ Len(a.tools) = PlacesTo(b)

PartsTo(b, i) == SubSeq(PartsOf(b), 1, i)

Amid(b, i, a, d) ==
  /\ a \in AnswerSet /\ d = a.content
  /\ Among(a.content, Visible) = ShownTo(b - 1) \o (IF IsTool(said, b) \/ Hidden(b) THEN <<>> ELSE PartsTo(b, i))
  /\ IsTool(said, b) => \E s \in Seq(ToolSet) :
       /\ Among(s, NamedTools) = ToolsTo(b - 1) /\ Len(s) = PlacesTo(b - 1)
       /\ a.tools = Append(s, [name |-> b, json |-> PartsTo(b, i)])
  /\ ~IsTool(said, b) => Among(a.tools, NamedTools) = ToolsTo(b - 1) /\ Len(a.tools) = PlacesTo(b)

Heard(m, a, d) ==
  \/ \E b \in 0 .. Len(said) : m = BlockEnd(b) /\ Told(b, a, d)
  \/ \E b \in 1 .. Len(said) : \E i \in 0 .. Len(said[b].parts) :
       m = BlockEnd(b - 1) + Opens(b) + i /\ Amid(b, i, a, d)
  \/ m > BlockEnd(Len(said)) /\ Told(Len(said), a, d) /\ a.usage

LEMMA MarksJoined ==
  \A p, q \in Seq(Marks) : \A x \in Marks : Append(p \o q, x) = p \o Append(q, x)
OBVIOUS

LEMMA PartsAre ==
  ASSUME StreamTypes, NEW b \in 1 .. Len(said)
  PROVE  /\ PartsOf(b) \in Seq(Marks) /\ Len(PartsOf(b)) = Len(said[b].parts)
         /\ PartsTo(b, 0) = <<>> /\ PartsTo(b, Len(said[b].parts)) = PartsOf(b)
         /\ \A i \in 0 .. Len(said[b].parts) : PartsTo(b, i) \in Seq(Marks)
         /\ \A i \in 1 .. Len(said[b].parts) :
              /\ <<<<b, i>>, TRUE>> \in Marks
              /\ PartsTo(b, i) = Append(PartsTo(b, i - 1), <<<<b, i>>, TRUE>>)
<1> DEFINE n == Len(said[b].parts)
           p == PartsOf(b)
<1>1. b \in Nat /\ n \in Nat /\ DOMAIN said[b].parts = 1..n
  BY SaidFacts
<1>2. p = [i \in 1..n |-> <<<<b, i>>, TRUE>>]
  BY <1>1 DEF PartsOf
<1> DEFINE x(i) == <<<<b, i>>, TRUE>>
<1>3. ASSUME NEW i \in 1..n PROVE x(i) \in Marks
  <2>1. i \in Nat
    BY <1>1
  <2>2. <<b, i>> \in Nat \X Nat
    BY <1>1, <2>1
  <2> QED BY <2>2 DEF Marks
<1>4. p \in Seq(Marks) /\ Len(p) = n /\ \A i \in 1..n : p[i] = x(i)
  <2>1. p = [i \in 1..n |-> x(i)]
    BY <1>2
  <2> HIDE DEF x, p, n
  <2>2. p = [i \in 1..n |-> p[i]] /\ \A i \in 1..n : p[i] = x(i)
    BY <2>1
  <2>3. \A i \in 1..n : p[i] \in Marks
    BY <1>3, <2>2
  <2>4. n \in Nat
    BY <1>1 DEF n
  <2> QED BY <2>2, <2>3, <2>4, ListOf
<1>a. n \in Nat
  BY <1>1
<1> HIDE DEF p, n, x
<1>5. SubSeq(p, 1, 0) = <<>> /\ SubSeq(p, 1, n) = p
  BY <1>a, <1>4
<1>6. \A i \in 0..n : SubSeq(p, 1, i) \in Seq(Marks) /\ Len(SubSeq(p, 1, i)) = i
  BY <1>a, <1>4
<1>7. ASSUME NEW i \in 1..n
      PROVE  SubSeq(p, 1, i) = Append(SubSeq(p, 1, i - 1), x(i))
  <2>1. i \in 1 .. Len(p) /\ p[i] = x(i)
    BY <1>4
  <2> QED BY <1>4, <2>1, OneMore
<1> QED BY <1>3, <1>4, <1>5, <1>6, <1>7 DEF PartsTo, p, n, x

LEMMA ShownStep ==
  ASSUME StreamTypes
  PROVE  /\ ShownTo(0) = <<>> /\ \A b \in 0 .. Len(said) : ShownTo(b) \in Seq(Marks)
         /\ \A b \in 1 .. Len(said) :
              ShownTo(b) = ShownTo(b - 1) \o (IF IsTool(said, b) \/ Hidden(b) THEN <<>> ELSE PartsOf(b))
         /\ ShownTo(Len(said)) = Concat(ShownParts)
<1>1. DOMAIN said = 1 .. Len(said) /\ Len(said) \in Nat
  BY SaidFacts
<1>2. \A b \in 1 .. Len(said) : (IF IsTool(said, b) \/ Hidden(b) THEN <<>> ELSE PartsOf(b)) \in Seq(Marks)
  <2>1. <<>> \in Seq(Marks)
    OBVIOUS
  <2>2. \A b \in 1 .. Len(said) : PartsOf(b) \in Seq(Marks)
    BY PartsAre
  <2> QED BY <2>1, <2>2, Zenon
<1>3. /\ ShownParts \in Seq(Seq(Marks)) /\ Len(ShownParts) = Len(said)
      /\ \A b \in 1 .. Len(said) : ShownParts[b] = IF IsTool(said, b) \/ Hidden(b) THEN <<>> ELSE PartsOf(b)
  BY <1>1, <1>2 DEF ShownParts
<1>4. \A b \in 0 .. Len(said) : Joins(ShownParts)[b] \in Seq(Marks)
  BY <1>3, JoinsTyped
<1>5. /\ Joins(ShownParts)[0] = <<>>
      /\ \A b \in 1 .. Len(said) : Joins(ShownParts)[b] = Joins(ShownParts)[b - 1] \o ShownParts[b]
  BY <1>1, <1>3, JoinsAre
<1> QED BY <1>3, <1>4, <1>5 DEF ShownTo, Concat

LEMMA ToolsStep ==
  ASSUME StreamTypes
  PROVE  /\ ToolsTo(0) = <<>> /\ \A b \in 0 .. Len(said) : ToolsTo(b) \in Seq(NamedTools)
         /\ \A b \in 1 .. Len(said) :
              /\ [name |-> b, json |-> PartsOf(b)] \in NamedTools
              /\ IsTool(said, b) => ToolsTo(b) = Append(ToolsTo(b - 1), [name |-> b, json |-> PartsOf(b)])
              /\ ~IsTool(said, b) => ToolsTo(b) = ToolsTo(b - 1)
<1>1. DOMAIN said = 1 .. Len(said) /\ Len(said) \in Nat /\ \A b \in 1 .. Len(said) : b \in Nat \ {0}
  BY SaidFacts
<1>2. \A b \in 1 .. Len(said) : [name |-> b, json |-> PartsOf(b)] \in NamedTools
  BY <1>1, PartsAre DEF NamedTools
<1>3. /\ ToolParts \in Seq(Seq(NamedTools)) /\ Len(ToolParts) = Len(said)
      /\ \A b \in 1 .. Len(said) :
           ToolParts[b] = IF IsTool(said, b) THEN <<[name |-> b, json |-> PartsOf(b)]>> ELSE <<>>
  <2> DEFINE P(b) == IF IsTool(said, b) THEN <<[name |-> b, json |-> PartsOf(b)]>> ELSE <<>>
  <2>1. \A b \in 1 .. Len(said) : P(b) \in Seq(NamedTools)
    BY <1>2
  <2>2. ToolParts = [b \in 1 .. Len(said) |-> P(b)]
    BY <1>1 DEF ToolParts
  <2>3. ToolParts \in Seq(Seq(NamedTools)) /\ Len(ToolParts) = Len(said) /\ \A b \in 1 .. Len(said) : ToolParts[b] = P(b)
    <3> HIDE DEF P
    <3> QED BY <1>1, <2>1, <2>2
  <2> QED BY <2>3
<1>4. \A b \in 0 .. Len(said) : Joins(ToolParts)[b] \in Seq(NamedTools)
  BY <1>3, JoinsTyped
<1>5. /\ Joins(ToolParts)[0] = <<>>
      /\ \A b \in 1 .. Len(said) : Joins(ToolParts)[b] = Joins(ToolParts)[b - 1] \o ToolParts[b]
  BY <1>1, <1>3, JoinsAre
<1>6. ASSUME NEW b \in 1 .. Len(said)
      PROVE  /\ IsTool(said, b) => ToolsTo(b) = Append(ToolsTo(b - 1), [name |-> b, json |-> PartsOf(b)])
             /\ ~IsTool(said, b) => ToolsTo(b) = ToolsTo(b - 1)
  <2> DEFINE t == [name |-> b, json |-> PartsOf(b)]
             s == ToolsTo(b - 1)
  <2>1. s \in Seq(NamedTools)
    <3>1. b - 1 \in 0 .. Len(said)
      BY <1>1
    <3> QED BY <1>4, <3>1 DEF ToolsTo
  <2>2. ToolsTo(b) = s \o (IF IsTool(said, b) THEN <<t>> ELSE <<>>)
    BY <1>3, <1>5 DEF ToolsTo
  <2>3. t \in NamedTools
    BY <1>2
  <2> HIDE DEF t, s
  <2>4. s \o <<t>> = Append(s, t) /\ s \o <<>> = s
    BY <2>1, <2>3
  <2> QED BY <2>2, <2>4 DEF s, t
<1> QED BY <1>2, <1>4, <1>5, <1>6 DEF ToolsTo

LEMMA PlacesStep ==
  ASSUME StreamTypes
  PROVE  /\ PlacesTo(0) = 0 /\ \A b \in 0 .. Len(said) : PlacesTo(b) \in Nat
         /\ \A b \in 1 .. Len(said) :
              /\ Opens(b) = 1 => PlacesTo(b) = PlacesTo(b - 1) + 1 /\ NumberOf(b) = PlacesTo(b)
              /\ Opens(b) = 0 => PlacesTo(b) = PlacesTo(b - 1)
              /\ Opens(b) \in {0, 1}
              /\ Opens(b) = 0 => ~IsTool(said, b) /\ dialect # "anthropic"
              /\ Opens(b) = 1 => IsTool(said, b) \/ dialect = "anthropic"
<1>1. Len(said) \in Nat
  BY SaidFacts
<1> QED BY <1>1, ToolNumbers DEF PlacesTo, Opens, NumberOf

(* A tool of the assembler is one that the reader gets if it has a name.   *)
LEMMA ToolsNamed ==
  /\ NamedTools \subseteq ToolSet
  /\ \A x \in ToolSet : x \in NamedTools <=> x.name # 0
  /\ NoTool \in ToolSet /\ NoTool \notin NamedTools
<1>1. <<>> \in Seq(Marks)
  OBVIOUS
<1> QED BY <1>1 DEF NamedTools, ToolSet, NoTool

LEMMA GrowsByOne ==
  ASSUME NEW s \in Seq(ToolSet)
  PROVE  /\ Grown(s, Len(s) + 1) = Append(s, NoTool)
         /\ \A x, y \in ToolSet : [Append(s, x) EXCEPT ![Len(s) + 1] = y] = Append(s, y)
<1> DEFINE l == Len(s)
<1>1. l \in Nat /\ NoTool \in ToolSet /\ \A i \in 1..l : s[i] \in ToolSet
  BY ToolsNamed
<1>2. ASSUME NEW x \in ToolSet, NEW r, r = [i \in 1..(l + 1) |-> IF i <= l THEN s[i] ELSE x]
      PROVE  r = Append(s, x)
  <2> DEFINE t == Append(s, x)
  <2>1. /\ t \in Seq(ToolSet) /\ Len(t) = l + 1 /\ t[l + 1] = x
        /\ \A i \in 1..l : t[i] = s[i]
    BY OneAfter
  <2>2. \A i \in 1..(l + 1) : (i = l + 1 /\ ~(i <= l)) \/ (i \in 1..l /\ i <= l)
    BY <1>1
  <2> HIDE DEF t, l
  <2>3. r = [i \in 1..(l + 1) |-> r[i]]
    BY <1>2
  <2>4. \A i \in 1..(l + 1) : r[i] = t[i]
    BY <1>2, <2>1, <2>2
  <2>5. l + 1 \in Nat /\ \A i \in 1..(l + 1) : t[i] \in ToolSet
    BY <1>1, <1>2, <2>1, <2>2
  <2>6. \A i \in 1..(l + 1) : r[i] \in ToolSet
    BY <2>4, <2>5
  <2>7. r \in Seq(ToolSet) /\ Len(r) = l + 1
    BY <2>3, <2>5, <2>6, ListOf
  <2>8. r = t
    BY <2>1, <2>4, <2>7, SameLists
  <2> QED BY <2>8 DEF t
<1>3. Grown(s, l + 1) = Append(s, NoTool)
  <2>1. (IF l + 1 > Len(s) THEN l + 1 ELSE Len(s)) = l + 1
    BY <1>1
  <2>2. Grown(s, l + 1) = [i \in 1..(l + 1) |-> IF i <= l THEN s[i] ELSE NoTool]
    BY <2>1 DEF Grown
  <2> HIDE DEF l
  <2> QED BY <1>1, <1>2, <2>2
<1>4. ASSUME NEW x \in ToolSet, NEW y \in ToolSet
      PROVE  [Append(s, x) EXCEPT ![l + 1] = y] = Append(s, y)
  <2> DEFINE t == Append(s, x)
  <2>1. /\ t \in Seq(ToolSet) /\ Len(t) = l + 1
        /\ \A i \in 1..l : t[i] = s[i]
    BY OneAfter
  <2> HIDE DEF t
  <2>2. DOMAIN t = 1..(l + 1)
    BY <2>1
  <2> HIDE DEF l
  <2>3. [t EXCEPT ![l + 1] = y] = [i \in 1..(l + 1) |-> IF i = l + 1 THEN y ELSE t[i]]
    BY <2>2
  <2>4. \A i \in 1..(l + 1) : (i = l + 1 <=> ~(i <= l)) /\ (i # l + 1 => i \in 1..l)
    BY <1>1
  <2>5. [i \in 1..(l + 1) |-> IF i = l + 1 THEN y ELSE t[i]] = [i \in 1..(l + 1) |-> IF i <= l THEN s[i] ELSE y]
    BY <2>1, <2>4
  <2> QED BY <1>2, <2>3, <2>5 DEF t
<1> QED BY <1>3, <1>4

(* What one event does to the answer.                                      *)
LEMMA AssembledIs ==
  ASSUME NEW a \in AnswerSet, NEW e
  PROVE  LET n == Assembled(a, e, TRUE)
         IN /\ e.kind = "text" => n = [content |-> Append(a.content, <<e.part, TRUE>>), tools |-> a.tools, usage |-> a.usage]
            /\ e.kind = "block" => n = [content |-> a.content, tools |-> Grown(a.tools, e.block), usage |-> a.usage]
            /\ e.kind = "tool" =>
                 n = [content |-> a.content,
                      tools |-> [Grown(a.tools, e.block) EXCEPT ![e.block] = [name |-> e.part, json |-> <<>>]], usage |-> a.usage]
            /\ e.kind = "usage" => n = [content |-> a.content, tools |-> a.tools, usage |-> TRUE]
            /\ e.kind = "json" =>
                 n = [content |-> a.content,
                      tools |-> [a.tools EXCEPT ![e.block].json = Append(@, <<e.part, TRUE>>)], usage |-> a.usage]
<1>1. a = [content |-> a.content, tools |-> a.tools, usage |-> a.usage]
  BY DEF AnswerSet
<1>2. CASE e.kind = "text"
  <2>1. Assembled(a, e, TRUE) = [a EXCEPT !.content = Append(@, <<e.part, TRUE>>)]
    BY <1>2 DEF Assembled
  <2> QED BY <1>1, <1>2, <2>1
<1>3. CASE e.kind = "block"
  <2>1. Assembled(a, e, TRUE) = [a EXCEPT !.tools = Grown(@, e.block)]
    BY <1>3 DEF Assembled
  <2> QED BY <1>1, <1>3, <2>1
<1>4. CASE e.kind = "tool"
  <2>1. Assembled(a, e, TRUE) = [a EXCEPT !.tools = [Grown(@, e.block) EXCEPT ![e.block] = [NoTool EXCEPT !.name = e.part]]]
    BY <1>4 DEF Assembled
  <2>2. [NoTool EXCEPT !.name = e.part] = [name |-> e.part, json |-> <<>>]
    BY DEF NoTool
  <2> QED BY <1>1, <1>4, <2>1, <2>2
<1>5. CASE e.kind = "json"
  <2>1. Assembled(a, e, TRUE) = [a EXCEPT !.tools[e.block].json = Append(@, <<e.part, TRUE>>)]
    BY <1>5 DEF Assembled
  <2> QED BY <1>1, <1>5, <2>1
<1>6. CASE e.kind = "usage"
  <2>1. Assembled(a, e, TRUE) = [a EXCEPT !.usage = TRUE]
    BY <1>6 DEF Assembled
  <2> QED BY <1>1, <1>6, <2>1
<1> QED BY <1>2, <1>3, <1>4, <1>5, <1>6

LEMMA VisibleIs ==
  ASSUME StreamTypes, NEW b \in 1 .. Len(said), NEW i \in Nat
  PROVE  <<<<b, i>>, TRUE>> \in Visible <=> ~Hidden(b)
BY SaidFacts DEF Visible

(* All the parts of a block have come.                                     *)
LEMMA BlockIsWhole ==
  ASSUME StreamTypes, NEW b \in 1 .. Len(said), NEW a, NEW d, Amid(b, Len(said[b].parts), a, d)
  PROVE  Told(b, a, d)
<1> DEFINE n == Len(said[b].parts)
           t == [name |-> b, json |-> PartsOf(b)]
<1>1. PartsTo(b, n) = PartsOf(b)
  BY PartsAre
<1>2. a \in AnswerSet /\ d = a.content /\ Among(a.content, Visible) = ShownTo(b)
  BY <1>1, ShownStep DEF Amid
<1>3. CASE IsTool(said, b)
  <2>1. PICK s \in Seq(ToolSet) : /\ Among(s, NamedTools) = ToolsTo(b - 1) /\ Len(s) = PlacesTo(b - 1)
                                  /\ a.tools = Append(s, t)
    BY <1>1, <1>3 DEF Amid
  <2>2. t \in NamedTools /\ t \in ToolSet /\ ToolsTo(b) = Append(ToolsTo(b - 1), t)
    BY <1>3, ToolsStep, ToolsNamed
  <2> HIDE DEF t
  <2>3. Among(a.tools, NamedTools) = Append(ToolsTo(b - 1), t)
    BY <2>1, <2>2, AmongMore
  <2>4. Len(a.tools) = PlacesTo(b)
    <3>1. Len(a.tools) = Len(s) + 1
      BY <2>1, <2>2
    <3>2. Opens(b) = 1
      BY <1>3 DEF Opens
    <3> QED BY <2>1, <3>1, <3>2, PlacesStep
  <2> QED BY <1>2, <2>2, <2>3, <2>4 DEF Told
<1>4. CASE ~IsTool(said, b)
  BY <1>2, <1>4, ToolsStep DEF Told, Amid
<1> QED BY <1>3, <1>4

LEMMA BlockStarts ==
  ASSUME StreamTypes, NEW b \in 1 .. Len(said), NEW a, NEW d, Told(b - 1, a, d), Opens(b) = 0
  PROVE  Amid(b, 0, a, d)
<1>1. ~IsTool(said, b)
  BY PlacesStep
<1>2. Len(a.tools) = PlacesTo(b)
  BY PlacesStep DEF Told
<1>3. ShownTo(b - 1) \in Seq(Marks)
  <2>1. b - 1 \in 0 .. Len(said)
    BY SaidFacts
  <2> QED BY <2>1, ShownStep
<1>4. Among(a.content, Visible) = ShownTo(b - 1) \o (IF IsTool(said, b) \/ Hidden(b) THEN <<>> ELSE PartsTo(b, 0))
  <2>1. PartsTo(b, 0) = <<>>
    BY PartsAre
  <2>2. ShownTo(b - 1) \o <<>> = ShownTo(b - 1)
    BY <1>3
  <2> QED BY <2>1, <2>2 DEF Told
<1> QED BY <1>1, <1>2, <1>4 DEF Told, Amid

LEMMA BlockOpens ==
  ASSUME StreamTypes, NEW b \in 1 .. Len(said), NEW a, NEW d, Told(b - 1, a, d), Opens(b) = 1
  PROVE  LET e == BlockEvents(dialect, said, b)[1]
         IN e.kind \in {"tool", "block"} /\ Amid(b, 0, Assembled(a, e, TRUE), d)
<1> DEFINE e == BlockEvents(dialect, said, b)[1]
           n == Assembled(a, e, TRUE)
           s == a.tools
<1>0. b \in Nat /\ b - 1 \in 0 .. Len(said)
  BY SaidFacts
<1>1. /\ a \in AnswerSet /\ d = a.content /\ Among(a.content, Visible) = ShownTo(b - 1)
      /\ Among(s, NamedTools) = ToolsTo(b - 1) /\ Len(s) = PlacesTo(b - 1)
  BY DEF Told
<1>2. s \in Seq(ToolSet) /\ a.content \in Seq(Marks) /\ a.usage \in BOOLEAN
  BY <1>1 DEF AnswerSet
<1>3. NumberOf(b) = Len(s) + 1 /\ PlacesTo(b) = Len(s) + 1
  BY <1>1, PlacesStep
<1>4. ShownTo(b - 1) \o <<>> = ShownTo(b - 1)
  BY <1>0, ShownStep
<1>5. PartsTo(b, 0) = <<>>
  BY PartsAre
<1>6. Among(a.content, Visible) = ShownTo(b - 1) \o (IF IsTool(said, b) \/ Hidden(b) THEN <<>> ELSE PartsTo(b, 0))
  BY <1>1, <1>4, <1>5
<1>7. CASE IsTool(said, b)
  <2> DEFINE t == [name |-> b, json |-> <<>>]
  <2>1. e = Event("tool", NumberOf(b), b, "plain")
    BY <1>7, BlockEventsAre
  <2>2. e.kind = "tool" /\ e.block = Len(s) + 1 /\ e.part = b
    BY <1>3, <2>1 DEF Event
  <2>3. t \in ToolSet
    BY <1>0 DEF ToolSet
  <2>4. n = [content |-> a.content, tools |-> Append(s, t), usage |-> a.usage]
    <3>1. n = [content |-> a.content, tools |-> [Grown(s, e.block) EXCEPT ![e.block] = [name |-> e.part, json |-> <<>>]], usage |-> a.usage]
      BY <1>1, <2>2, AssembledIs
    <3>2. [Grown(s, Len(s) + 1) EXCEPT ![Len(s) + 1] = t] = Append(s, t)
      BY <1>2, <2>3, GrowsByOne, ToolsNamed
    <3> QED BY <2>2, <3>1, <3>2
  <2>5. Append(s, t) \in Seq(ToolSet)
    BY <1>2, <2>3
  <2> HIDE DEF e, n, s
  <2>6. n \in AnswerSet /\ n.content = a.content /\ n.tools = Append(s, [name |-> b, json |-> PartsTo(b, 0)])
    BY <1>2, <1>5, <2>4, <2>5 DEF AnswerSet
  <2> QED BY <1>1, <1>2, <1>6, <1>7, <2>2, <2>6 DEF Amid, e, n
<1>8. CASE ~IsTool(said, b)
  <2>1. dialect = "anthropic"
    BY <1>8, PlacesStep
  <2>2. e = Event("block", b, b, "plain")
    BY <1>8, <2>1, BlockEventsAre
  <2>3. e.kind = "block" /\ e.block = Len(s) + 1
    <3>1. NumberOf(b) = b
      BY <2>1 DEF NumberOf
    <3> QED BY <1>3, <2>2, <3>1 DEF Event
  <2>4. n = [content |-> a.content, tools |-> Append(s, NoTool), usage |-> a.usage]
    <3>1. n = [content |-> a.content, tools |-> Grown(s, e.block), usage |-> a.usage]
      BY <1>1, <2>3, AssembledIs
    <3>2. Grown(s, Len(s) + 1) = Append(s, NoTool)
      BY <1>2, GrowsByOne
    <3> HIDE DEF n, s, e
    <3> QED BY <2>3, <3>1, <3>2
  <2>5. Append(s, NoTool) \in Seq(ToolSet) /\ Len(Append(s, NoTool)) = Len(s) + 1
    BY <1>2, ToolsNamed
  <2>6. Among(Append(s, NoTool), NamedTools) = Among(s, NamedTools)
    BY <1>2, AmongMore, ToolsNamed
  <2> HIDE DEF e, n, s
  <2>7. /\ n \in AnswerSet /\ n.content = a.content /\ n.tools = Append(s, NoTool)
    BY <1>2, <2>4, <2>5 DEF AnswerSet
  <2> QED BY <1>1, <1>3, <1>6, <1>8, <2>3, <2>5, <2>6, <2>7 DEF Amid, e, n
<1> QED BY <1>7, <1>8

LEMMA PartComes ==
  ASSUME StreamTypes, NEW b \in 1 .. Len(said), NEW i \in 1 .. Len(said[b].parts), NEW a, NEW d,
         Amid(b, i - 1, a, d)
  PROVE  LET e == BlockEvents(dialect, said, b)[Opens(b) + i]
         IN /\ e.kind \in {"text", "json"} /\ e.part = <<b, i>>
            /\ Amid(b, i, Assembled(a, e, TRUE), IF e.kind = "text" THEN Append(d, <<e.part, TRUE>>) ELSE d)
<1> DEFINE e == BlockEvents(dialect, said, b)[Opens(b) + i]
           n == Assembled(a, e, TRUE)
           x == <<<<b, i>>, TRUE>>
<1>0. b \in Nat /\ i \in Nat /\ b - 1 \in 0 .. Len(said) /\ i - 1 \in 0 .. Len(said[b].parts)
      /\ i \in 0 .. Len(said[b].parts)
  BY SaidFacts
<1>1. e = Event(IF IsTool(said, b) THEN "json" ELSE "text", NumberOf(b), <<b, i>>, said[b].parts[i])
  BY BlockEventsAre
<1>2. a \in AnswerSet /\ d = a.content
  BY DEF Amid
<1>3. a.tools \in Seq(ToolSet) /\ a.content \in Seq(Marks) /\ a.usage \in BOOLEAN
  BY <1>2 DEF AnswerSet
<1>4. x \in Marks /\ PartsTo(b, i) = Append(PartsTo(b, i - 1), x) /\ PartsTo(b, i - 1) \in Seq(Marks) /\ PartsTo(b, i) \in Seq(Marks)
  <2>1. \A j \in 0 .. Len(said[b].parts) : PartsTo(b, j) \in Seq(Marks)
    BY PartsAre
  <2>2. \A j \in 1 .. Len(said[b].parts) :
          <<<<b, j>>, TRUE>> \in Marks /\ PartsTo(b, j) = Append(PartsTo(b, j - 1), <<<<b, j>>, TRUE>>)
    BY PartsAre
  <2> QED BY <1>0, <2>1, <2>2, Zenon
<1>5. e.part = <<b, i>>
  BY <1>1 DEF Event
<1>6. CASE IsTool(said, b)
  <2>1. e.kind = "json" /\ e.block = NumberOf(b)
    BY <1>1, <1>6 DEF Event
  <2> DEFINE t(j) == [name |-> b, json |-> PartsTo(b, j)]
  <2>2. PICK s \in Seq(ToolSet) : /\ Among(s, NamedTools) = ToolsTo(b - 1) /\ Len(s) = PlacesTo(b - 1)
                                  /\ a.tools = Append(s, t(i - 1))
    BY <1>6 DEF Amid
  <2>3. t(i - 1) \in ToolSet /\ t(i) \in ToolSet
    BY <1>0, <1>4 DEF ToolSet
  <2>4. e.block = Len(s) + 1 /\ Len(s) \in Nat
    <3>1. Opens(b) = 1
      BY <1>6 DEF Opens
    <3> QED BY <2>1, <2>2, <3>1, PlacesStep
  <2>5. n = [content |-> a.content, tools |-> [a.tools EXCEPT ![e.block].json = Append(@, <<e.part, TRUE>>)], usage |-> a.usage]
    BY <1>2, <2>1, AssembledIs
  <2> DEFINE l == Append(s, t(i - 1))
  <2>6. l[Len(s) + 1] = t(i - 1) /\ l \in Seq(ToolSet)
    BY <2>2, <2>3
  <2>7. [l EXCEPT ![Len(s) + 1].json = Append(@, x)] = [l EXCEPT ![Len(s) + 1] = t(i)]
    <3>1. [t(i - 1) EXCEPT !.json = Append(@, x)] = t(i)
      <4> DEFINE p == PartsTo(b, i - 1)
      <4>1. PartsTo(b, i) = Append(p, x)
        BY <1>4
      <4> HIDE DEF p, x
      <4>2. [name |-> b, json |-> p].json = p
        OBVIOUS
      <4>3. \A j, k, q : [[name |-> j, json |-> k] EXCEPT !.json = q] = [name |-> j, json |-> q]
        OBVIOUS
      <4>4. [[name |-> b, json |-> p] EXCEPT !.json = Append(p, x)] = [name |-> b, json |-> Append(p, x)]
        BY <4>3
      <4> QED BY <4>1, <4>2, <4>4, Zenon DEF p
    <3> HIDE DEF l, t
    <3>2. [l EXCEPT ![Len(s) + 1].json = Append(@, x)]
            = [l EXCEPT ![Len(s) + 1] = [l[Len(s) + 1] EXCEPT !.json = Append(@, x)]]
      OBVIOUS
    <3> QED BY <2>6, <3>1, <3>2
  <2>8. [l EXCEPT ![Len(s) + 1] = t(i)] = Append(s, t(i))
    BY <2>3, GrowsByOne
  <2>9. n = [content |-> a.content, tools |-> Append(s, t(i)), usage |-> a.usage]
    <3> HIDE DEF t, n, x
    <3> QED BY <1>5, <2>2, <2>4, <2>5, <2>7, <2>8 DEF x
  <2>10. Append(s, t(i)) \in Seq(ToolSet)
    BY <2>3
  <2> HIDE DEF n, e
  <2>11. n \in AnswerSet /\ n.content = a.content /\ n.tools = Append(s, t(i))
    <3> HIDE DEF t
    <3> QED BY <1>3, <2>9, <2>10 DEF AnswerSet
  <2>12. Among(n.content, Visible) = ShownTo(b - 1) \o (IF IsTool(said, b) \/ Hidden(b) THEN <<>> ELSE PartsTo(b, i))
    BY <1>6, <2>11 DEF Amid
  <2>13. Amid(b, i, n, d)
    BY <1>2, <1>6, <2>2, <2>11, <2>12 DEF Amid
  <2> QED BY <1>5, <2>1, <2>13 DEF n, e
<1>7. CASE ~IsTool(said, b)
  <2>1. e.kind = "text"
    BY <1>1, <1>7 DEF Event
  <2>2. n = [content |-> Append(a.content, x), tools |-> a.tools, usage |-> a.usage]
    BY <1>2, <1>5, <2>1, AssembledIs
  <2>3. Append(a.content, x) \in Seq(Marks)
    BY <1>3, <1>4
  <2> HIDE DEF n, e
  <2>4. n \in AnswerSet /\ n.content = Append(a.content, x) /\ n.tools = a.tools
    BY <1>3, <2>2, <2>3 DEF AnswerSet
  <2>5. Among(n.content, Visible) = IF Hidden(b) THEN Among(a.content, Visible) ELSE Append(Among(a.content, Visible), x)
    <3>1. x \in Visible <=> ~Hidden(b)
      BY <1>0, VisibleIs
    <3>2. a.content \in Seq(Marks) /\ x \in Marks
      BY <1>3, <1>4
    <3> HIDE DEF x
    <3>3. \A c \in Seq(Marks) : \A y \in Marks :
            Among(Append(c, y), Visible) = IF y \in Visible THEN Append(Among(c, Visible), y) ELSE Among(c, Visible)
      BY AmongMore
    <3> QED BY <2>4, <3>1, <3>2, <3>3
  <2>6. Among(n.content, Visible) = ShownTo(b - 1) \o (IF IsTool(said, b) \/ Hidden(b) THEN <<>> ELSE PartsTo(b, i))
    <3>1. CASE Hidden(b)
      BY <1>7, <2>5, <3>1 DEF Amid
    <3>2. CASE ~Hidden(b)
      <4>1. Among(a.content, Visible) = ShownTo(b - 1) \o PartsTo(b, i - 1)
        BY <1>7, <3>2 DEF Amid
      <4>2. ShownTo(b - 1) \in Seq(Marks)
        BY <1>0, ShownStep
      <4> HIDE DEF x
      <4>3. Append(ShownTo(b - 1) \o PartsTo(b, i - 1), x) = ShownTo(b - 1) \o Append(PartsTo(b, i - 1), x)
        <5>1. PartsTo(b, i - 1) \in Seq(Marks) /\ x \in Marks
          BY <1>4
        <5> QED BY <4>2, <5>1, MarksJoined, Zenon
      <4> QED BY <1>4, <1>7, <2>5, <3>2, <4>1, <4>3
    <3> QED BY <3>1, <3>2
  <2>7. Amid(b, i, n, Append(d, x))
    BY <1>2, <1>7, <2>4, <2>6 DEF Amid
  <2> QED BY <1>5, <2>1, <2>7 DEF n, e
<1> QED BY <1>6, <1>7

(* The next event: it begins a block, is a part of one, or comes behind    *)
(* them all.                                                               *)
LEMMA NextEvent ==
  ASSUME StreamTypes, NEW m, NEW a, NEW d, Heard(m, a, d)
  PROVE  \/ \E b \in 1 .. Len(said) : m = BlockEnd(b - 1) /\ Told(b - 1, a, d) /\ Opens(b) = 1
         \/ \E b \in 1 .. Len(said) : \E i \in 1 .. Len(said[b].parts) :
              m = BlockEnd(b - 1) + Opens(b) + (i - 1) /\ Amid(b, i - 1, a, d)
         \/ m = BlockEnd(Len(said)) /\ Told(Len(said), a, d)
         \/ m > BlockEnd(Len(said)) /\ Told(Len(said), a, d) /\ a.usage
<1> DEFINE N == Len(said)
           n(b) == Len(said[b].parts)
           Rest == {k \in 0..N : m = BlockEnd(N - k) /\ Told(N - k, a, d)}
<1>0. N \in Nat /\ \A b \in 1..N : n(b) \in Nat /\ BlockEnd(b - 1) \in Nat /\ BlockEnd(b) = BlockEnd(b - 1) + Opens(b) + n(b) /\ Opens(b) \in {0, 1}
  BY SaidFacts, SendingIs, PlacesStep
<1> SUFFICES ASSUME ~(m > BlockEnd(N) /\ Told(N, a, d) /\ a.usage),
                    \A b \in 1..N : \A i \in 1..n(b) : ~(m = BlockEnd(b - 1) + Opens(b) + (i - 1) /\ Amid(b, i - 1, a, d)),
                    \A b \in 1..N : ~(m = BlockEnd(b - 1) /\ Told(b - 1, a, d) /\ Opens(b) = 1)
             PROVE  m = BlockEnd(N) /\ Told(N, a, d)
  OBVIOUS
<1>1. ASSUME NEW b \in 1..N, NEW i \in 0..n(b), m = BlockEnd(b - 1) + Opens(b) + i, Amid(b, i, a, d)
      PROVE  m = BlockEnd(b) /\ Told(b, a, d)
  <2>1. i = n(b)
    <3> SUFFICES ASSUME i # n(b) PROVE FALSE
      OBVIOUS
    <3>1. i + 1 \in 1..n(b) /\ (i + 1) - 1 = i
      BY <1>0
    <3> HIDE DEF n, N
    <3> QED BY <1>1, <3>1
  <2> QED BY <1>0, <1>1, <2>1, BlockIsWhole
<1>2. ASSUME NEW b \in 1..N, m = BlockEnd(b - 1), Told(b - 1, a, d)
      PROVE  m = BlockEnd(b) /\ Told(b, a, d)
  <2>1. Opens(b) = 0
    BY <1>0, <1>2
  <2>2. Amid(b, 0, a, d)
    BY <1>2, <2>1, BlockStarts
  <2>3. m = BlockEnd(b - 1) + Opens(b) + 0 /\ 0 \in 0..n(b)
    BY <1>0, <1>2, <2>1
  <2> HIDE DEF n, N
  <2> QED BY <1>1, <2>2, <2>3
<1>3. \E b \in 0..N : m = BlockEnd(b) /\ Told(b, a, d)
  <2>1. CASE \E b \in 0..N : m = BlockEnd(b) /\ Told(b, a, d)
    BY <2>1
  <2>2. CASE \E b \in 1..N : \E i \in 0..n(b) : m = BlockEnd(b - 1) + Opens(b) + i /\ Amid(b, i, a, d)
    <3>0. PICK b \in 1..N : \E i \in 0..n(b) : m = BlockEnd(b - 1) + Opens(b) + i /\ Amid(b, i, a, d)
      BY <2>2
    <3>1. PICK i \in 0..n(b) : m = BlockEnd(b - 1) + Opens(b) + i /\ Amid(b, i, a, d)
      BY <3>0
    <3>2. m = BlockEnd(b) /\ Told(b, a, d)
      <4> HIDE DEF n, N
      <4> QED BY <1>1, <3>1
    <3> QED BY <1>0, <3>2
  <2> QED BY <2>1, <2>2 DEF Heard
<1>4. Rest # {} /\ Rest \in SUBSET Nat
  <2>1. PICK b \in 0..N : m = BlockEnd(b) /\ Told(b, a, d)
    BY <1>3
  <2>2. N - b \in 0..N /\ N - (N - b) = b
    BY <1>0
  <2> HIDE DEF N
  <2>3. N - b \in Rest
    BY <2>1, <2>2
  <2>4. 0..N \in SUBSET Nat
    BY <1>0
  <2> QED BY <2>3, <2>4
<1>5. PICK k \in Rest : \A j \in Rest : k <= j
  <2> HIDE DEF Rest
  <2> QED BY <1>4, LeastNumber
<1>6. k \in 0..N /\ m = BlockEnd(N - k) /\ Told(N - k, a, d)
  BY <1>5
<1>7. k = 0
  <2> SUFFICES ASSUME k # 0 PROVE FALSE
    OBVIOUS
  <2>1. PICK b \in 1..N : b - 1 = N - k /\ b = N - (k - 1)
    <3>1. k \in 0..N
      BY <1>6
    <3>2. N - (k - 1) \in 1..N /\ (N - (k - 1)) - 1 = N - k
      BY <1>0, <3>1
    <3> HIDE DEF N
    <3> QED BY <3>2
  <2>2. m = BlockEnd(b) /\ Told(b, a, d)
    <3> HIDE DEF N
    <3> QED BY <1>2, <1>6, <2>1
  <2>3. k - 1 \in Rest
    <3>1. k - 1 \in 0..N
      BY <1>0, <1>6
    <3> HIDE DEF N
    <3> QED BY <2>1, <2>2, <3>1
  <2>4. ~(k <= k - 1)
    BY <1>0, <1>6
  <2> HIDE DEF Rest
  <2> QED BY <1>5, <2>3, <2>4
<1>8. N - 0 = N
  BY <1>0
<1> HIDE DEF N
<1> QED BY <1>6, <1>7, <1>8

LEMMA EventIsHeard ==
  ASSUME StreamTypes, NEW m \in Nat, m + 1 \in 1 .. Len(Sending), NEW a, NEW d, Heard(m, a, d)
  PROVE  LET e == Sending[m + 1]
         IN /\ e.kind = "end" => Heard(m + 1, a, d) /\ m + 1 > BlockEnd(Len(said)) + 1
            /\ e.kind # "end" =>
                 Heard(m + 1, Assembled(a, e, TRUE), IF e.kind = "text" THEN Append(d, <<e.part, TRUE>>) ELSE d)
<1> DEFINE e == Sending[m + 1]
           new == Assembled(a, e, TRUE)
<1>0. Len(said) \in Nat /\ BlockEnd(Len(said)) \in Nat
  BY SaidFacts, SendingIs
<1>1. CASE \E b \in 1 .. Len(said) : m = BlockEnd(b - 1) /\ Told(b - 1, a, d) /\ Opens(b) = 1
  <2>1. PICK b \in 1 .. Len(said) : m = BlockEnd(b - 1) /\ Told(b - 1, a, d) /\ Opens(b) = 1
    BY <1>1
  <2>2. Len(said[b].parts) \in Nat
    BY SaidFacts
  <2>3. e = BlockEvents(dialect, said, b)[1]
    <3>1. 1 \in 1 .. (Opens(b) + Len(said[b].parts))
      BY <2>1, <2>2
    <3> QED BY <2>1, <3>1, SendingIs
  <2> HIDE DEF e
  <2>4. e.kind \in {"tool", "block"} /\ Amid(b, 0, new, d)
    BY <2>1, <2>3, BlockOpens
  <2>5. m + 1 = BlockEnd(b - 1) + Opens(b) + 0 /\ 0 \in 0 .. Len(said[b].parts)
    BY <2>1, <2>2
  <2> HIDE DEF new
  <2>6. Heard(m + 1, new, d)
    BY <2>4, <2>5 DEF Heard
  <2> QED BY <2>4, <2>6 DEF e, new
<1>2. CASE \E b \in 1 .. Len(said) : \E i \in 1 .. Len(said[b].parts) :
             m = BlockEnd(b - 1) + Opens(b) + (i - 1) /\ Amid(b, i - 1, a, d)
  <2>0. PICK b \in 1 .. Len(said) : \E i \in 1 .. Len(said[b].parts) :
               m = BlockEnd(b - 1) + Opens(b) + (i - 1) /\ Amid(b, i - 1, a, d)
    BY <1>2
  <2>1. PICK i \in 1 .. Len(said[b].parts) : m = BlockEnd(b - 1) + Opens(b) + (i - 1) /\ Amid(b, i - 1, a, d)
    BY <2>0
  <2>2. Len(said[b].parts) \in Nat /\ Opens(b) \in {0, 1} /\ BlockEnd(b - 1) \in Nat
    BY SaidFacts, PlacesStep, SendingIs
  <2>3. e = BlockEvents(dialect, said, b)[Opens(b) + i]
    <3>1. Opens(b) + i \in 1 .. (Opens(b) + Len(said[b].parts)) /\ m + 1 = BlockEnd(b - 1) + (Opens(b) + i)
      <4>1. Opens(b) \in Nat
        BY <2>2
      <4>2. PICK l, o, s \in Nat : l = Len(said[b].parts) /\ o = Opens(b) /\ s = BlockEnd(b - 1)
        BY <2>2, <4>1
      <4>3. i \in 1..l /\ m = s + o + (i - 1)
        BY <2>1, <4>2
      <4>4. o + i \in 1..(o + l) /\ m + 1 = s + (o + i)
        BY <4>3
      <4> QED BY <4>2, <4>4
    <3> QED BY <3>1, SendingIs
  <2> DEFINE s == IF e.kind = "text" THEN Append(d, <<e.part, TRUE>>) ELSE d
  <2>4. e.kind \in {"text", "json"} /\ Amid(b, i, new, s)
    BY <2>1, <2>3, PartComes
  <2>5. m + 1 = BlockEnd(b - 1) + Opens(b) + i /\ i \in 0 .. Len(said[b].parts)
    BY <2>1, <2>2
  <2> HIDE DEF new, s, e
  <2>6. Heard(m + 1, new, s)
    BY <2>4, <2>5 DEF Heard
  <2> QED BY <2>4, <2>6 DEF e, new, s
<1>3. CASE m = BlockEnd(Len(said)) /\ Told(Len(said), a, d)
  <2>1. e = Event("usage", 0, 0, "plain")
    BY <1>3, SendingIs
  <2>2. e.kind = "usage"
    BY <2>1 DEF Event
  <2>3. a \in AnswerSet
    BY <1>3 DEF Told
  <2> HIDE DEF e
  <2>4. new = [content |-> a.content, tools |-> a.tools, usage |-> TRUE]
    BY <2>2, <2>3, AssembledIs
  <2> HIDE DEF new
  <2>5. new \in AnswerSet /\ new.content = a.content /\ new.tools = a.tools /\ new.usage
    BY <2>3, <2>4 DEF AnswerSet
  <2>6. Told(Len(said), new, d)
    BY <1>3, <2>5 DEF Told
  <2>7. m + 1 > BlockEnd(Len(said))
    BY <1>0, <1>3
  <2>8. Heard(m + 1, new, d)
    BY <2>5, <2>6, <2>7 DEF Heard
  <2> QED BY <2>2, <2>8 DEF e, new
<1>4. CASE m > BlockEnd(Len(said)) /\ Told(Len(said), a, d) /\ a.usage
  <2>1. m + 1 > BlockEnd(Len(said)) + 1 /\ m + 1 > BlockEnd(Len(said))
    BY <1>0, <1>4
  <2>2. e = Event("end", 0, 0, "plain")
    BY <2>1, SendingIs
  <2>3. e.kind = "end"
    BY <2>2 DEF Event
  <2>4. Heard(m + 1, a, d)
    BY <1>4, <2>1 DEF Heard
  <2> QED BY <2>1, <2>3, <2>4
<1> QED BY <1>1, <1>2, <1>3, <1>4, NextEvent

(* The buffer holds what has come of the wire behind the first m lines, of *)
(* which the answer was put together.                                      *)
BufferHolds(m) ==
  /\ LineStart(m) + Len(buffer) = read
  /\ \A j \in 1 .. Len(buffer) :
       LET u == Wire[LineStart(m) + j]
       IN buffer[j].event = u.event /\ buffer[j].unit = u.unit /\ (~cutWide => buffer[j].good)

LinesTaken(m) ==
  /\ BufferHolds(m)
  /\ ~cutWide => /\ Heard(m, assembly, deltas)
                 /\ streamEnd = "done" /\ read = Len(Wire) => m = Len(Sending)

StreamInv ==
  /\ StreamTypes /\ read <= Len(Wire)
  /\ \E m \in 0 .. Len(Sending) : LinesTaken(m)

LEMMA StreamStarts == StreamInit => StreamInv
<1> SUFFICES ASSUME StreamInit PROVE StreamInv
  OBVIOUS
<1>1. StreamTypes
  <2>1. said \in Seq(BlockSet)
    BY StreamAssumption DEF StreamInit
  <2>2. <<>> \in Seq(UnitSet)
    OBVIOUS
  <2> QED BY <2>1, <2>2 DEF StreamInit, StreamTypes
<1>2. Len(Sending) \in Nat /\ Len(Wire) \in Nat /\ LineStart(0) = 0
  BY <1>1, WireIs
<1>3. read = 0 /\ buffer = <<>> /\ assembly = NoAnswer /\ deltas = <<>> /\ streamEnd = "open"
  BY DEF StreamInit
<1>4. BufferHolds(0)
  BY <1>2, <1>3 DEF BufferHolds
<1>5. Told(0, assembly, deltas)
  <2>1. assembly \in AnswerSet /\ deltas = assembly.content /\ assembly.content = <<>> /\ assembly.tools = <<>>
    BY <1>3 DEF NoAnswer, AnswerSet
  <2>2. ShownTo(0) = <<>> /\ ToolsTo(0) = <<>> /\ PlacesTo(0) = 0
    BY <1>1, ShownStep, ToolsStep, PlacesStep
  <2> QED BY <2>1, <2>2, AmongNone DEF Told
<1>6. Heard(0, assembly, deltas)
  <2>1. 0 \in 0 .. Len(said) /\ BlockEnd(0) = 0
    BY <1>1, SaidFacts, SendingIs
  <2> QED BY <1>5, <2>1 DEF Heard
<1>7. LinesTaken(0)
  BY <1>3, <1>4, <1>6 DEF LinesTaken
<1> QED BY <1>1, <1>2, <1>3, <1>7 DEF StreamInv

(* The first line in the buffer, if it is there, is the next one.          *)
LEMMA LineInBuffer ==
  ASSUME StreamTypes, read <= Len(Wire), NEW m \in 0 .. Len(Sending), BufferHolds(m)
  PROVE  /\ ~HasLine /\ read = Len(Wire) => m = Len(Sending)
         /\ HasLine => /\ m + 1 \in 1 .. Len(Sending)
                       /\ LineEnd = Len(Lines[m + 1]) /\ LineEnd \in 1 .. Len(buffer)
                       /\ \A j \in 1..LineEnd : buffer[j].event = m + 1
                       /\ ~cutWide => \A j \in 1..LineEnd : buffer[j].good
<1>0. /\ Len(Sending) \in Nat /\ Len(Wire) \in Nat /\ LineStart(m) \in Nat /\ m \in Nat
      /\ LineStart(Len(Sending)) = Len(Wire)
  BY WireIs
<1>1. Len(buffer) \in Nat /\ DOMAIN buffer = 1 .. Len(buffer) /\ LineStart(m) + Len(buffer) = read /\ read \in Nat
  BY DEF StreamTypes, BufferHolds
<1>2. m < Len(Sending) =>
        /\ m + 1 \in 1 .. Len(Sending) /\ LineStart(m + 1) = LineStart(m) + Len(Lines[m + 1])
        /\ LineStart(m + 1) <= Len(Wire) /\ Len(Lines[m + 1]) \in {2, 3}
        /\ \A j \in 1 .. Len(Lines[m + 1]) :
             LET u == Wire[LineStart(m) + j]
             IN u.event = m + 1 /\ u.good /\ (u.unit = "newline" <=> j = Len(Lines[m + 1]))
  <2> SUFFICES ASSUME m < Len(Sending)
               PROVE  /\ m + 1 \in 1 .. Len(Sending) /\ LineStart(m + 1) = LineStart(m) + Len(Lines[m + 1])
                      /\ LineStart(m + 1) <= Len(Wire) /\ Len(Lines[m + 1]) \in {2, 3}
                      /\ \A j \in 1 .. Len(Lines[m + 1]) :
                           LET u == Wire[LineStart(m) + j]
                           IN u.event = m + 1 /\ u.good /\ (u.unit = "newline" <=> j = Len(Lines[m + 1]))
    OBVIOUS
  <2>1. PICK k \in 1 .. Len(Sending) : k = m + 1 /\ k - 1 = m
    BY <1>0
  <2>2. /\ LineStart(k) = LineStart(k - 1) + Len(Lines[k]) /\ LineStart(k) <= Len(Wire)
        /\ Len(Lines[k]) \in {2, 3}
        /\ \A j \in 1 .. Len(Lines[k]) :
             LET u == Wire[LineStart(k - 1) + j]
             IN u.event = k /\ u.good /\ (u.unit = "newline" <=> j = Len(Lines[k]))
    BY WireIs
  <2> QED BY <2>1, <2>2, Zenon
<1>3. ASSUME ~HasLine, read = Len(Wire) PROVE m = Len(Sending)
  <2> SUFFICES ASSUME m # Len(Sending) PROVE FALSE
    OBVIOUS
  <2>1. m < Len(Sending)
    BY <1>0
  <2> DEFINE l == Len(Lines[m + 1])
  <2>2. l \in 1 .. Len(buffer) /\ l \in 1..l
    <3>1. l = 2 \/ l = 3
      BY <1>2, <2>1
    <3>2. LineStart(m + 1) = LineStart(m) + l /\ LineStart(m + 1) <= Len(Wire)
      BY <1>2, <2>1
    <3> HIDE DEF l
    <3>3. LineStart(m) + l <= LineStart(m) + Len(buffer)
      BY <1>1, <1>3, <3>2
    <3> QED BY <1>0, <1>1, <3>1, <3>3
  <2>3. buffer[l].unit = "newline"
    BY <1>2, <2>1, <2>2 DEF BufferHolds
  <2> QED BY <1>1, <1>3, <2>2, <2>3 DEF HasLine
<1>4. ASSUME HasLine
      PROVE  /\ m + 1 \in 1 .. Len(Sending)
             /\ LineEnd = Len(Lines[m + 1]) /\ LineEnd \in 1 .. Len(buffer)
             /\ \A j \in 1..LineEnd : buffer[j].event = m + 1
             /\ ~cutWide => \A j \in 1..LineEnd : buffer[j].good
  <2> DEFINE l == Len(Lines[m + 1])
             newlines == {i \in 1 .. Len(buffer) : buffer[i].unit = "newline"}
  <2>1. PICK i \in 1 .. Len(buffer) : buffer[i].unit = "newline"
    BY <1>1, <1>4 DEF HasLine
  <2>2. m < Len(Sending)
    BY <1>0, <1>1, <2>1
  <2>3. \A j \in 1 .. Len(buffer) : j <= l =>
          buffer[j].event = m + 1 /\ (buffer[j].unit = "newline" <=> j = l)
    <3> SUFFICES ASSUME NEW j \in 1 .. Len(buffer), j <= l
                 PROVE  buffer[j].event = m + 1 /\ (buffer[j].unit = "newline" <=> j = l)
      OBVIOUS
    <3>1. j \in 1 .. l
      BY <1>2, <2>2
    <3> QED BY <1>2, <2>2, <3>1 DEF BufferHolds
  <2>4. l \in Nat /\ l >= 1
    <3>1. l = 2 \/ l = 3
      BY <1>2, <2>2
    <3> HIDE DEF l
    <3> QED BY <3>1
  <2>5. l <= i
    <3> SUFFICES ASSUME i < l PROVE FALSE
      BY <2>1, <2>4
    <3> QED BY <2>1, <2>3, <2>4
  <2>6. l \in 1 .. Len(buffer) /\ buffer[l].unit = "newline" /\ \A j \in 1..(l - 1) : buffer[j].unit # "newline"
    <3>1. l \in 1 .. Len(buffer)
      BY <2>1, <2>4, <2>5
    <3>2. \A j \in 1..(l - 1) : j \in 1 .. Len(buffer) /\ j <= l /\ j # l
      BY <3>1, <1>1
    <3> HIDE DEF l
    <3> QED BY <2>3, <2>4, <3>1, <3>2
  <2>7. LineEnd = l
    <3> DEFINE First(k) == buffer[k].unit = "newline" /\ \A j \in 1 .. k - 1 : buffer[j].unit # "newline"
    <3>1. l \in DOMAIN buffer /\ First(l)
      BY <1>1, <2>6
    <3>2. \A k \in DOMAIN buffer : First(k) => k = l
      <4> SUFFICES ASSUME NEW k \in DOMAIN buffer, First(k), k # l PROVE FALSE
        OBVIOUS
      <4>1. k \in Nat /\ l \in Nat /\ k >= 1 /\ l >= 1
        BY <1>1, <2>6
      <4>2. k \in 1..(l - 1) \/ l \in 1..(k - 1)
        BY <4>1
      <4> QED BY <2>6, <3>1, <4>2
    <3>3. LineEnd = CHOOSE k \in DOMAIN buffer : First(k)
      BY DEF LineEnd
    <3> HIDE DEF First, l
    <3> QED BY <3>1, <3>2, <3>3
  <2>8. \A j \in 1..l : j \in 1 .. Len(buffer) /\ j <= l
    BY <2>6, <1>1
  <2> HIDE DEF l
  <2>9. ~cutWide => \A j \in 1..l : buffer[j].good
    BY <2>8 DEF BufferHolds
  <2> QED BY <1>2, <2>2, <2>3, <2>6, <2>7, <2>8, <2>9 DEF l
<1> QED BY <1>3, <1>4

(* What depends on the service and its reply alone.                        *)
LEMMA SameService ==
  ASSUME StreamTypes, dialect' = dialect, said' = said
  PROVE  /\ Sending' = Sending /\ Lines' = Lines /\ Wire' = Wire /\ \A m : LineStart(m)' = LineStart(m)
         /\ \A m : Heard(m, assembly, deltas)' <=> Heard(m, assembly', deltas')
<1>1. Sending' = Sending
  BY DEF Sending
<1>2. Lines' = Lines
  BY <1>1 DEF Lines
<1>3. Wire' = Wire /\ \A m : LineStart(m)' = LineStart(m)
  BY <1>2 DEF Wire, LineStart
<1>4. \A m : Heard(m, assembly, deltas)' <=> Heard(m, assembly', deltas')
  BY DEF Heard, Told, Amid, BlockEnd, ShownTo, ShownParts, ToolsTo, ToolParts, PlacesTo, Opens, PartsTo, PartsOf,
         Hidden, Visible, Blocks
<1> QED BY <1>1, <1>2, <1>3, <1>4

LEMMA PieceKeeps ==
  ASSUME StreamInv, NEW n \in 1..MaxPiece, PieceArrives(n)
  PROVE  StreamInv'
<1> DEFINE piece == SubSeq(Wire, read + 1, read + n)
           more == Decoded(piece)
<1>1. /\ StreamTypes /\ read <= Len(Wire) /\ read + n <= Len(Wire) /\ n \in Nat /\ read \in Nat
      /\ buffer \in Seq(UnitSet) /\ cutWide \in BOOLEAN
  BY StreamAssumption DEF StreamInv, PieceArrives, StreamTypes
<1>2. Wire \in Seq(UnitSet) /\ Len(Wire) \in Nat
  BY <1>1, WireIs
<1>3. PICK m \in 0 .. Len(Sending) : LinesTaken(m)
  BY DEF StreamInv
<1>4. piece \in Seq(UnitSet) /\ Len(piece) = n /\ \A j \in 1..n : piece[j] = Wire[read + j]
  BY <1>1, <1>2
<1>5. /\ buffer' = buffer \o more /\ read' = read + n /\ dialect' = dialect /\ said' = said
      /\ cutWide' = (cutWide \/ \E i \in DOMAIN piece : ~more[i].good)
      /\ assembly' = assembly /\ deltas' = deltas /\ streamEnd' = streamEnd /\ streamEnd = "open"
  BY DEF PieceArrives
<1> HIDE DEF piece
<1>6. /\ more \in Seq(UnitSet) /\ Len(more) = n
      /\ \A j \in 1..n : more[j].event = piece[j].event /\ more[j].unit = piece[j].unit
  <2> DEFINE bad(j) == \/ piece[j].unit = "first byte" /\ j = Len(piece)
                       \/ piece[j].unit = "last byte" /\ j = 1
  <2>1. more = [j \in 1..n |-> [piece[j] EXCEPT !.good = ~bad(j)]]
    BY <1>4 DEF Decoded
  <2>2. ASSUME NEW j \in 1..n
        PROVE  LET u == [piece[j] EXCEPT !.good = ~bad(j)]
               IN u \in UnitSet /\ u.event = piece[j].event /\ u.unit = piece[j].unit
    <3>1. piece[j] \in UnitSet /\ bad(j) \in BOOLEAN
      BY <1>4
    <3> HIDE DEF bad
    <3> QED BY <3>1 DEF UnitSet
  <2> HIDE DEF more, bad
  <2>3. \A j \in 1..n : more[j] \in UnitSet /\ more[j].event = piece[j].event /\ more[j].unit = piece[j].unit
    BY <2>1, <2>2
  <2>4. more = [j \in 1..n |-> more[j]]
    BY <2>1
  <2>5. more \in Seq(UnitSet) /\ Len(more) = n
    BY <1>1, <2>3, <2>4, ListOf
  <2> QED BY <2>3, <2>5
<1> HIDE DEF more
<1>7. /\ buffer' \in Seq(UnitSet) /\ Len(buffer') = Len(buffer) + n /\ Len(buffer) \in Nat
      /\ \A j \in 1 .. Len(buffer) : buffer'[j] = buffer[j]
      /\ \A j \in 1..n : buffer'[Len(buffer) + j] = more[j]
  <2>1. buffer' = buffer \o more /\ buffer \in Seq(UnitSet) /\ more \in Seq(UnitSet) /\ Len(more) = n
    BY <1>1, <1>5, <1>6
  <2>2. /\ buffer \o more \in Seq(UnitSet) /\ Len(buffer) \in Nat /\ Len(buffer \o more) = Len(buffer) + Len(more)
        /\ \A j \in 1 .. Len(buffer) : (buffer \o more)[j] = buffer[j]
        /\ \A j \in 1 .. Len(more) : (buffer \o more)[Len(buffer) + j] = more[j]
    <3>1. buffer \in Seq(UnitSet)
      BY <2>1
    <3>2. more \in Seq(UnitSet)
      BY <2>1
    <3> QED BY <3>1, <3>2, JoinOf
  <2> QED BY <2>1, <2>2
<1>8. StreamTypes'
  BY <1>1, <1>5, <1>7 DEF StreamTypes
<1>9. Sending' = Sending /\ Wire' = Wire /\ LineStart(m)' = LineStart(m)
  BY <1>1, <1>5, SameService
<1>10. BufferHolds(m)'
  <2>1. LineStart(m) \in Nat /\ LineStart(m) + Len(buffer) = read
    BY <1>1, <1>3, WireIs DEF LinesTaken, BufferHolds
  <2>2. ASSUME NEW j \in 1 .. Len(buffer')
        PROVE  LET u == Wire[LineStart(m) + j]
               IN buffer'[j].event = u.event /\ buffer'[j].unit = u.unit /\ (~cutWide' => buffer'[j].good)
    <3>1. CASE j <= Len(buffer)
      <4>1. j \in 1 .. Len(buffer) /\ buffer'[j] = buffer[j]
        BY <1>7, <3>1
      <4> QED BY <1>3, <1>5, <4>1 DEF LinesTaken, BufferHolds
    <3>2. CASE ~(j <= Len(buffer))
      <4>1. PICK k \in 1..n : j = Len(buffer) + k /\ LineStart(m) + j = read + k
        <5>1. PICK v, s \in Nat : v = Len(buffer) /\ s = LineStart(m)
          BY <1>7, <2>1
        <5>2. j \in 1..(v + n) /\ ~(j <= v) /\ s + v = read
          BY <1>7, <2>1, <3>2, <5>1
        <5>3. j - v \in 1..n /\ j = v + (j - v) /\ s + j = (s + v) + (j - v)
          BY <1>1, <5>2
        <5> QED BY <5>1, <5>2, <5>3
      <4>2. buffer'[j] = more[k] /\ piece[k] = Wire[LineStart(m) + j]
        BY <1>4, <1>7, <4>1
      <4>3. ~cutWide' => more[k].good
        <5>1. k \in DOMAIN piece
          BY <1>4
        <5> QED BY <1>5, <5>1
      <4> QED BY <1>6, <4>2, <4>3
    <3> QED BY <3>1, <3>2
  <2>3. LineStart(m) + Len(buffer') = read'
    <3>1. PICK s, v \in Nat : s = LineStart(m) /\ v = Len(buffer)
      BY <1>7, <2>1
    <3>2. Len(buffer') = v + n
      BY <1>7, <3>1
    <3>3. s + (v + n) = (s + v) + n
      BY <1>1
    <3>4. read' = (s + v) + n
      BY <1>5, <2>1, <3>1
    <3> QED BY <3>1, <3>2, <3>3, <3>4
  <2> QED BY <1>9, <2>2, <2>3 DEF BufferHolds
<1>11. LinesTaken(m)'
  <2>1. ~cutWide' => Heard(m, assembly, deltas)
    BY <1>3, <1>5 DEF LinesTaken
  <2>2. ~cutWide' => Heard(m, assembly, deltas)'
    BY <1>1, <1>5, <2>1, SameService
  <2>3. streamEnd' # "done"
    BY <1>5
  <2> QED BY <1>10, <2>2, <2>3 DEF LinesTaken
<1> QED BY <1>1, <1>5, <1>8, <1>9, <1>11 DEF StreamInv

LEMMA TakeKeeps == ASSUME StreamInv, TakeLine PROVE StreamInv'
<1>1. /\ StreamTypes /\ read <= Len(Wire) /\ HasLine /\ streamEnd = "open" /\ buffer \in Seq(UnitSet)
      /\ dialect' = dialect /\ said' = said /\ read' = read /\ cutWide' = cutWide
  BY DEF StreamInv, TakeLine, StreamTypes
<1>2. PICK m \in 0 .. Len(Sending) : LinesTaken(m)
  BY DEF StreamInv
<1> DEFINE line == SubSeq(buffer, 1, LineEnd)
           e == Sending[m + 1]
           l == LineEnd
<1>3. /\ m + 1 \in 1 .. Len(Sending) /\ l = Len(Lines[m + 1]) /\ l \in 1 .. Len(buffer)
      /\ \A j \in 1..l : buffer[j].event = m + 1
      /\ ~cutWide => \A j \in 1..l : buffer[j].good
  BY <1>1, <1>2, LineInBuffer DEF LinesTaken
<1>4. /\ Len(buffer) \in Nat /\ l \in Nat /\ l >= 1 /\ m \in Nat /\ Len(Sending) \in Nat /\ Len(Wire) \in Nat
  BY <1>1, <1>3, WireIs
<1> HIDE DEF l
<1>5. DOMAIN line = 1..l /\ \A j \in 1..l : line[j] = buffer[j]
  BY <1>1, <1>3, <1>4 DEF l
<1> HIDE DEF line
<1>6. line[1].event = m + 1 /\ (~cutWide => \A j \in DOMAIN line : line[j].good)
  <2>1. 1 \in 1..l
    BY <1>4
  <2> QED BY <1>3, <1>5, <2>1
<1>7. /\ buffer' = SubSeq(buffer, l + 1, Len(buffer))
      /\ e.kind = "end" => streamEnd' = "done" /\ assembly' = assembly /\ deltas' = deltas
      /\ e.kind # "end" =>
           /\ assembly' = Assembled(assembly, e, \A j \in DOMAIN line : line[j].good)
           /\ deltas' = IF e.kind = "text" THEN Append(deltas, <<e.part, \A j \in DOMAIN line : line[j].good>>) ELSE deltas
           /\ streamEnd' = "open"
  BY <1>1, <1>6 DEF TakeLine, RestOfBuffer, l, line
<1>8. /\ buffer' \in Seq(UnitSet) /\ Len(buffer') = Len(buffer) - l
      /\ \A j \in 1 .. Len(buffer') : buffer'[j] = buffer[l + j] /\ l + j \in 1 .. Len(buffer)
  <2>1. PICK n \in Nat : n = Len(buffer) - l /\ l + n = Len(buffer)
    <3>1. \A v \in Nat : \A k \in 1..v : v - k \in Nat /\ k + (v - k) = v
      OBVIOUS
    <3>2. Len(buffer) - l \in Nat /\ l + (Len(buffer) - l) = Len(buffer)
      BY <1>3, <1>4, <3>1, Zenon
    <3> QED BY <3>2
  <2>2. buffer' = SubSeq(buffer, l + 1, l + n) /\ buffer \in Seq(UnitSet) /\ l + n <= Len(buffer)
    <3>1. l + n <= Len(buffer)
      BY <1>4, <2>1
    <3>2. buffer' = SubSeq(buffer, l + 1, Len(buffer))
      BY <1>7
    <3>3. buffer' = SubSeq(buffer, l + 1, l + n)
      BY <2>1, <3>2, Zenon
    <3> QED BY <1>1, <3>1, <3>3
  <2>3. /\ buffer' \in Seq(UnitSet) /\ Len(buffer') = n
        /\ \A j \in 1..n : buffer'[j] = buffer[l + j] /\ l + j \in 1 .. Len(buffer)
    <3> DEFINE q == SubSeq(buffer, l + 1, l + n)
    <3>1. buffer \in Seq(UnitSet)
      BY <2>2
    <3>2. l \in Nat /\ l + n <= Len(buffer)
      BY <1>4, <2>2
    <3>3. /\ q \in Seq(UnitSet) /\ Len(q) = n
          /\ \A j \in 1..n : q[j] = buffer[l + j] /\ l + j \in 1 .. Len(buffer)
      BY <3>1, <3>2, PartOf, Zenon
    <3>4. buffer' = q
      BY <2>2
    <3> HIDE DEF q
    <3> QED BY <3>3, <3>4
  <2> QED BY <2>1, <2>3
<1>9. StreamTypes'
  BY <1>1, <1>8 DEF StreamTypes
<1>10. Sending' = Sending /\ Wire' = Wire /\ LineStart(m + 1)' = LineStart(m + 1)
  BY <1>1, SameService
<1>11. LineStart(m + 1) = LineStart(m) + l /\ LineStart(m) \in Nat
  <2>1. (m + 1) - 1 = m
    BY <1>4
  <2> QED BY <1>1, <1>3, <2>1, WireIs
<1>12. BufferHolds(m + 1)'
  <2>1. LineStart(m) + Len(buffer) = read
    BY <1>2 DEF LinesTaken, BufferHolds
  <2>2. ASSUME NEW j \in 1 .. Len(buffer')
        PROVE  LET u == Wire[LineStart(m + 1) + j]
               IN buffer'[j].event = u.event /\ buffer'[j].unit = u.unit /\ (~cutWide' => buffer'[j].good)
    <3>1. buffer'[j] = buffer[l + j] /\ l + j \in 1 .. Len(buffer)
      BY <1>8
    <3>2. LineStart(m + 1) + j = LineStart(m) + (l + j)
      BY <1>4, <1>8, <1>11
    <3> QED BY <1>1, <1>2, <3>1, <3>2 DEF LinesTaken, BufferHolds
  <2>3. LineStart(m + 1) + Len(buffer') = read'
    BY <1>1, <1>4, <1>8, <1>11, <2>1
  <2> QED BY <1>10, <2>2, <2>3 DEF BufferHolds
<1>13. /\ ~cutWide => Heard(m + 1, assembly', deltas')
       /\ ~cutWide /\ e.kind = "end" => m + 1 = Len(Sending)
  <2> SUFFICES ASSUME ~cutWide
               PROVE  Heard(m + 1, assembly', deltas') /\ (e.kind = "end" => m + 1 = Len(Sending))
    OBVIOUS
  <2>1. Heard(m, assembly, deltas)
    BY <1>2 DEF LinesTaken
  <2>2. (\A j \in DOMAIN line : line[j].good) <=> TRUE
    BY <1>6
  <2> DEFINE s == IF e.kind = "text" THEN Append(deltas, <<e.part, TRUE>>) ELSE deltas
  <2>3. /\ e.kind = "end" => Heard(m + 1, assembly, deltas) /\ m + 1 > BlockEnd(Len(said)) + 1
        /\ e.kind # "end" => Heard(m + 1, Assembled(assembly, e, TRUE), s)
    BY <1>1, <1>3, <1>4, <2>1, EventIsHeard
  <2>4. CASE e.kind = "end"
    <3>1. Len(Sending) <= BlockEnd(Len(said)) + 2 /\ BlockEnd(Len(said)) \in Nat
      BY <1>1, SendingIs
    <3>2. m + 1 = Len(Sending)
      BY <1>3, <1>4, <2>3, <2>4, <3>1
    <3> QED BY <1>7, <2>3, <2>4, <3>2
  <2>5. CASE e.kind # "end"
    <3>1. assembly' = Assembled(assembly, e, TRUE) /\ deltas' = s
      <4> HIDE DEF line, e
      <4> QED BY <1>7, <2>2, <2>5
    <3> QED BY <2>3, <2>5, <3>1
  <2> QED BY <2>4, <2>5
<1>14. ~cutWide /\ streamEnd' = "done" => m + 1 = Len(Sending)
  BY <1>7, <1>13
<1>15. LinesTaken(m + 1)'
  <2>1. ~cutWide => Heard(m + 1, assembly, deltas)'
    BY <1>1, <1>13, SameService
  <2> QED BY <1>1, <1>10, <1>12, <1>14, <2>1 DEF LinesTaken
<1>16. m + 1 \in 0 .. Len(Sending')
  BY <1>3, <1>4, <1>10
<1> QED BY <1>1, <1>9, <1>10, <1>15, <1>16 DEF StreamInv

LEMMA EndKeeps == ASSUME StreamInv, BodyEnds \/ ConnectionBreaks \/ RequestRefused PROVE StreamInv'
<1>1. /\ StreamTypes /\ read <= Len(Wire)
      /\ dialect' = dialect /\ said' = said /\ read' = read /\ cutWide' = cutWide /\ buffer' = buffer
      /\ assembly' = assembly /\ deltas' = deltas
      /\ streamEnd' = "done" => ~HasLine
  BY DEF StreamInv, BodyEnds, ConnectionBreaks, RequestRefused
<1>2. PICK m \in 0 .. Len(Sending) : LinesTaken(m)
  BY DEF StreamInv
<1>3. StreamTypes'
  BY <1>1 DEF StreamTypes
<1>4. Sending' = Sending /\ Wire' = Wire /\ LineStart(m)' = LineStart(m)
  BY <1>1, SameService
<1>5. BufferHolds(m)'
  BY <1>1, <1>2, <1>4 DEF LinesTaken, BufferHolds
<1>6. ~cutWide => Heard(m, assembly, deltas)'
  BY <1>1, <1>2, SameService DEF LinesTaken
<1>7. streamEnd' = "done" /\ read = Len(Wire) => m = Len(Sending)
  BY <1>1, <1>2, LineInBuffer DEF LinesTaken
<1>8. LinesTaken(m)'
  BY <1>1, <1>4, <1>5, <1>6, <1>7 DEF LinesTaken
<1> QED BY <1>1, <1>3, <1>4, <1>8 DEF StreamInv

LEMMA StreamStays == ASSUME StreamInv, UNCHANGED streamVars PROVE StreamInv'
<1>1. /\ StreamTypes /\ read <= Len(Wire)
      /\ dialect' = dialect /\ said' = said /\ read' = read /\ cutWide' = cutWide /\ buffer' = buffer
      /\ assembly' = assembly /\ deltas' = deltas /\ streamEnd' = streamEnd
  BY DEF StreamInv, streamVars
<1>2. PICK m \in 0 .. Len(Sending) : LinesTaken(m)
  BY DEF StreamInv
<1>3. StreamTypes'
  BY <1>1 DEF StreamTypes
<1>4. Sending' = Sending /\ Wire' = Wire /\ LineStart(m)' = LineStart(m)
  BY <1>1, SameService
<1>5. BufferHolds(m)'
  BY <1>1, <1>2, <1>4 DEF LinesTaken, BufferHolds
<1>6. ~cutWide => Heard(m, assembly, deltas)'
  BY <1>1, <1>2, SameService DEF LinesTaken
<1>7. LinesTaken(m)'
  BY <1>1, <1>2, <1>4, <1>5, <1>6 DEF LinesTaken
<1> QED BY <1>1, <1>3, <1>4, <1>7 DEF StreamInv

(* The tools of the reply by the number of their block, as the call        *)
(* without a stream lists them, are those that the assembler named.        *)
LEMMA ToolsAreCalled ==
  ASSUME StreamTypes
  PROVE  LET ids == Among([b \in DOMAIN said |-> b], {b \in DOMAIN said : IsTool(said, b)})
             tools == ToolsTo(Len(said))
         IN /\ ids \in Seq(1 .. Len(said)) /\ tools \in Seq(NamedTools) /\ Len(ids) = Len(tools)
            /\ \A i \in 1 .. Len(ids) : tools[i].name = ids[i] /\ tools[i].json = PartsOf(ids[i])
<1> DEFINE N == Len(said)
           list == [b \in 1..N |-> b]
           S == {b \in DOMAIN said : IsTool(said, b)}
           one == [n \in 1..N |-> IF n \in S THEN <<n>> ELSE <<>>]
           J(b) == Joins(one)[b]
           Same(b) == /\ Len(J(b)) = Len(ToolsTo(b))
                      /\ \A i \in 1 .. Len(J(b)) : ToolsTo(b)[i].name = J(b)[i] /\ ToolsTo(b)[i].json = PartsOf(J(b)[i])
           bad == {b \in 0..N : ~Same(b)}
<1>0. N \in Nat /\ DOMAIN said = 1..N
  BY SaidFacts
<1>1. one \in Seq(Seq(1..N)) /\ Len(one) = N /\ \A b \in 1..N : one[b] = IF b \in S THEN <<b>> ELSE <<>>
  <2> DEFINE P(n) == IF n \in S THEN <<n>> ELSE <<>>
  <2>1. \A n \in 1..N : P(n) \in Seq(1..N)
    <3> HIDE DEF N, S
    <3> SUFFICES ASSUME NEW n \in 1..N PROVE P(n) \in Seq(1..N)
      OBVIOUS
    <3>1. <<n>> \in Seq(1..N)
      BY OneLong
    <3>2. <<>> \in Seq(1..N)
      OBVIOUS
    <3> QED BY <3>1, <3>2, Zenon
  <2>2. one = [n \in 1..N |-> P(n)]
    OBVIOUS
  <2> HIDE DEF P, one, N
  <2>3. one \in Seq(Seq(1..N)) /\ Len(one) = N /\ \A n \in 1..N : one[n] = P(n)
    BY <1>0, <2>1, <2>2
  <2> QED BY <2>3 DEF P
<1>2. Among([b \in DOMAIN said |-> b], S) = J(N)
  <2>1. DOMAIN list = 1..N /\ \A n \in 1..N : list[n] = n
    OBVIOUS
  <2>2. [n \in DOMAIN list |-> IF list[n] \in S THEN <<list[n]>> ELSE <<>>] = one
    <3> HIDE DEF list, S, N
    <3> QED BY <2>1
  <2>3. Among(list, S) = Concat(one)
    <3> HIDE DEF list, S, N, one
    <3> QED BY <2>2 DEF Among
  <2>4. [b \in DOMAIN said |-> b] = list
    BY <1>0
  <2> HIDE DEF list, S, one, N
  <2> QED BY <1>1, <2>3, <2>4 DEF Concat
<1>3. J(0) = <<>> /\ \A b \in 1..N : J(b) = J(b - 1) \o one[b]
  <2> HIDE DEF one, N
  <2> QED BY <1>0, <1>1, JoinsAre
<1>4. \A b \in 0..N : J(b) \in Seq(1..N)
  <2> HIDE DEF one
  <2> QED BY <1>1, JoinsTyped
<1> HIDE DEF one, J, list
<1>5. bad = {}
  <2> SUFFICES ASSUME bad # {} PROVE FALSE
    OBVIOUS
  <2>1. PICK b \in bad : \A k \in bad : b <= k
    <3>1. bad \in SUBSET Nat
      BY <1>0
    <3> HIDE DEF bad
    <3> QED BY <3>1, LeastNumber
  <2>2. b \in 0..N /\ ~Same(b)
    OBVIOUS
  <2>3. b # 0
    BY <1>3, <2>2, ToolsStep
  <2>4. b \in 1..N /\ b - 1 \in 0..N /\ ~(b <= b - 1)
    BY <1>0, <2>2, <2>3
  <2>5. Same(b - 1)
    <3> HIDE DEF Same, N
    <3> QED BY <2>1, <2>4
  <2> DEFINE t == [name |-> b, json |-> PartsOf(b)]
  <2>6. J(b - 1) \in Seq(1..N) /\ ToolsTo(b - 1) \in Seq(NamedTools) /\ t \in NamedTools
    BY <1>4, <2>4, ToolsStep
  <2>7. CASE IsTool(said, b)
    <3>1. one[b] = <<b>>
      BY <1>0, <1>1, <2>4, <2>7
    <3>2. J(b) = Append(J(b - 1), b)
      <4>1. J(b) = J(b - 1) \o <<b>>
        BY <1>3, <2>4, <3>1
      <4> HIDE DEF N
      <4> QED BY <2>4, <2>6, <4>1
    <3>3. ToolsTo(b) = Append(ToolsTo(b - 1), t)
      BY <2>4, <2>7, ToolsStep
    <3>4. t.name = b /\ t.json = PartsOf(b)
      OBVIOUS
    <3> DEFINE u == J(b - 1)  v == ToolsTo(b - 1)
    <3>5. /\ Len(u) \in Nat /\ Len(v) = Len(u)
          /\ Len(Append(u, b)) = Len(u) + 1 /\ Len(Append(v, t)) = Len(u) + 1
          /\ \A i \in 1 .. (Len(u) + 1) : /\ Append(u, b)[i] = IF i = Len(u) + 1 THEN b ELSE u[i]
                                         /\ Append(v, t)[i] = IF i = Len(u) + 1 THEN t ELSE v[i]
      <4> HIDE DEF t, N
      <4> QED BY <2>5, <2>6
    <3>6. \A i \in 1 .. (Len(u) + 1) : i = Len(u) + 1 \/ i \in 1 .. Len(u)
      BY <3>5
    <3>7. Same(b)
      <4> HIDE DEF t
      <4> QED BY <2>5, <3>2, <3>3, <3>4, <3>5, <3>6
    <3> HIDE DEF Same
    <3> QED BY <2>2, <3>7
  <2>8. CASE ~IsTool(said, b)
    <3>1. one[b] = <<>>
      BY <1>0, <1>1, <2>4, <2>8
    <3>2. J(b) = J(b - 1)
      <4>1. J(b) = J(b - 1) \o <<>>
        BY <1>3, <2>4, <3>1
      <4> HIDE DEF N
      <4> QED BY <2>6, <4>1
    <3>3. ToolsTo(b) = ToolsTo(b - 1)
      BY <2>4, <2>8, ToolsStep
    <3> QED BY <2>2, <2>5, <3>2, <3>3
  <2> QED BY <2>7, <2>8
<1>6. Same(N) /\ N \in 0..N
  <2>1. N \in 0..N
    BY <1>0
  <2> HIDE DEF Same, N
  <2> QED BY <1>5, <2>1
<1> QED BY <1>2, <1>4, <1>6, ToolsStep

LEMMA StreamIsWhole == StreamInv => StreamIsLikeCall
<1> SUFFICES ASSUME StreamInv, AllHasCome, ~cutWide
             PROVE  /\ Among(Finished.content, Visible) = CalledAtOnce.content
                    /\ deltas = Finished.content
                    /\ Len(Finished.tools) = Len(CalledAtOnce.tools) /\ Finished.usage
                    /\ \A i \in DOMAIN CalledAtOnce.tools :
                         /\ Finished.tools[i].name = CalledAtOnce.tools[i].name
                         /\ PartsOf(CalledAtOnce.tools[i].name) # <<>> => Finished.tools[i].arguments = CalledAtOnce.tools[i].arguments
  BY DEF StreamIsLikeCall
<1>1. StreamTypes
  BY DEF StreamInv
<1> DEFINE N == Len(said)
           ids == Among([b \in DOMAIN said |-> b], {b \in DOMAIN said : IsTool(said, b)})
           tools == ToolsTo(N)
<1>2. Told(N, assembly, deltas) /\ assembly.usage
  <2>1. PICK m \in 0 .. Len(Sending) : LinesTaken(m)
    BY DEF StreamInv
  <2>2. m = Len(Sending) /\ Heard(m, assembly, deltas)
    BY <2>1 DEF LinesTaken, AllHasCome
  <2>3. m > BlockEnd(N) /\ BlockEnd(N) \in Nat /\ N \in Nat
    BY <1>1, <2>2, SendingIs, SaidFacts
  <2>4. \A b \in 0..N : BlockEnd(b) <= BlockEnd(N)
    <3>1. \A b \in 1..N : BlockEnd(b) <= BlockEnd(N)
      BY <1>1, SendingIs
    <3>2. BlockEnd(0) = 0
      BY <1>1, SendingIs
    <3> QED BY <2>3, <3>1, <3>2
  <2>5. \A b \in 1..N : \A i \in 0 .. Len(said[b].parts) : BlockEnd(b - 1) + Opens(b) + i <= BlockEnd(N)
    <3> SUFFICES ASSUME NEW b \in 1..N, NEW i \in 0 .. Len(said[b].parts)
                 PROVE  BlockEnd(b - 1) + Opens(b) + i <= BlockEnd(N)
      OBVIOUS
    <3>1. /\ BlockEnd(b - 1) \in Nat /\ BlockEnd(b) = BlockEnd(b - 1) + Opens(b) + Len(said[b].parts)
          /\ BlockEnd(b) <= BlockEnd(N)
      BY <1>1, SendingIs
    <3>2. Opens(b) \in {0, 1} /\ Len(said[b].parts) \in Nat
      BY <1>1, PlacesStep, SaidFacts
    <3> HIDE DEF N
    <3>3. PICK s, o, l \in Nat : s = BlockEnd(b - 1) /\ o = Opens(b) /\ l = Len(said[b].parts)
      BY <3>1, <3>2
    <3>4. i \in 0..l /\ BlockEnd(N) \in Nat /\ s + o + l <= BlockEnd(N)
      BY <2>3, <3>1, <3>3
    <3>5. s + o + i <= BlockEnd(N)
      BY <3>4
    <3> QED BY <3>3, <3>5
  <2>6. ~(\E b \in 0..N : m = BlockEnd(b) /\ Told(b, assembly, deltas))
    <3>1. \A b \in 0..N : BlockEnd(b) \in Int => m # BlockEnd(b)
      BY <2>3, <2>4
    <3>2. \A b \in 0..N : BlockEnd(b) \in Nat
      <4>1. ASSUME NEW b \in 1..N PROVE BlockEnd(b) \in Nat
        <5>1. BlockEnd(b - 1) \in Nat /\ BlockEnd(b) = BlockEnd(b - 1) + Opens(b) + Len(said[b].parts)
          BY <1>1, SendingIs
        <5>2. (Opens(b) = 0 \/ Opens(b) = 1) /\ Len(said[b].parts) \in Nat
          BY <1>1, PlacesStep, SaidFacts
        <5> HIDE DEF N
        <5> QED BY <5>1, <5>2
      <4>2. BlockEnd(0) = 0
        BY <1>1, SendingIs
      <4> QED BY <2>3, <4>1, <4>2
    <3> QED BY <3>1, <3>2
  <2>7. ~(\E b \in 1..N : \E i \in 0 .. Len(said[b].parts) :
            m = BlockEnd(b - 1) + Opens(b) + i /\ Amid(b, i, assembly, deltas))
    BY <2>3, <2>5
  <2> QED BY <2>2, <2>6, <2>7 DEF Heard
<1>3. /\ assembly \in AnswerSet /\ deltas = assembly.content
      /\ Among(assembly.content, Visible) = Concat(ShownParts) /\ Among(assembly.tools, NamedTools) = tools
  BY <1>1, <1>2, ShownStep DEF Told
<1>4. /\ ids \in Seq(1..N) /\ tools \in Seq(NamedTools) /\ Len(ids) = Len(tools)
      /\ \A i \in 1 .. Len(ids) : tools[i].name = ids[i] /\ tools[i].json = PartsOf(ids[i])
  BY <1>1, ToolsAreCalled
<1>5. /\ Finished.content = assembly.content /\ Finished.usage = assembly.usage
      /\ Finished.tools = [i \in DOMAIN tools |-> [name |-> tools[i].name, arguments |-> Arguments(tools[i])]]
  BY <1>3 DEF Finished, AnswerSet
<1> DEFINE none == IF dialect = "anthropic" THEN <<"{}">> ELSE <<"empty text">>
           arguments(b) == IF PartsOf(b) = <<>> THEN none ELSE PartsOf(b)
<1>6. /\ CalledAtOnce.content = Concat(ShownParts)
      /\ CalledAtOnce.tools = [i \in DOMAIN ids |-> [name |-> ids[i], arguments |-> arguments(ids[i])]]
  BY DEF CalledAtOnce, CalledTools
<1> HIDE DEF ids, tools, none, N
<1>7. DOMAIN ids = 1 .. Len(ids) /\ DOMAIN tools = 1 .. Len(ids) /\ Len(ids) \in Nat
  BY <1>4
<1>8. Len(Finished.tools) = Len(ids) /\ Len(CalledAtOnce.tools) = Len(ids) /\ DOMAIN CalledAtOnce.tools = 1 .. Len(ids)
  BY <1>5, <1>6, <1>7
<1>9. ASSUME NEW i \in 1 .. Len(ids)
      PROVE  /\ Finished.tools[i].name = CalledAtOnce.tools[i].name
             /\ PartsOf(CalledAtOnce.tools[i].name) # <<>> => Finished.tools[i].arguments = CalledAtOnce.tools[i].arguments
  <2>1. Finished.tools[i].name = ids[i] /\ Finished.tools[i].arguments = Arguments(tools[i])
    BY <1>4, <1>5, <1>7
  <2>2. CalledAtOnce.tools[i].name = ids[i] /\ CalledAtOnce.tools[i].arguments = arguments(ids[i])
    BY <1>6, <1>7
  <2>3. PartsOf(ids[i]) # <<>> => Arguments(tools[i]) = PartsOf(ids[i])
    BY <1>4 DEF Arguments
  <2> QED BY <2>1, <2>2, <2>3
<1> QED BY <1>2, <1>3, <1>5, <1>6, <1>8, <1>9

(* However an answer is cut into pieces, what is put together of it is what*)
(* the same call returns without a stream, but for the three differences   *)
(* that the property names: for any reply, service and sizes of pieces.    *)
THEOREM StreamsAreLikeCalls == StreamSpec => []StreamIsLikeCall
<1>1. StreamInv /\ [StreamNext]_streamVars => StreamInv'
  <2> SUFFICES ASSUME StreamInv, [StreamNext]_streamVars PROVE StreamInv'
    OBVIOUS
  <2>1. CASE \E n \in 1..MaxPiece : PieceArrives(n)
    BY <2>1, PieceKeeps
  <2>2. CASE TakeLine
    BY <2>2, TakeKeeps
  <2>3. CASE BodyEnds \/ ConnectionBreaks \/ RequestRefused
    BY <2>3, EndKeeps
  <2>4. CASE UNCHANGED streamVars
    BY <2>4, StreamStays
  <2> QED BY <2>1, <2>2, <2>3, <2>4 DEF StreamNext
<1> QED BY <1>1, StreamStarts, StreamIsWhole, PTL DEF StreamSpec
=============================================================================
