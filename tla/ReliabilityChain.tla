-------------------------- MODULE ReliabilityChain --------------------------
(***************************************************************************)
(* Failover between model providers and the circuit breaker that leaves a  *)
(* failing one alone (crates/adaclaw-providers/src/reliable.rs).           *)
(*                                                                         *)
(* Any number of tasks call one chain.  The breaker is two maps behind two *)
(* mutexes, keyed by the provider's name; every operation takes the locks  *)
(* one after the other, so each lock is a step of its own.  The providers  *)
(* are outside: a request is answered or fails in one of three ways.  A    *)
(* retry's backoff is part of the step in which its answer arrives.        *)
(***************************************************************************)
EXTENDS Naturals, Sequences

CONSTANTS
  Workers,      \* tasks that use the chain
  Chain,        \* the providers' names, in the order of preference
  MaxRetries,   \* MAX_RETRIES, 3
  Base,         \* COOLDOWN_BASE_SECS, 60
  Factor,       \* 5
  Longest,      \* COOLDOWN_MAX_SECS, 3600
  Rungs         \* 4: failures after which the formula no longer grows

Names == {Chain[j] : j \in DOMAIN Chain}
Positions == DOMAIN Chain

ASSUME ChainAssumption ==
  /\ Chain \in Seq(Names) /\ Chain # <<>>
  /\ MaxRetries \in Nat
  /\ Base \in Nat \ {0} /\ Factor \in Nat \ {0} /\ Longest \in Nat \ {0}
  /\ Rungs \in 1..4

VARIABLES
  open,       \* names with an entry in the map "cooldowns"
  left,       \* name -> what is left of its cooldown
  count,      \* the map "failure_counts"; 0 is no entry
  pc,         \* w -> what the task is about to do
  purpose,    \* w -> "capabilities", "any" (has_available_provider), "serve"
  at,         \* w -> the position in the chain it has come to
  attempt,    \* w -> which attempt at that provider
  counted,    \* w -> the failure count it read under the first lock
  result,     \* w -> what its last call came to
  blocked,    \* w -> positions its call found open or saw fail
  overtaken   \* w -> the breaker opened after it had looked

breaker == <<open, left, count>>
vars == <<open, left, count, pc, purpose, at, attempt, counted, result, blocked, overtaken>>

(* calculate_cooldown: counts from the last rung on are alike, so they are *)
(* kept as that.                                                           *)
Increment(n) == IF n < Rungs THEN n + 1 ELSE Rungs
Power == <<1, Factor, Factor * Factor, Factor * Factor * Factor>>
Cooldown(n) ==
  LET time == Base * Power[IF n < 1 THEN 1 ELSE n]
  IN IF time < Longest THEN time ELSE Longest

Name(w) == Chain[at[w]]
Running(p) == p \in open /\ left[p] > 0

Init ==
  /\ open = {} /\ left = [p \in Names |-> 0] /\ count = [p \in Names |-> 0]
  /\ pc = [w \in Workers |-> "idle"]
  /\ purpose = [w \in Workers |-> "any"]
  /\ at = [w \in Workers |-> 1]
  /\ attempt = [w \in Workers |-> 0]
  /\ counted = [w \in Workers |-> 0]
  /\ result = [w \in Workers |-> "none"]
  /\ blocked = [w \in Workers |-> {}]
  /\ overtaken = [w \in Workers |-> FALSE]
-----------------------------------------------------------------------------
(* The task looks at position j next, having learnt that "found" are out.  *)
LookAt(w, j, why, found) ==
  /\ pc' = [pc EXCEPT ![w] = "look"]
  /\ at' = [at EXCEPT ![w] = j]
  /\ purpose' = [purpose EXCEPT ![w] = why]
  /\ attempt' = [attempt EXCEPT ![w] = 0]
  /\ counted' = [counted EXCEPT ![w] = 0]
  /\ blocked' = [blocked EXCEPT ![w] = found]

Return(w, r, found) ==
  /\ pc' = [pc EXCEPT ![w] = "idle"]
  /\ at' = [at EXCEPT ![w] = 1]
  /\ purpose' = [purpose EXCEPT ![w] = "any"]
  /\ attempt' = [attempt EXCEPT ![w] = 0]
  /\ counted' = [counted EXCEPT ![w] = 0]
  /\ blocked' = [blocked EXCEPT ![w] = found]
  /\ result' = [result EXCEPT ![w] = r]

(* capabilities and has_available_provider stop at the first provider that *)
(* is not in cooldown; chat_inner asks it.                                 *)
Available(w) ==
  CASE purpose[w] = "capabilities" -> Return(w, "none", {})
    [] purpose[w] = "any" -> LookAt(w, 1, "serve", {}) /\ UNCHANGED result
    [] purpose[w] = "serve" ->
         /\ pc' = [pc EXCEPT ![w] = "ask"]
         /\ UNCHANGED <<purpose, at, attempt, counted, result, blocked>>

(* Mutant: the first provider that fails ends the call. *)
AdvanceNowhere(w) ==
  LET found == blocked[w] \cup {at[w]}
  IN IF purpose[w] # "serve" /\ at[w] < Len(Chain)
       THEN LookAt(w, at[w] + 1, purpose[w], found) /\ UNCHANGED result
       ELSE Return(w, IF purpose[w] = "capabilities" THEN "none" ELSE "error", found)

(* The next provider, or the end: the first one's capabilities, or an      *)
(* error.                                                                  *)
Advance(w) ==
  LET found == blocked[w] \cup {at[w]}
  IN IF at[w] < Len(Chain)
       THEN LookAt(w, at[w] + 1, purpose[w], found) /\ UNCHANGED result
       ELSE IF purpose[w] = "capabilities"
              THEN Return(w, "none", {})
              ELSE Return(w, "error", found)

(* chat, chat_with_tools, chat_with_system; capabilities. *)
Call(w) ==
  /\ pc[w] = "idle"
  /\ \E why \in {"any", "capabilities"} : LookAt(w, 1, why, {})
  /\ result' = [result EXCEPT ![w] = "none"]
  /\ UNCHANGED <<breaker, overtaken>>

(* Mutant: after has_available_provider nothing is looked up again. *)
LookOnce(w) ==
  /\ pc[w] = "look"
  /\ overtaken' = [overtaken EXCEPT ![w] = FALSE]
  /\ IF Running(Name(w)) /\ purpose[w] # "serve" THEN Advance(w) ELSE Available(w)
  /\ UNCHANGED breaker

(* Mutant: a look at a running cooldown starts it again. *)
LookRenews(w) ==
  /\ pc[w] = "look"
  /\ IF Running(Name(w))
       THEN /\ Advance(w)
            /\ left' = [left EXCEPT ![Name(w)] = Cooldown(count[Name(w)])]
       ELSE Available(w) /\ UNCHANGED left
  /\ UNCHANGED <<open, count, overtaken>>

(* is_in_cooldown, under the first lock. *)
Look(w) ==
  /\ pc[w] = "look"
  /\ overtaken' = [overtaken EXCEPT ![w] = FALSE]
  /\ \/ /\ Name(w) \notin open
        /\ Available(w)
     \/ /\ Running(Name(w))
        /\ Advance(w)
     \/ /\ Name(w) \in open /\ left[Name(w)] = 0
        /\ pc' = [pc EXCEPT ![w] = "unopen"]
        /\ UNCHANGED <<purpose, at, attempt, counted, result, blocked>>
  /\ UNCHANGED breaker

(* Its recovery: the two maps, one lock after the other. *)
Unopen(w) ==
  /\ pc[w] = "unopen"
  /\ open' = open \ {Name(w)}
  /\ left' = [left EXCEPT ![Name(w)] = 0]
  /\ pc' = [pc EXCEPT ![w] = "uncount"]
  /\ UNCHANGED <<count, purpose, at, attempt, counted, result, blocked, overtaken>>

Uncount(w) ==
  /\ pc[w] = "uncount"
  /\ count' = [count EXCEPT ![Name(w)] = 0]
  /\ Available(w)
  /\ UNCHANGED <<open, left, overtaken>>

(* record_success: counts first, then cooldowns. *)
Answered(w) ==
  /\ pc[w] = "ask"
  /\ count' = [count EXCEPT ![Name(w)] = 0]
  /\ pc' = [pc EXCEPT ![w] = "close"]
  /\ UNCHANGED <<open, left, purpose, at, attempt, counted, result, blocked, overtaken>>

Close(w) ==
  /\ pc[w] = "close"
  /\ open' = open \ {Name(w)}
  /\ left' = [left EXCEPT ![Name(w)] = 0]
  /\ Return(w, "response", blocked[w])
  /\ UNCHANGED <<count, overtaken>>

(* AuthError and BadRequest are not counted. *)
Rejected(w) ==
  /\ pc[w] = "ask"
  /\ Advance(w)
  /\ UNCHANGED <<breaker, overtaken>>

(* ServerError, Timeout and Unknown are worth another attempt. *)
Retry(w) ==
  /\ pc[w] = "ask" /\ attempt[w] < MaxRetries
  /\ attempt' = [attempt EXCEPT ![w] = @ + 1]
  /\ UNCHANGED <<breaker, pc, purpose, at, counted, result, blocked, overtaken>>

(* record_failure, after RateLimit, Billing, or the last attempt. *)
Failed(w) ==
  /\ pc[w] = "ask"
  /\ count' = [count EXCEPT ![Name(w)] = Increment(@)]
  /\ counted' = [counted EXCEPT ![w] = Increment(count[Name(w)])]
  /\ pc' = [pc EXCEPT ![w] = "open"]
  /\ UNCHANGED <<open, left, purpose, at, attempt, result, blocked, overtaken>>

Open(w) ==
  /\ pc[w] = "open"
  /\ open' = open \cup {Name(w)}
  /\ left' = [left EXCEPT ![Name(w)] = Cooldown(counted[w])]
  /\ overtaken' = [v \in Workers |-> overtaken[v] \/ (v # w /\ pc[v] # "idle" /\ Name(v) = Name(w))]
  /\ Advance(w)
  /\ UNCHANGED count

(* Time passes. *)
Tick ==
  /\ \E p \in Names : left[p] > 0
  /\ left' = [p \in Names |-> IF left[p] > 0 THEN left[p] - 1 ELSE 0]
  /\ UNCHANGED <<open, count, pc, purpose, at, attempt, counted, result, blocked, overtaken>>

Step(w) ==
  \/ Look(w) \/ Unopen(w) \/ Uncount(w)
  \/ Answered(w) \/ Close(w) \/ Rejected(w) \/ Retry(w) \/ Failed(w) \/ Open(w)

Next ==
  \/ \E w \in Workers : Call(w) \/ Step(w)
  \/ Tick

Spec == Init /\ [][Next]_vars

(* A task that holds no lock is polled, and clocks go on. *)
Fairness == WF_vars(Tick) /\ \A w \in Workers : WF_vars(Step(w))
FairSpec == Spec /\ Fairness
-----------------------------------------------------------------------------
(* Properties. *)

TypeOK ==
  /\ open \subseteq Names
  /\ left \in [Names -> 0..Longest] /\ \A p \in Names \ open : left[p] = 0
  /\ count \in [Names -> 0..Rungs]
  /\ pc \in [Workers -> {"idle", "look", "unopen", "uncount", "ask", "close", "open"}]
  /\ purpose \in [Workers -> {"capabilities", "any", "serve"}]
  /\ at \in [Workers -> Positions]
  /\ attempt \in [Workers -> 0..MaxRetries]
  /\ counted \in [Workers -> 0..Rungs]
  /\ result \in [Workers -> {"none", "response", "error"}]
  /\ blocked \in [Workers -> SUBSET Positions]
  /\ overtaken \in [Workers -> BOOLEAN]

(* A provider in cooldown is left alone: the only calls it still gets are  *)
(* those of tasks that had looked before its breaker opened.               *)
Spared == \A w \in Workers : pc[w] = "ask" /\ Running(Name(w)) => overtaken[w]

(* The chain gives up only after every provider in it, whatever happened   *)
(* to the breakers meanwhile, was found in cooldown or failed in this call.*)
GivesUpLast == \A w \in Workers : result[w] = "error" => blocked[w] = Positions

(* However many calls are under way, none can keep a breaker open for ever:*)
(* a cooldown that runs comes to its end.                                  *)
Reprobed == \A p \in Names : Running(p) ~> ~Running(p)

-----------------------------------------------------------------------------
(* The chain of the model-checked instance. *)
TwoProviders == <<"openai", "ollama">>
=============================================================================
