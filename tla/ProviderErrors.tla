--------------------------- MODULE ProviderErrors ---------------------------
(***************************************************************************)
(* What a failed request to a provider is taken for                        *)
(* (crates/adaclaw-providers, error.rs) and what the reliability chain     *)
(* does about it (reliable.rs, chat_inner): again, or the next provider,   *)
(* with or without a failure recorded.  ReliabilityChain has the breaker   *)
(* and leaves the kind of a failure open.                                  *)
(*                                                                         *)
(* An answer with an HTTP status comes as a ProviderError; all else (no    *)
(* connection, an answer that does not parse, a missing key) is a text, of *)
(* which only counts which families of patterns occur in it.  The text of  *)
(* a connection failure holds the URL.                                     *)
(***************************************************************************)
EXTENDS Naturals, Sequences

CONSTANTS
  Statuses,     \* of answers; 0 for a failure that has only a text
  MostRetries   \* max_retries

ASSUME ProviderErrorsAssumption == Statuses \subseteq Nat /\ MostRetries \in Nat

VARIABLES
  met,          \* the failures that this provider's requests have met, in order
  stage,        \* "asking", "answered" or "passedOver"
  recorded      \* how often record_failure was called

errorVars == <<met, stage, recorded>>

Families == <<"RateLimit", "Billing", "Timeout", "AuthError", "BadRequest", "ServerError">>

ErrorsInit == met = <<>> /\ stage = "asking" /\ recorded = 0

-----------------------------------------------------------------------------
(* from_status *)
OfStatus(status) ==
  CASE status = 400 -> "BadRequest"
    [] status \in {401, 403} -> "AuthError"
    [] status = 402 -> "Billing"
    [] status = 408 -> "Timeout"
    [] status = 429 -> "RateLimit"
    [] status \in 500..599 -> "ServerError"
    [] OTHER -> "Unknown"

(* Mutant: the patterns of timeouts are looked for after those of wrong    *)
(* requests.                                                               *)
OfTextLate(found) ==
  LET order == <<"RateLimit", "Billing", "AuthError", "BadRequest", "Timeout", "ServerError">>
      hits == {i \in DOMAIN order : order[i] \in found}
  IN IF hits = {} THEN "Unknown" ELSE order[CHOOSE i \in hits : \A j \in hits : i <= j]

(* The families are looked for one after the other. *)
OfText(found) ==
  LET hits == {i \in DOMAIN Families : Families[i] \in found}
  IN IF hits = {} THEN "Unknown" ELSE Families[CHOOSE i \in hits : \A j \in hits : i <= j]

Kind(failure) ==
  IF failure.status # 0 THEN OfStatus(failure.status) ELSE OfText(failure.found)

IsRetryable(kind) == kind \in {"ServerError", "Timeout", "Unknown"}
CountsAsCircuitFailure(kind) == kind \in {"ServerError", "Timeout", "Unknown", "RateLimit", "Billing"}

-----------------------------------------------------------------------------
Succeeds ==
  /\ stage = "asking"
  /\ stage' = "answered"
  /\ UNCHANGED <<met, recorded>>

(* Mutant: the failure that ends the attempts is recorded with the others. *)
AfterKindTwice(kind) ==
  CASE kind \in {"AuthError", "BadRequest"} -> stage' = "passedOver" /\ UNCHANGED recorded
    [] kind \in {"RateLimit", "Billing"} -> stage' = "passedOver" /\ recorded' = recorded + 1
    [] OTHER -> /\ stage' = IF Len(met) < MostRetries THEN "asking" ELSE "passedOver"
                /\ recorded' = recorded + 1

(* The arms of chat_inner: those of its attempts that are worth another go *)
(* are recorded once, when there is none left.                             *)
AfterKind(kind) ==
  CASE kind \in {"AuthError", "BadRequest"} -> stage' = "passedOver" /\ UNCHANGED recorded
    [] kind \in {"RateLimit", "Billing"} -> stage' = "passedOver" /\ recorded' = recorded + 1
    [] OTHER -> IF Len(met) < MostRetries
                THEN stage' = "asking" /\ UNCHANGED recorded
                ELSE stage' = "passedOver" /\ recorded' = recorded + 1

Fails(failure) ==
  /\ stage = "asking"
  /\ met' = Append(met, failure)
  /\ AfterKind(Kind(failure))

ErrorsNext ==
  \/ Succeeds
  \/ \E s \in Statuses : \E f \in (IF s = 0 THEN SUBSET {Families[i] : i \in DOMAIN Families} ELSE {{}}) :
       Fails([status |-> s, found |-> f])

ErrorsSpec == ErrorsInit /\ [][ErrorsNext]_errorVars

-----------------------------------------------------------------------------
(* chat_inner has arms of its own and does not ask is_retryable and        *)
(* counts_as_circuit_failure; it does what they say: all failures but the  *)
(* last were retryable, a provider is left at once for one that is not,    *)
(* and one failure is recorded for a provider that was left, unless its    *)
(* last failure does not count.                                            *)
ArmsAgreeWithTable ==
  /\ \A i \in 1..Len(met) - 1 : IsRetryable(Kind(met[i]))
  /\ Len(met) <= MostRetries + 1
  /\ met # <<>> /\ stage # "passedOver" => IsRetryable(Kind(met[Len(met)])) /\ recorded = 0
  /\ stage = "passedOver" =>
       recorded = IF CountsAsCircuitFailure(Kind(met[Len(met)])) THEN 1 ELSE 0

(* A request that timed out is sent again, though its text may hold what   *)
(* is also a pattern of a wrong key or a wrong request, as the URL or the  *)
(* model's name may: only signs of a limit or of a bill go before.         *)
TimeoutsAreRetried ==
  \A i \in DOMAIN met :
    met[i].status = 0 /\ "Timeout" \in met[i].found /\ met[i].found \cap {"RateLimit", "Billing"} = {} =>
      \/ i < Len(met)
      \/ stage # "passedOver"
      \/ Len(met) = MostRetries + 1 /\ recorded = 1

(* The kind an error is given decides what the chain does with it, the same*)
(* way as the table of its documentation.                                  *)
ErrorsAreSorted ==
  ArmsAgreeWithTable /\ TimeoutsAreRetried
=============================================================================
