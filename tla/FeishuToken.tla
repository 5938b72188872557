----------------------------- MODULE FeishuToken -----------------------------
(***************************************************************************)
(* The access token of the Feishu channel (crates/adaclaw-channels/src/    *)
(* feishu.rs): send takes it from a cache, or asks for one when the cached *)
(* one has no more than Slack left, and then posts the message with it.    *)
(* The outbound loop makes one send at a time.                             *)
(*                                                                         *)
(* Outside src/: the platform, which issues a token that lives for Life    *)
(* from then on and answers 401 when it sees one that is dead.             *)
(***************************************************************************)
EXTENDS Naturals

CONSTANTS
  Life,          \* seconds a token lives, 7200
  Slack,         \* seconds before its end a token is renewed, 60
  Timeout,       \* seconds a request may take, 15
  MaxClock       \* bound: seconds

ASSUME FeishuAssumption ==
  /\ Life \in Nat /\ Slack \in Nat /\ Timeout \in Nat /\ MaxClock \in Nat
  /\ 2 * Timeout <= Slack /\ 2 * Timeout < Life

VARIABLES
  clock,
  cached,        \* token_cache: expires_at, and when the token really ends
  sendStep,      \* "idle", "asking", "issued" or "posting"
  token,         \* the end of the token in hand
  sentAt,        \* when the open request was made
  refused        \* history: a post came with a dead token

feishuVars == <<clock, cached, sendStep, token, sentAt, refused>>

FeishuInit ==
  /\ clock = 0 /\ cached = [expires |-> 0, ends |-> 0]
  /\ sendStep = "idle" /\ token = 0 /\ sentAt = 0 /\ refused = FALSE

(* An open request is answered, or fails, within Timeout. *)
Second ==
  /\ clock < MaxClock
  /\ sendStep # "idle" => clock < sentAt + Timeout
  /\ clock' = clock + 1
  /\ UNCHANGED <<cached, sendStep, token, sentAt, refused>>

(* Mutant: a token is used to the last second. *)
FreshToTheEnd == cached.expires > clock

Fresh == cached.expires > clock + Slack

(* get_access_token looks at the cache under the lock, and lets go of it. *)
BeginSend ==
  /\ sendStep = "idle"
  /\ sentAt' = clock
  /\ \/ Fresh /\ sendStep' = "posting" /\ token' = cached.ends
     \/ ~Fresh /\ sendStep' = "asking" /\ UNCHANGED token
  /\ UNCHANGED <<clock, cached, refused>>

(* The platform: issues a token; the answer is still on its way. *)
Issue ==
  /\ sendStep = "asking"
  /\ token' = clock + Life /\ sendStep' = "issued"
  /\ UNCHANGED <<clock, cached, sentAt, refused>>

(* Mutant: the slack is added to the end. *)
RefreshedLate ==
  /\ sendStep = "issued"
  /\ cached' = [expires |-> clock + Life + Slack, ends |-> token]
  /\ sendStep' = "posting" /\ sentAt' = clock
  /\ UNCHANGED <<clock, token, refused>>

(* The end of the token is reckoned from when the answer came. *)
Refreshed ==
  /\ sendStep = "issued"
  /\ cached' = [expires |-> clock + Life, ends |-> token]
  /\ sendStep' = "posting" /\ sentAt' = clock
  /\ UNCHANGED <<clock, token, refused>>

(* The platform: gets the message. *)
Posted ==
  /\ sendStep = "posting"
  /\ refused' = (refused \/ token <= clock)
  /\ sendStep' = "idle"
  /\ UNCHANGED <<clock, cached, token, sentAt>>

(* A request that fails or runs into its timeout loses the message. *)
SendFails ==
  /\ sendStep # "idle"
  /\ sendStep' = "idle"
  /\ UNCHANGED <<clock, cached, token, sentAt, refused>>

FeishuNext == Second \/ BeginSend \/ Issue \/ Refreshed \/ Posted \/ SendFails

FeishuSpec == FeishuInit /\ [][FeishuNext]_feishuVars

-----------------------------------------------------------------------------
FeishuTypeOK ==
  /\ clock \in 0..MaxClock /\ sentAt \in 0..clock
  /\ cached.expires \in 0 .. MaxClock + Life /\ cached.ends \in 0..cached.expires
  /\ cached.expires <= cached.ends + Timeout
  /\ token \in 0 .. MaxClock + Life
  /\ sendStep \in {"idle", "asking", "issued", "posting"} /\ refused \in BOOLEAN

(* No message is refused for its token: the answer that brought the token  *)
(* and the request that uses it may both be as slow as they can.           *)
TokenIsAlive == ~refused

(* A Feishu message is posted with a token that is alive, however slow the *)
(* requests are.                                                           *)
TokensAreAlive ==
  FeishuTypeOK /\ TokenIsAlive
=============================================================================
