------------------------------ MODULE Webhooks -------------------------------
(***************************************************************************)
(* The channels that platforms push to (slack.rs, webhook.rs, dingtalk.rs, *)
(* feishu.rs, wechat_work.rs and whatsapp.rs of crates/adaclaw-channels),  *)
(* their registration by the daemon (daemon/run.rs) and their start and    *)
(* stop by the channel manager (manager.rs): an HTTP server for each, and  *)
(* a request handler for every post.                                       *)
(*                                                                         *)
(* Outside src/: the platforms, which deliver a post again as long as it   *)
(* was not acknowledged with 200 in time, also while an earlier delivery   *)
(* is being handled, and may hang up, whereupon the HTTP server drops the  *)
(* handler where it waits.                                                 *)
(***************************************************************************)
EXTENDS Naturals, Sequences, FiniteSets

CONSTANTS
  Configurations, \* sets of sections: name, kind and port
  Arriving,       \* what platforms may post, see Post
  Friends,        \* senders that the allow_from lists match
  Secrets,        \* kinds with a secret in their section; the others trust every post
  MaxDeliveries   \* bound: deliveries

ChannelKinds == {"slack", "webhook", "dingtalk", "feishu", "wechat_work", "whatsapp"}
Item == [id : STRING, from : STRING, form : {"text", "blank", "image", "sticker"}]
Post == [kind : ChannelKinds, signed : BOOLEAN, fresh : BOOLEAN, parses : BOOLEAN,
         event : {"message", "challenge", "other"}, items : Seq(Item)]

ASSUME WebhookAssumption == Arriving \subseteq Post /\ MaxDeliveries \in Nat

VARIABLES
  configured,   \* the sections of the configuration
  pending,      \* configured channels that are not registered yet
  registry,     \* ChannelManager::channels: kind -> the configured channel, or {}
  server,       \* what has become of the start of a configured channel
  flagged,      \* BaseChannel::running
  requests,     \* requests being handled: post, delivery and the items left, by place
  spawned,      \* wechat_work: items in a task of their own, see WecomTasks
  posting,      \* the platform that posts: the channels share no more than the bus
  deliveries,   \* the posts delivered so far, in order
  acknowledged, \* posts answered with 200
  passed        \* history: what was put on the bus, <<post, delivery, place of the item>> in order

webhookVars == <<configured, pending, registry, server, flagged, requests, spawned, posting, deliveries,
                 acknowledged, passed>>

Sections == UNION Configurations
Kinds == {c.kind : c \in Sections}

WebhookInit ==
  /\ configured \in Configurations /\ pending = configured
  /\ registry = [k \in Kinds |-> {}]
  /\ server = [c \in Sections |-> "off"] /\ flagged = [c \in Sections |-> FALSE]
  /\ requests = {} /\ spawned = {} /\ acknowledged = {}
  /\ posting \in {c.kind : c \in configured}
  /\ deliveries = <<>>
  /\ passed = <<>>

-----------------------------------------------------------------------------
(* Registration, start and stop. *)

(* Mutant: the sections of a kind are all kept. *)
RegisterAll ==
  /\ \E c \in pending : /\ pending' = pending \ {c}
                        /\ registry' = [registry EXCEPT ![c.kind] = @ \cup {c}]
  /\ UNCHANGED <<configured, posting, server, flagged, requests, spawned, deliveries, acknowledged, passed>>

(* The daemon goes through a hash map of channels; the manager keeps them  *)
(* by the name their kind has, so the last of a kind is the one.           *)
Register ==
  /\ \E c \in pending : /\ pending' = pending \ {c}
                        /\ registry' = [registry EXCEPT ![c.kind] = {c}]
  /\ UNCHANGED <<configured, posting, server, flagged, requests, spawned, deliveries, acknowledged, passed>>

Registered == UNION {registry[k] : k \in Kinds}

(* start_all spawns the start of each: the flag is set before the bind. *)
StartAll ==
  /\ pending = {} /\ \A c \in configured : server[c] = "off"
  /\ server' = [c \in Sections |-> IF c \in Registered THEN "binding" ELSE "off"]
  /\ flagged' = [c \in Sections |-> c \in Registered]
  /\ UNCHANGED <<configured, posting, pending, registry, requests, spawned, deliveries, acknowledged, passed>>

(* Mutant: the second listener takes the port too. *)
BindShared(c) ==
  /\ server[c] = "binding"
  /\ server' = [server EXCEPT ![c] = "serving"]
  /\ UNCHANGED <<configured, posting, pending, registry, flagged, requests, spawned, deliveries, acknowledged, passed>>

(* A port that is taken makes start return; the flag stays. *)
Bind(c) ==
  /\ server[c] = "binding"
  /\ server' = [server EXCEPT ![c] =
       IF \E d \in configured : d.port = c.port /\ server[d] = "serving" THEN "failed"
                                                                          ELSE "serving"]
  /\ UNCHANGED <<configured, posting, pending, registry, flagged, requests, spawned, deliveries, acknowledged, passed>>

(* stop_all, when every start has come as far as it can. *)
StopAll ==
  /\ \E c \in configured : flagged[c]
  /\ \A c \in configured : server[c] # "binding"
  /\ flagged' = [c \in Sections |-> FALSE]
  /\ server' = [c \in Sections |-> IF server[c] = "serving" THEN "draining" ELSE server[c]]
  /\ UNCHANGED <<configured, posting, pending, registry, requests, spawned, deliveries, acknowledged, passed>>

(* Graceful: the server ends when the open requests have been answered. *)
Drained(c) ==
  /\ server[c] = "draining" /\ \A r \in requests : r.post.kind # c.kind
  /\ server' = [server EXCEPT ![c] = "ended"]
  /\ UNCHANGED <<configured, posting, pending, registry, flagged, requests, spawned, deliveries, acknowledged, passed>>

-----------------------------------------------------------------------------
(* The handlers. *)

(* Mutant: the secret is there, and nobody compares. *)
SignedOrNot(p) == TRUE

Signed(p) == p.kind \in Secrets => p.signed

Answer(status, items) == [status |-> status, items |-> items]
ItemsOf(p, forms) == {i \in DOMAIN p.items : p.items[i].form \in forms}

(* Bots and edits are events of another kind; a signature lasts 5 minutes. *)
SlackAnswer(p) ==
  IF ~Signed(p) \/ (p.kind \in Secrets /\ ~p.fresh) THEN Answer("forbidden", {})
  ELSE IF ~p.parses THEN Answer("bad request", {})
  ELSE IF p.event # "message" THEN Answer("ok", {})
  ELSE Answer("ok", ItemsOf(p, {"text"}))

WebhookAnswer(p) ==
  IF ~Signed(p) THEN Answer("forbidden", {})
  ELSE IF ~p.parses \/ ItemsOf(p, {"text"}) = {} THEN Answer("bad request", {})
  ELSE Answer("ok", ItemsOf(p, {"text"}))

(* The extractor of the body runs before the handler. *)
DingtalkAnswer(p) ==
  IF ~p.parses THEN Answer("bad request", {})
  ELSE IF ~Signed(p) THEN Answer("forbidden", {})
  ELSE Answer("ok", ItemsOf(p, {"text"}))

(* A challenge is answered whoever sent it; what is not a text is passed   *)
(* on as a word that stands for it.                                        *)
FeishuAnswer(p) ==
  IF ~p.parses THEN Answer("bad request", {})
  ELSE IF p.event = "challenge" THEN Answer("ok", {})
  ELSE IF ~Signed(p) THEN Answer("forbidden", {})
  ELSE IF p.event # "message" THEN Answer("ok", {})
  ELSE Answer("ok", ItemsOf(p, {"text", "image", "sticker"}))

(* The signature is over the encrypted part, which is taken out first.     *)
(* There is always a secret, and what is in the message is looked at later. *)
WecomAnswer(p) ==
  IF ~p.parses THEN Answer("bad request", {})
  ELSE IF ~p.signed THEN Answer("forbidden", {})
  ELSE Answer("ok", DOMAIN p.items)

(* Several messages in one post. *)
WhatsappAnswer(p) ==
  IF ~Signed(p) THEN Answer("forbidden", {})
  ELSE IF ~p.parses THEN Answer("bad request", {})
  ELSE IF p.event # "message" THEN Answer("ok", {})
  ELSE Answer("ok", ItemsOf(p, {"text", "image"}))

AnswerTo(p) ==
  CASE p.kind = "slack" -> SlackAnswer(p)
    [] p.kind = "webhook" -> WebhookAnswer(p)
    [] p.kind = "dingtalk" -> DingtalkAnswer(p)
    [] p.kind = "feishu" -> FeishuAnswer(p)
    [] p.kind = "wechat_work" -> WecomAnswer(p)
    [] p.kind = "whatsapp" -> WhatsappAnswer(p)

Deliver(p) ==
  /\ p.kind = posting /\ p \notin acknowledged
  /\ Len(deliveries) < MaxDeliveries
  /\ \E c \in configured : c.kind = p.kind /\ server[c] = "serving"
  /\ deliveries' = Append(deliveries, p)
  /\ requests' = requests \cup {[post |-> p, number |-> Len(deliveries'), left |-> AnswerTo(p).items]}
  /\ UNCHANGED <<configured, posting, pending, registry, server, flagged, spawned, acknowledged,
                 passed>>

(* handle_message: refused senders and a full bus leave no trace. *)
HandMessage(r, i) ==
  \/ /\ r.post.items[i].from \in Friends
     /\ passed' = Append(passed, <<r.post, r.number, i>>)
  \/ UNCHANGED passed

IsFirst(i, places) == \A j \in places : i <= j

HandleItem(r) ==
  /\ r.post.kind # "wechat_work"
  /\ \E i \in r.left :
       /\ IsFirst(i, r.left) /\ HandMessage(r, i)
       /\ requests' = (requests \ {r}) \cup {[r EXCEPT !.left = @ \ {i}]}
  /\ UNCHANGED <<configured, posting, pending, registry, server, flagged, spawned, deliveries, acknowledged>>

(* wechat_work answers at once and works in a task of its own. *)
SpawnItem(r) ==
  /\ r.post.kind = "wechat_work"
  /\ \E i \in r.left : IsFirst(i, r.left) /\ spawned' = spawned \cup {<<r.post, r.number, i>>}
  /\ requests' = (requests \ {r}) \cup {[r EXCEPT !.left = {}]}
  /\ UNCHANGED <<configured, posting, pending, registry, server, flagged, deliveries, acknowledged, passed>>

Respond(r) ==
  /\ r.left = {}
  /\ requests' = requests \ {r}
  /\ acknowledged' = IF AnswerTo(r.post).status = "ok" THEN acknowledged \cup {r.post} ELSE acknowledged
  /\ UNCHANGED <<configured, posting, pending, registry, server, flagged, spawned, deliveries,
                 passed>>

HangUp(r) ==
  /\ requests' = requests \ {r}
  /\ UNCHANGED <<configured, posting, pending, registry, server, flagged, spawned, deliveries, acknowledged, passed>>

-----------------------------------------------------------------------------
WebhookNext ==
  \/ Register \/ StartAll \/ StopAll
  \/ \E c \in configured : Bind(c) \/ Drained(c)
  \/ \E p \in Arriving : Deliver(p)
  \/ \E r \in requests : HandleItem(r) \/ SpawnItem(r) \/ Respond(r) \/ HangUp(r)

WebhookSpec == WebhookInit /\ [][WebhookNext]_webhookVars

-----------------------------------------------------------------------------
WebhookTypeOK ==
  /\ configured \in Configurations /\ pending \subseteq configured
  /\ \A k \in Kinds : \A c \in registry[k] : c \in configured /\ c.kind = k
  /\ server \in [Sections -> {"off", "binding", "serving", "draining", "failed", "ended"}]
  /\ flagged \in [Sections -> BOOLEAN]
  /\ \A r \in requests : r.post \in Arriving /\ r.number \in 1..MaxDeliveries
  /\ \A c, d \in configured : c # d /\ c.port = d.port =>
       ~(server[c] = "serving" /\ server[d] = "serving")
  /\ \A t \in spawned : t[1].kind = "wechat_work"
  /\ acknowledged \subseteq Arriving

(* What reaches the bus came in a post that was signed, if its kind has a  *)
(* secret, and is not empty; each delivery hands an item over at most      *)
(* once, in the order of the post: an item the bus sees twice was          *)
(* delivered twice.                                                        *)
GenuineOncePerDelivery ==
  /\ \A i \in DOMAIN passed : LET p == passed[i][1] IN
       /\ p.parses /\ (p.kind \in Secrets => p.signed)
       /\ passed[i][3] \in DOMAIN p.items /\ p.items[passed[i][3]].form # "blank"
  /\ \A i, j \in DOMAIN passed :
       i < j /\ passed[i][2] = passed[j][2] => passed[i][1] = passed[j][1] /\ passed[i][3] < passed[j][3]

(* Of several sections of one kind exactly one is started, and every kind  *)
(* that is configured has one, whatever the order of registration.         *)
OneOfAKind ==
  pending = {} => \A k \in {c.kind : c \in configured} :
    /\ Cardinality(registry[k]) = 1
    /\ \A c \in configured : c.kind = k /\ server[c] # "off" => c \in registry[k]
=============================================================================
