------------------------------- MODULE Startup -------------------------------
(***************************************************************************)
(* From config.toml to a daemon that takes messages: Config::load with     *)
(* what the environment adds, the checks of config/validation.rs (which    *)
(* `adaclaw config check` runs, and the daemon does not), start_daemon,    *)
(* and whom the router and the registry then give a message to.  A piece   *)
(* that cannot be had is left out with a warning.                          *)
(***************************************************************************)
EXTENDS Naturals, Sequences, FiniteSets

CONSTANTS
  Configs,          \* what config.toml says
  Environments,     \* the environment variables that are set
  KnownProviders,   \* build_registry
  NativeTools,      \* all_tools, a sequence
  ServerTools,      \* what each MCP server offers, a sequence
  SampleMessages    \* [channel, sender, name]

(* A configuration is [providers, agents, routing, channels, servers,      *)
(* backend, embedding]: who has set the key of a provider ("file" or       *)
(* "env"); agents [provider, sound, tools, allow]; rules [by, of, agent],  *)
(* of being what their pattern fits; channel sections [kind, token,        *)
(* extras]; embedding "none", or "openai" with or without a key of its own.*)

(* No server is called "native", which stands for the tools of the daemon. *)
ASSUME StartupAssumption ==
  /\ NativeTools \in Seq(STRING)
  /\ \A c \in Configs :
       /\ c = [providers |-> c.providers, agents |-> c.agents, routing |-> c.routing, channels |-> c.channels,
               servers |-> c.servers, backend |-> c.backend, embedding |-> c.embedding]
       /\ IsFiniteSet(DOMAIN c.agents) /\ c.agents = [a \in DOMAIN c.agents |-> c.agents[a]]
       /\ DOMAIN c.routing \subseteq Nat /\ c.routing = [i \in DOMAIN c.routing |-> c.routing[i]]
       /\ \A n \in DOMAIN c.channels :
            c.channels[n] = [kind |-> c.channels[n].kind, token |-> c.channels[n].token, extras |-> c.channels[n].extras]
       /\ \A s \in c.servers : s \in STRING \ {"native"} /\ ServerTools[s] \in Seq(STRING)

VARIABLES
  phase, fileIs, environment,
  config,
  memory, store,    \* the backends that were opened
  providers, spare, \* and the provider that comes first
  left,             \* what the loop of this phase has not come to
  mcpTools,         \* [server, tool], in the order they were loaded
  registry,         \* agents and their providers
  channels,         \* the names that are served
  broken            \* history: what could not be had, for no fault of the configuration

startupVars == <<phase, fileIs, environment, config, memory, store, providers, spare, left, mcpTools, registry, channels, broken>>

NoConfig == [providers |-> <<>>, agents |-> <<>>, routing |-> <<>>, channels |-> <<>>,
             servers |-> {}, backend |-> "sqlite", embedding |-> "none"]
DefaultAgent == [provider |-> "openai", sound |-> TRUE, tools |-> {}, allow |-> {}]

StartupInit ==
  /\ phase = "off" /\ fileIs = "none" /\ environment = {} /\ config = NoConfig
  /\ memory = "none" /\ store = "none" /\ providers = {} /\ spare = "none"
  /\ left = {} /\ mcpTools = <<>> /\ registry = <<>> /\ channels = {} /\ broken = {}

-----------------------------------------------------------------------------
(* The variables that bring a provider with them. *)
ProviderOf(v) ==
  CASE v \in {"OPENAI_API_KEY", "ADACLAW_OPENAI_API_KEY"} -> {"openai"}
    [] v = "ADACLAW_OLLAMA_URL" -> {"ollama"}
    [] OTHER -> {}

WithProviders(named, e) ==
  LET byEnv == UNION {ProviderOf(v) : v \in e}
  IN [p \in DOMAIN named \cup byEnv |-> IF p \in byEnv THEN "env" ELSE named[p]]

(* The token goes to the section that is called telegram, whatever it is. *)
WithToken(sections, e) ==
  LET telegram == IF "telegram" \in DOMAIN sections THEN sections["telegram"]
                  ELSE [kind |-> "telegram", token |-> FALSE, extras |-> FALSE]
  IN IF "ADACLAW_TELEGRAM_TOKEN" \notin e THEN sections
     ELSE [n \in DOMAIN sections \cup {"telegram"} |->
             IF n = "telegram" THEN [telegram EXCEPT !.token = TRUE] ELSE sections[n]]

(* apply_env_overrides *)
ApplyEnv(c, e) == [c EXCEPT !.providers = WithProviders(@, e), !.channels = WithToken(@, e)]

(* Mutant: what is fallen back to stays without the environment. *)
LoadBare(c, f, e) == IF f \in {"current", "unversioned"} THEN ApplyEnv(c, e) ELSE NoConfig

(* Config::load.  migrate stamps a file without version, and refuses a      *)
(* newer one; any error leaves the defaults.                               *)
Load(c, f, e) == ApplyEnv(IF f \in {"current", "unversioned"} THEN c ELSE NoConfig, e)

-----------------------------------------------------------------------------
(* validate: what is wrong, by section. *)

(* Mutant: the provider is not looked up. *)
AgentErrorsFewer(c) ==
  IF c.agents = <<>> THEN {<<"agents", "none">>}
  ELSE {<<a, "field">> : a \in {x \in DOMAIN c.agents : ~c.agents[x].sound}}
       \cup {<<a, "allow">> : a \in {x \in DOMAIN c.agents : ~c.agents[x].allow \subseteq DOMAIN c.agents}}

AgentErrors(c) ==
  IF c.agents = <<>> THEN {<<"agents", "none">>}
  ELSE {<<a, "field">> : a \in {x \in DOMAIN c.agents : ~c.agents[x].sound}}
       \cup {<<a, "allow">> : a \in {x \in DOMAIN c.agents : ~c.agents[x].allow \subseteq DOMAIN c.agents}}
       \cup {<<a, "provider">> : a \in {x \in DOMAIN c.agents :
               c.providers # <<>> /\ c.agents[x].provider \notin DOMAIN c.providers}}

RoutingErrors(c) ==
  LET rules == DOMAIN c.routing
  IN {<<"routing", "agent">> : i \in {r \in rules : c.agents # <<>> /\ c.routing[r].agent \notin DOMAIN c.agents}}
     \cup {<<"routing", "default">> : i \in {r \in rules :
            Cardinality(DOMAIN c.agents) > 1 /\ \A q \in rules : c.routing[q].by # "default"}}

ValidKinds == {"telegram", "cli", "discord", "slack", "dingtalk", "feishu", "wechat_work", "webhook",
               "whatsapp", "email", "matrix"}

HasWhatItNeeds(section, e) ==
  CASE section.kind = "telegram" -> section.token \/ "ADACLAW_TELEGRAM_TOKEN" \in e
    [] section.kind \in {"discord", "slack", "whatsapp"} -> section.token
    [] section.kind = "feishu" -> section.extras
    [] section.kind = "wechat_work" -> section.token /\ section.extras
    [] OTHER -> TRUE

ChannelErrors(c, e) ==
  {<<n, "section">> : n \in {x \in DOMAIN c.channels :
     c.channels[x].kind \notin ValidKinds \/ ~HasWhatItNeeds(c.channels[x], e)}}

OpenAiKeys == {"OPENAI_API_KEY", "OPENAI_API_KEY, empty", "ADACLAW_OPENAI_API_KEY"}

MemoryErrors(c, e) ==
  {<<"memory", "backend">> : x \in {c.backend} \ {"sqlite", "markdown", "none"}}
    \cup {<<"memory", "key">> : x \in {k \in {c.embedding} : k = "openai without key" /\ e \cap OpenAiKeys = {}}}

Validate(c, e) == AgentErrors(c) \cup RoutingErrors(c) \cup ChannelErrors(c, e) \cup MemoryErrors(c, e)

-----------------------------------------------------------------------------
LoadConfig(c, f, e) ==
  /\ phase = "off" /\ phase' = "memory"
  /\ fileIs' = f /\ environment' = e /\ config' = Load(c, f, e)
  /\ UNCHANGED <<memory, store, providers, spare, left, mcpTools, registry, channels, broken>>

(* create_embedding_provider asks for one of the two variables only, in a  *)
(* build that has the feature.                                             *)
EmbedderIsHad ==
  config.embedding = "openai without key" => environment \cap {"OPENAI_API_KEY", "OPENAI_API_KEY, empty"} # {}

OpenMemory(ok) ==
  /\ phase = "memory" /\ phase' = "providers"
  /\ memory' = IF /\ config.backend \in {"sqlite", "markdown"} /\ ok
                  /\ config.backend = "sqlite" => EmbedderIsHad
               THEN config.backend ELSE "none"
  /\ broken' = IF ok THEN broken ELSE broken \cup {<<"memory">>}
  /\ UNCHANGED <<fileIs, environment, config, store, providers, spare, left, mcpTools, registry, channels>>

(* Names that create_provider does not know are left out.  Only a variable *)
(* that is set and empty is left for the second look.                      *)
CreateProviders ==
  LET known == DOMAIN config.providers \cap KnownProviders
  IN /\ phase = "providers" /\ phase' = "servers"
     /\ providers' = IF known = {} /\ environment \cap OpenAiKeys # {} THEN {"openai"} ELSE known
     /\ spare' \in IF providers' = {} THEN {"none"} ELSE providers'
     /\ left' = config.servers
     /\ UNCHANGED <<fileIs, environment, config, memory, store, mcpTools, registry, channels, broken>>

(* load_all_clonable, in the order of the map. *)
LoadServer(s, ok) ==
  /\ phase = "servers" /\ s \in left /\ left' = left \ {s}
  /\ IF ok THEN mcpTools' = mcpTools \o [i \in DOMAIN ServerTools[s] |-> [server |-> s, tool |-> ServerTools[s][i]]]
           ELSE UNCHANGED mcpTools
  /\ broken' = IF ok THEN broken ELSE broken \cup {<<"server", s>>}
  /\ UNCHANGED <<phase, fileIs, environment, config, memory, store, providers, spare, registry, channels>>

(* A file that cannot be opened: the history is kept in memory. *)
OpenStore(ok) ==
  /\ phase = "servers" /\ left = {} /\ phase' = "agents"
  /\ store' = IF ok THEN "file" ELSE "in memory"
  /\ broken' = IF ok THEN broken ELSE broken \cup {<<"store">>}
  /\ left' = DOMAIN config.agents \cup {"assistant"}
  /\ UNCHANGED <<fileIs, environment, config, memory, providers, spare, mcpTools, registry, channels>>

AgentConfig(a) == IF a \in DOMAIN config.agents THEN config.agents[a] ELSE DefaultAgent

Registered(a, provider) == [x \in DOMAIN registry \cup {a} |-> IF x = a THEN provider ELSE registry[x]]

(* Mutant: the first agent that cannot be made ends the loop. *)
NoneAfterFailure(a) == {}

(* A failed agent is passed over. *)
LeftAfter(a) == left \ {a}

(* An agent without its provider takes the first there is.  A workspace    *)
(* that cannot be made leaves the agent out.                               *)
BuildAgent(a, ok) ==
  LET own == AgentConfig(a).provider
  IN /\ phase = "agents" /\ a \in left
     /\ left' = IF ok THEN left \ {a} ELSE LeftAfter(a)
     /\ IF ok /\ providers # {}
        THEN registry' = Registered(a, IF own \in providers THEN own ELSE spare)
        ELSE UNCHANGED registry
     /\ broken' = IF ok THEN broken ELSE broken \cup {<<"agent", a>>}
     /\ UNCHANGED <<phase, fileIs, environment, config, memory, store, providers, spare, mcpTools, channels>>

(* With no agent at all, one more try. *)
BuildFallback(ok) ==
  /\ phase = "agents" /\ left = {} /\ phase' = "channels"
  /\ IF registry = <<>> /\ providers # {} /\ ok
     THEN registry' = Registered("assistant", spare) ELSE UNCHANGED registry
  /\ left' = DOMAIN config.channels
  /\ UNCHANGED <<fileIs, environment, config, memory, store, providers, spare, mcpTools, channels, broken>>

TokenKinds == {"telegram", "discord", "slack", "whatsapp"}
OtherKinds == {"cli", "", "dingtalk", "feishu", "wechat_work", "wecom", "webhook"}

(* ChannelManager knows a channel by the name of its kind. *)
NameOf(kind) ==
  CASE kind = "" -> "cli"
    [] kind = "wecom" -> "wechat_work"
    [] OTHER -> kind

CanServe(section) == section.kind \in OtherKinds \/ (section.kind \in TokenKinds /\ section.token)

RegisterChannel(n) ==
  /\ phase = "channels" /\ n \in left /\ left' = left \ {n}
  /\ channels' = IF CanServe(config.channels[n]) THEN channels \cup {NameOf(config.channels[n].kind)} ELSE channels
  /\ UNCHANGED <<phase, fileIs, environment, config, memory, store, providers, spare, mcpTools, registry, broken>>

GoUp ==
  /\ phase = "channels" /\ left = {} /\ phase' = "up"
  /\ UNCHANGED <<fileIs, environment, config, memory, store, providers, spare, left, mcpTools, registry, channels, broken>>

StartupNext ==
  \/ \E c \in Configs, f \in {"current", "unversioned", "newer", "malformed", "missing"}, e \in Environments : LoadConfig(c, f, e)
  \/ CreateProviders \/ GoUp
  \/ \E ok \in BOOLEAN : OpenMemory(ok) \/ OpenStore(ok) \/ BuildFallback(ok)
  \/ \E s \in config.servers, ok \in BOOLEAN : LoadServer(s, ok)
  \/ \E a \in left, ok \in BOOLEAN : BuildAgent(a, ok)
  \/ \E n \in left : RegisterChannel(n)

StartupSpec == StartupInit /\ [][StartupNext]_startupVars

-----------------------------------------------------------------------------
(* AgentRouter::route: a rule with a pattern for the channel is not asked  *)
(* for its other fields.                                                   *)
Fits(rule, m) ==
  CASE rule.by = "channel" -> m.channel \in rule.of
    [] rule.by = "sender" -> m.sender \in rule.of
    [] rule.by = "name" -> m.name \in rule.of
    [] rule.by = "default" -> TRUE
    [] OTHER -> FALSE

Matches(m) == {i \in DOMAIN config.routing : Fits(config.routing[i], m)}

Route(m) ==
  IF Matches(m) = {} THEN "assistant"
  ELSE config.routing[CHOOSE i \in Matches(m) : \A j \in Matches(m) : i <= j].agent

(* AgentRegistry::get_default *)
Default == IF "assistant" \in DOMAIN registry THEN {"assistant"} ELSE DOMAIN registry

(* The agents that may be given a message. *)
Serves(m) == IF Route(m) \in DOMAIN registry THEN {Route(m)} ELSE Default

NativeNames == {NativeTools[i] : i \in DOMAIN NativeTools}

Allowed(a) == IF AgentConfig(a).tools = {} THEN NativeNames ELSE AgentConfig(a).tools

(* build_tools, which keeps the order of all_tools. *)
KeptTools(names) ==
  LET upTo[i \in 0..Len(NativeTools)] ==
        IF i = 0 THEN <<>>
        ELSE IF NativeTools[i] \in names
        THEN Append(upTo[i - 1], [server |-> "native", tool |-> NativeTools[i]])
        ELSE upTo[i - 1]
  IN upTo

OwnTools(a) == KeptTools(Allowed(a))[Len(NativeTools)]

Delegating(a) == IF AgentConfig(a).allow = {} THEN <<>> ELSE <<[server |-> "native", tool |-> "delegate"]>>

(* Mutant: the tools of the servers come first. *)
ToolsMcpFirst(a) == mcpTools \o OwnTools(a) \o Delegating(a)

(* The tools of a turn; a call goes to the first of its name. *)
Tools(a) == OwnTools(a) \o mcpTools \o Delegating(a)

ToolCalled(a, name) ==
  LET named == {i \in DOMAIN Tools(a) : Tools(a)[i].tool = name}
  IN Tools(a)[CHOOSE i \in named : \A j \in named : i <= j].server

-----------------------------------------------------------------------------
(* Each thing that fails is missed alone: every agent, server and channel  *)
(* that could be had is there, and as long as there is an agent, nobody is *)
(* left without one.                                                       *)
OneFailureStopsOne ==
  phase = "up" =>
    LET wanted == DOMAIN config.agents \cup {"assistant"}
    IN /\ providers # {} => {a \in wanted : <<"agent", a>> \notin broken} \subseteq DOMAIN registry
       /\ \A s \in config.servers : <<"server", s>> \notin broken =>
            {ServerTools[s][i] : i \in DOMAIN ServerTools[s]} \subseteq {mcpTools[i].tool : i \in {j \in DOMAIN mcpTools : mcpTools[j].server = s}}
       /\ channels = {NameOf(config.channels[n].kind) : n \in {x \in DOMAIN config.channels : CanServe(config.channels[x])}}
       /\ \A m \in SampleMessages : registry # <<>> => Serves(m) # {}

(* What an operator has put into the environment holds, whatever becomes   *)
(* of the file (config/schema.rs: "Env vars override the config file").    *)
EnvironmentWins ==
  phase # "off" =>
    /\ \A v \in environment : \A p \in ProviderOf(v) : p \in DOMAIN config.providers /\ config.providers[p] = "env"
    /\ "ADACLAW_TELEGRAM_TOKEN" \in environment => "telegram" \in DOMAIN config.channels /\ config.channels["telegram"].token

NothingIsWrong ==
  /\ fileIs = "current" /\ broken = {} /\ Validate(config, environment) = {}
  /\ config.providers # <<>> /\ DOMAIN config.providers \subseteq KnownProviders

(* A configuration the checker finds nothing wrong with is what then runs, *)
(* if nothing else fails and its providers are known ones: each message    *)
(* goes to the agent of its rule, each agent has its own provider, and may *)
(* delegate to whom it says, and memory and channels are there.  Three     *)
(* things the checker does not see: the two kinds the daemon cannot start, *)
(* a token that goes to another section, and a key only the checker reads. *)
CheckedIsServed ==
  phase = "up" /\ NothingIsWrong =>
    /\ \A m \in SampleMessages : Matches(m) # {} => Serves(m) = {Route(m)}
    /\ \A m \in SampleMessages : Matches(m) = {} => config.routing = <<>> \/ Cardinality(DOMAIN config.agents) = 1
    /\ \A a \in DOMAIN config.agents : registry[a] = config.agents[a].provider
    /\ \A a \in DOMAIN config.agents : config.agents[a].allow \subseteq DOMAIN registry
    /\ EmbedderIsHad => memory = config.backend
    /\ \A n \in DOMAIN config.channels :
         LET s == config.channels[n]
         IN s.kind \notin {"email", "matrix"} /\ (s.kind = "telegram" => s.token) => NameOf(s.kind) \in channels

(* What an agent is allowed of the native tools is what its calls reach:   *)
(* a server's tool of the same name never stands in for one it has, nor    *)
(* one it was denied for a server's.                                       *)
OwnToolsAreReached ==
  phase = "up" =>
    \A a \in DOMAIN registry :
      \A i \in DOMAIN Tools(a) :
        LET t == Tools(a)[i].tool
        IN ToolCalled(a, t) = "native" <=>
             \/ t \in NativeNames \cap Allowed(a)
             \/ t = "delegate" /\ AgentConfig(a).allow # {} /\ \A j \in DOMAIN mcpTools : mcpTools[j].tool # t

(* What was configured and can be had is what serves: no failure takes more*)
(* with it than its own part.                                              *)
ConfiguredIsServed ==
  /\ OneFailureStopsOne
  /\ EnvironmentWins
  /\ CheckedIsServed
  /\ OwnToolsAreReached
=============================================================================
