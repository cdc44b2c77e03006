---------------------------- MODULE ModelConfig ----------------------------
(***************************************************************************)
(* Which language model an agent works with: the layers of --model and     *)
(* --base-url (options.ts, per-subtask-env.ts) and their resolution        *)
(* against the providers and the keys of the host (llm-config.ts).         *)
(*                                                                         *)
(* The value of such a setting is a sequence of parts, each for one agent  *)
(* or, with agent "", for all of them. A model is written provider/id.     *)
(***************************************************************************)
EXTENDS PhaseSchema

CONSTANT HostEnv  \* the environment of the host

SupportedAgentNames == {"coder", "discovery", "reviewer", "vague-specs-check",
    "pr-summarizer", "tests-catalog", "tests-writer"}

\* In the order of discovery. A native provider needs no URL, ollama no key.
Providers == <<
    [id |-> "anthropic", key |-> "ANTHROPIC_API_KEY", url |-> "", model |-> "sonnet"],
    [id |-> "openai", key |-> "OPENAI_API_KEY", url |-> "", model |-> "gpt"],
    [id |-> "openrouter", key |-> "OPENROUTER_API_KEY", url |-> "openrouter.ai", model |-> "any"],
    [id |-> "ollama", key |-> "", url |-> "localhost", model |-> "llama"]>>

Model(provider, id) == [provider |-> provider, id |-> id]

NoModel == Model("ollama", "none")

NoKey == "sk-none"

Lookup(provider) == {p \in Range(Providers) : p.id = provider}

\* A name without a provider is one of openai's.
ParseModelString(raw) == IF raw.provider = "" THEN Model("openai", raw.id) ELSE raw

Part(agent, value) == [agent |-> agent, value |-> value]

\* One bare value at the most, and no agent twice.
ParsesAgentOverride(parts) ==
    /\ parts # <<>>
    /\ \A i \in DOMAIN parts : parts[i].agent \in SupportedAgentNames \union {""}
    /\ \A i, j \in DOMAIN parts : parts[i].agent = parts[j].agent => i = j

\* [agent |-> value], with "" for all agents.
ParseAgentOverride(parts) ==
    [a \in {x.agent : x \in Range(parts)} |-> (CHOOSE x \in Range(parts) : x.agent = a).value]

LlmOverrides(models, urls) ==
    [models |-> ParseAgentOverride(models), urls |-> ParseAgentOverride(urls)]

\* What a configuration says of models.
LlmOf(config) ==
    LlmOverrides(Get(config, "agent.model", <<>>), Get(config, "agent.base-url", <<>>))

\* The layer above wins, agent by agent.
MergeLlmOverrides(above, below) ==
    [models |-> above.models ++ below.models, urls |-> above.urls ++ below.urls]

-----------------------------------------------------------------------------

SetKeys == {k \in DOMAIN HostEnv : HostEnv[k] # ""}

\* A provider that is not known is taken for a compatible one.
KeysOf(provider) ==
    IF Lookup(provider) = {} THEN <<"OPENROUTER_API_KEY", "OPENAI_API_KEY">>
                             ELSE <<(CHOOSE p \in Lookup(provider) : TRUE).key>>

ResolveApiKey(provider) ==
    LET set == SelectSeq(KeysOf(provider), LAMBDA k : k \in SetKeys)
    IN  IF set = <<>> THEN NoKey ELSE HostEnv[set[1]]

GetZeroConfigDefault ==
    LET usable == SelectSeq(Providers, LAMBDA p : p.key \in SetKeys)
    IN  IF usable = <<>> THEN NoModel ELSE Model(usable[1].id, usable[1].model)

\* The setting of the agent, then that of all agents.
OfAgent(setting, agent, default) == Get(setting, agent, Get(setting, "", default))

ResolveAgentLlmConfig(agent, llm) ==
    LET model == ParseModelString(OfAgent(llm.models, agent, GetZeroConfigDefault))
        urls == {p.url : p \in Lookup(model.provider)}
    IN  [model |-> model, key |-> ResolveApiKey(model.provider),
         url |-> IF model = NoModel THEN ""
                 ELSE OfAgent(llm.urls, agent, IF urls = {} THEN "" ELSE CHOOSE u \in urls : TRUE)]

LlmEnvFromConfig(c) ==
    ("LLM_MODEL" ::= c.model) ++ ("LLM_API_KEY" ::= c.key)
        ++ (IF c.url = "" THEN Nothing ELSE "LLM_BASE_URL" ::= c.url)
=============================================================================
