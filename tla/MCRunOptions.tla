---------------------------- MODULE MCRunOptions ----------------------------
(* Small worlds of configs, features and command lines that meet in the same  *)
(* options.                                                                   *)
EXTENDS RunOptions

Opt(k, V) == {Unset} \union {k ::= v : v \in V}
Join(S, T) == {s ++ t : s \in S, t \in T}

Feature(phased, top, defaults) == [phased |-> phased, top |-> top, defaults |-> defaults, broken |-> FALSE]
Plan == Feature(FALSE, Unset, Unset)
Phases == Feature(TRUE, Unset, Unset)
Features(Top) == {Feature(p, t, Unset) : p \in BOOLEAN, t \in Top}

Setting(scripts, configs, features, flags) ==
    [files |-> scripts, configs |-> configs, features |-> features, flags |-> flags]

Agent == Setting(
    {"a.sh", "b.sh"},
    Opt("agentScript", {"a.sh"}),
    Features(Opt("agentProfileId", {"claude"})) \union Features({"agentInstallScript" ::= "b.sh"}),
    Join(Opt("agentProfileId", {"aider"}), Opt("agentInstallScript", {"a.sh"})))

Gate == Setting(
    {"a.sh", "b.sh"},
    Opt("gateScript", {"a.sh"}), {Plan, Phases},
    Join(Opt("gateScript", {"b.sh"}), Opt("sandboxProfileId", {"python"})) \union Opt("stageScript", {"b.sh"}))

Startup == Setting(
    {"a.sh", "b.sh"},
    Opt("startupScript", {"a.sh"}) \union Opt("coderImage", {"mine"}),
    {Plan, Feature(TRUE, "startupScript" ::= "b.sh", "startupScript" ::= "a.sh"),
     Feature(FALSE, Unset, "coderImage" ::= "theirs")},
    Opt("startupScript", {"b.sh"}) \union Opt("coderImage", {"other"}) \union Opt("sandboxProfileId", {"python"}))

Test == Setting(
    {"a.sh", "b.sh"},
    Join(Opt("testScript", {"a.sh"}), Opt("testProfile", {"pytest"})), {Plan, Phases},
    Join(Opt("testProfile", {"go"}), Opt("testImage", {"mine"})) \union Opt("testScript", {"b.sh"}))

Leash == Setting(
    {"a.sh", "b.sh"},
    Join(Opt("cedarPolicyPath", {"a.sh"}), Opt("dangerousNoLeash", {"true"})),
    {Plan, Phases, Feature(TRUE, "cedarPolicyPath" ::= "b.sh", Unset), Feature(FALSE, "dangerousNoLeash" ::= "false", Unset)},
    Join(Opt("cedarPolicyPath", {"b.sh"}), Opt("dangerousNoLeash", {"true"})))

Engine == Setting(
    {},
    Opt("codingEnvironment", {<<"docker", "a.yml">>, <<"helm", "chart">>})
        \union Opt("stagingEnvironment", {<<"helm", "chart">>}),
    {Plan, Phases, Feature(TRUE, "composeFile" ::= "b.yml", "engine" ::= "local")},
    Opt("engine", {"local", "helm", "coding=local", "staging=helm"})
        \union {("engine" ::= "docker") ++ ("dangerousNoLeash" ::= "true"), "reviewerEnabled" ::= "false"})

Delivery == Setting(
    {},
    Join(Opt("push", {"origin"}), Opt("pr", {"true"})), {Plan},
    Join(Opt("push", {"fork"}), Opt("pr", {"true"})) \union Opt("targetBranch", {"mine"}))

Counts == Setting(
    {},
    Join(Opt("maxRuns", {"2"}), Opt("sandboxBaseDir", {"/big"})), {Plan},
    Join(Opt("maxRuns", {"9"}), Opt("resolveAmbiguity", {"off", "bad"})) \union Opt("malformed", {"true"}))

Env == Setting(
    {},
    Join(Opt("agentEnv", {"A" ::= "1"}), Opt("agentSecretKeys", {{"K"}})), {Plan},
    Join(Opt("agentEnv", {"B" ::= "2", "A" ::= "3"}), Opt("agentSecretKeys", {{"L"}}))
        \union Opt("agentSecretFiles", {{"s.env"}}))

Llm == Setting(
    {},
    Join(Opt("globalModel", {"m1"}), Opt("coder model", {"m2"})), {Plan},
    Join(Opt("globalModel", {"m3"}), Opt("coder model", {"m1"})) \union Opt("globalBaseUrl", {"u"}))

Stale == Setting(
    {"a.sh"},
    Opt("gateScript", {"a.sh"}) \union Opt("strict", {"false"}),
    {Plan, Phases, [Plan EXCEPT !.broken = TRUE]}, Opt("strict", {"true"}))

Claude == Setting(
    {},
    Join({"agentProfileId" ::= "claude"}, Opt("claudeMax", {"true"})),
    {Plan, Feature(TRUE, "claudeMax" ::= "true", Unset)},
    Opt("agentProfileId", {"claude", "aider"}) \union Opt("claudeMax", {"true"}))

MCSettings == {Agent, Gate, Startup, Test, Leash, Engine, Delivery, Counts, Env, Llm, Stale, Claude}
=============================================================================
