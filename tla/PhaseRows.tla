----------------------------- MODULE PhaseRows -----------------------------
(***************************************************************************)
(* What becomes of the phases of a feature: the settings of the run as a   *)
(* whole (orchestrator/options.ts), the rows compilePhasesToSubtasks makes *)
(* of the phases, the tests that gate a row (test-scope.ts,                *)
(* runner-overrides.ts) and the environment of its agent                   *)
(* (per-subtask-env.ts, agent-env.ts).                                     *)
(***************************************************************************)
EXTENDS PhaseConfig

CONSTANT Approved  \* names of secrets that end in _API_KEY or _TOKEN

-----------------------------------------------------------------------------
(* The settings of the run as a whole: the baseline of every phase *)

Option(f, k, default) ==
    LET layers == <<f.cli, f.top, f.defaults, f.config>>
    IN  IF Declaring(layers, k) = {} THEN default ELSE FirstDefined(layers, k)

\* What is not the feature's to set for a run.
RunOption(f, k, default) == Get(f.cli, k, Get(f.config, k, default))

ScriptOfProfile(k) == IF k = "agent.install" THEN "install" ELSE "agent"

\* --agent brings both scripts of that profile with it.
IsFromCli(f, k) ==
    k \in DOMAIN f.cli \/ (k \in {"agent.script", "agent.install"} /\ "agent.profile" \in DOMAIN f.cli)

CliScript(f, k) ==
    IF k \in DOMAIN f.cli THEN <<"cli", f.cli[k]>>
                          ELSE Bundled(f.cli["agent.profile"], ScriptOfProfile(k))

RunScript(f, k, default) ==
    CASE IsFromCli(f, k) -> CliScript(f, k)
      [] ~IsFromCli(f, k) /\ k \in DOMAIN f.config -> <<"project", f.config[k]>>
      [] OTHER -> default

FeatureSetting(f, k) == Get(f.top, k, f.defaults[k])

IsOfFeature(f, k) == k \in DOMAIN f.top \union DOMAIN f.defaults

BootScript(f, k, default) ==
    IF ~IsFromCli(f, k) /\ IsOfFeature(f, k)
    THEN Script(f, FeatureDirs, FeatureSetting(f, k))
    ELSE RunScript(f, k, default)

CodingEngine(f) == Option(f, "container.engine", "docker")

\* With --engine the compose file is that of saifctl's config, or none.
ComposeFile(f) ==
    LET configured == IF Get(f.config, "container.engine", "docker") = "docker"
                      THEN Get(f.config, "container.compose-file", "") ELSE ""
    IN  CASE CodingEngine(f) # "docker" -> ""
          [] CodingEngine(f) = "docker" /\ IsOfFeature(f, "container.compose-file")
                /\ "container.engine" \notin DOMAIN f.cli ->
                FeatureSetting(f, "container.compose-file")
          [] OTHER -> configured

TestRunner(f) ==
    LET profile == RunOption(f, "test.profile", "vitest")
    IN  [profile |-> profile,
         image |-> RunOption(f, "test.image", profile),
         script |-> RunScript(f, "test.script", Bundled(profile, "test")),
         ambiguity |-> RunOption(f, "test.resolve-ambiguity", "ai"),
         retries |-> RunOption(f, "test.retries", 1)]

RunLevelScripts(f, sandbox, agent) ==
    [gate |-> RunScript(f, "gate.script", Bundled(sandbox, "gate")),
     agent |-> RunScript(f, "agent.script", Bundled(agent, "agent")),
     stage |-> RunScript(f, "test.stage-script", Bundled(sandbox, "stage"))]

RunLevelLevel2Baseline(f, sandbox, agent) ==
    [profile |-> agent,
     install |-> BootScript(f, "agent.install", Bundled(agent, "install")),
     startup |-> BootScript(f, "container.startup", Bundled(sandbox, "startup")),
     cedar |-> BootScript(f, "container.cedar", Bundled("saifctl", "cedar")),
     noLeash |-> Option(f, "container.no-leash", "false")]

RunLevelLevel3Baseline(f, sandbox) ==
    [image |-> Option(f, "container.image", sandbox), sandbox |-> sandbox,
     engine |-> CodingEngine(f), compose |-> ComposeFile(f)]

OrchestratorBaseline(f) ==
    LET sandbox == Option(f, "container.sandbox-profile", "node")
        agent == Option(f, "agent.profile", "openhands")
    IN  RunLevelScripts(f, sandbox, agent) ++
        [level2 |-> RunLevelLevel2Baseline(f, sandbox, agent),
         level3 |-> RunLevelLevel3Baseline(f, sandbox),
         runner |-> TestRunner(f),
         env |-> Get(f.cli, "agent.env", Nothing) ++ Get(f.config, "agent.env", Nothing),
         secrets |-> Get(f.cli, "agent.secrets", {}) \union Get(f.config, "agent.secrets", {}),
         secretFile |-> Get(f.cli, "agent.secret-file", Nothing),
         llm |-> MergeLlmOverrides(LlmOf(f.cli), LlmOf(f.config)),
         reviewer |-> IF CodingEngine(f) = "local" THEN "false"
                      ELSE RunOption(f, "agent.reviewer", "true")]

\* Ids of profiles and the tags of images that saifctl refuses.
Malformed == "?"

\* Settings that are sequences of parts, for all agents or for one.
LlmSettings == {"agent.model", "agent.base-url"}

BadLlm(settings) ==
    \E k \in LlmSettings \intersect DOMAIN settings : ~ParsesAgentOverride(settings[k])

\* The feature's own scripts are sought in the feature and the project only.
OptionsExit(f) ==
    \/ ~LoadFeatureConfig(f)
    \/ BadLlm(f.cli)
    \/ \E k \in {"container.cedar", "container.startup", "agent.install"} :
          IsOfFeature(f, k) /\ ~ResolvesScript(f, FeatureDirs, FeatureSetting(f, k))
    \/ \E k \in {"container.image", "container.sandbox-profile", "agent.profile"} :
          Option(f, k, "") = Malformed
    \/ \E k \in {"test.profile", "test.image"} : RunOption(f, k, "") = Malformed

-----------------------------------------------------------------------------
(* The rows of a feature *)

\* What only the compiler checks.
CompileOnly == {"test.image", "container.image", "agent.profile", "container.sandbox-profile"}

ReadFields == PathFields \ {"container.compose-file"}

PhaseCompileError(f) ==
    \/ EffectivePhaseOrder(f) = <<>>
    \/ \E p \in Range(EffectivePhaseOrder(f)) :
          LET config == ResolvePhaseConfig(f, p)
          IN  \/ \E k \in CompileOnly : Get(config, k, "") = Malformed
              \/ BadLlm(config)
              \/ \E k \in ReadFields \intersect DOMAIN config :
                    ~ResolvesScript(f, PhaseDirs(p), config[k])
              \/ \E c \in Range(CriticList(f, config)) : c.id \notin f.critics

OwnScript(f, p, k, baseline) ==
    LET config == ResolvePhaseConfig(f, p)
    IN  IF k \in DOMAIN config THEN Script(f, PhaseDirs(p), config[k]) ELSE baseline

\* A phase with a profile of its own has the install script of that profile.
PhaseLevel2(f, p, base) ==
    LET config == ResolvePhaseConfig(f, p)
        profile == Get(config, "agent.profile", base.level2.profile)
        install == IF "agent.profile" \in DOMAIN config
                   THEN Bundled(profile, "install") ELSE base.level2.install
    IN  [profile |-> profile,
         install |-> OwnScript(f, p, "agent.install", install),
         startup |-> OwnScript(f, p, "container.startup", base.level2.startup),
         cedar |-> OwnScript(f, p, "container.cedar", base.level2.cedar),
         noLeash |-> Get(config, "container.no-leash", base.level2.noLeash)]

PhaseLevel3(f, p, base) ==
    LET config == ResolvePhaseConfig(f, p)
    IN  [image |-> Get(config, "container.image", base.level3.image),
         sandbox |-> Get(config, "container.sandbox-profile", base.level3.sandbox),
         engine |-> Get(config, "container.engine", base.level3.engine),
         compose |-> Get(config, "container.compose-file", base.level3.compose)]

\* Mutant: a phase is compared with the run's baseline.
RequiresRestartFromBase(f, base, i) ==
    LET order == EffectivePhaseOrder(f)
    IN  [level2 |-> i > 1 /\ PhaseLevel2(f, order[i], base) # base.level2,
         level3 |-> i > 1 /\ PhaseLevel3(f, order[i], base) # base.level3]

RequiresRestart(f, base, i) ==
    LET order == EffectivePhaseOrder(f)
        differs(Level(_, _, _)) ==
            i > 1 /\ Level(f, order[i], base) # Level(f, order[i - 1], base)
    IN  [level2 |-> differs(PhaseLevel2), level3 |-> differs(PhaseLevel3)]

HasNoTests(config) == Get(config, "tests.none", "false") = "true"

\* The directories whose tests come with the phase: the last one brings those
\* of the feature and of the project.
PhaseTestScope(f, p) ==
    (IF HasNoTests(ResolvePhaseConfig(f, p)) THEN {} ELSE {p})
        \union (IF p = Last(EffectivePhaseOrder(f)) THEN {"feature", "project"} ELSE {})

\* The settings of the test runner a phase sets.
PhaseLevel4(f, p) ==
    LET config == ResolvePhaseConfig(f, p)
        own(field, k) == IF k \in DOMAIN config THEN field ::= config[k] ELSE Nothing
    IN  own("profile", "test.profile") ++ own("image", "test.image")
          ++ (IF "test.script" \in DOMAIN config
              THEN "script" ::= Script(f, PhaseDirs(p), config["test.script"]) ELSE Nothing)
          ++ own("ambiguity", "test.resolve-ambiguity") ++ own("retries", "test.retries")

PhaseLevel1_5(base, config) ==
    [env |-> Get(config, "agent.env", Nothing),
     secrets |-> Get(config, "agent.secrets", {}),
     llm |-> LlmOf(config),
     reviewer |-> Get(config, "agent.reviewer", base.reviewer),
     options |-> Get(config, "agent.options", Nothing)]

\* What all the rows of a phase have in common.
PhaseRow(f, base, p) ==
    LET config == ResolvePhaseConfig(f, p)
    IN  [phase |-> p,
         spec |-> <<p, config["spec"]>>,
         gate |-> OwnScript(f, p, "gate.script", base.gate),
         agent |-> OwnScript(f, p, "agent.script", base.agent),
         stage |-> OwnScript(f, p, "test.stage-script", base.stage),
         gateRetries |-> Get(config, "gate.retries", 0),
         maxAttempts |-> Get(config, "limits.max-attempts", 0),
         tests |-> PhaseTestScope(f, p),
         noRunner |-> HasNoTests(config),
         runner |-> PhaseLevel4(f, p),
         level2 |-> PhaseLevel2(f, p, base),
         level3 |-> PhaseLevel3(f, p, base)] ++ PhaseLevel1_5(base, config)

Turn(step, critic, round) == [step |-> step, critic |-> critic, round |-> round]

\* In every round of a critic it first finds, then the next row fixes.
CriticTurns(list) ==
    FlattenSeq([c \in DOMAIN list |-> FlattenSeq([r \in 1 .. list[c].rounds |->
        <<Turn("discover", list[c].id, r), Turn("fix", list[c].id, r)>>])])

\* The file by which the two rows of a round hand over.
FindingsPath(p, t) == <<p, t.critic, t.round>>

CompilePhase(f, base, i) ==
    LET p == EffectivePhaseOrder(f)[i]
        turns == <<Turn("impl", "", 0)>>
                    \o CriticTurns(CriticList(f, ResolvePhaseConfig(f, p)))
        row(t) == PhaseRow(f, base, p) ++ [step |-> t.step,
            findings |-> FindingsPath(p, t),
            restart |-> IF t.step = "impl" THEN RequiresRestart(f, base, i)
                                           ELSE [level2 |-> FALSE, level3 |-> FALSE]]
    IN  [t \in DOMAIN turns |-> row(turns[t])]

CompilePhasesToSubtasks(f, base) ==
    FlattenSeq([i \in DOMAIN EffectivePhaseOrder(f) |-> CompilePhase(f, base, i)])

\* `feat phases compile` knows no baseline: its scripts are placeholders, and
\* what no layer declares is left out.
PreviewBase ==
    [gate |-> <<"placeholder">>, agent |-> <<"placeholder">>, stage |-> <<"placeholder">>,
     level2 |-> [profile |-> "", install |-> <<>>, startup |-> <<>>, cedar |-> <<>>, noLeash |-> ""],
     level3 |-> [image |-> "", sandbox |-> "", engine |-> "", compose |-> ""],
     reviewer |-> ""]

Preview(f) == CompilePhasesToSubtasks(f, PreviewBase)

-----------------------------------------------------------------------------
(* The tests that gate a row *)

SubtaskTestScope(rows, i) == UNION {rows[j].tests : j \in 1 .. i}

\* Mutant: a phase without tests is never gated.
ShouldBypassRunnerIfNone(rows, i) == rows[i].noRunner

ShouldBypassRunner(rows, i) == rows[i].noRunner /\ SubtaskTestScope(rows, i) = {}

PickRunnerOptsForSubtask(base, row) == row.runner ++ base.runner

\* The directory that holds a tests/ names its part of the merged directory:
\* saifctl/tests and saifctl/features/<name>/tests have their own.
Label(f, place) ==
    CASE place = "feature" -> f.name [] place = "project" -> "saifctl" [] OTHER -> place

\* Several directories are merged, and a file is never overwritten. Without
\* any in scope it is the feature's.
MergeCollides(f, sources) ==
    /\ f.alike
    /\ \E x, y \in sources \intersect f.tests : x # y /\ Label(f, x) = Label(f, y)

TestsDir(f, sources) == (IF sources = {} THEN {"feature"} ELSE sources) \intersect f.tests

\* The profile of a row is only looked up when its turn comes.
RefreshTestRunnerFails(f, base, rows, i) ==
    \/ PickRunnerOptsForSubtask(base, rows[i]).profile = Malformed
    \/ MergeCollides(f, SubtaskTestScope(rows, i))

-----------------------------------------------------------------------------
(* The environment of a row's agent *)

LlmVars == {"LLM_MODEL", "LLM_API_KEY", "LLM_BASE_URL"}

ReviewerVars == {"REVIEWER_LLM_MODEL", "REVIEWER_LLM_API_KEY", "REVIEWER_LLM_BASE_URL"}

AlwaysManagedKeys == LlmVars \union {"SAIFCTL_REVIEWER_ENABLED"}

\* What a row may not set, and what the run may not either.
Reserved == AlwaysManagedKeys \union ReviewerVars

FactoryReserved == Reserved \union {"UV_NATIVE_TLS"}

Without(m, names) == [x \in DOMAIN m \ names |-> m[x]]

HostValues(names) == [x \in names \intersect DOMAIN HostEnv |-> HostEnv[x]]

\* The container is not given empty ones; the file of a row has them.
HostSecrets(names) == HostValues(names \intersect SetKeys)

ReviewerFlag(on) == IF on = "true" THEN "SAIFCTL_REVIEWER_ENABLED" ::= "1" ELSE Nothing

IsAllowedSecretName(base, x) == x \in base.secrets \union Approved

ComputeSubtaskEnv(base, row) ==
    LlmEnvFromConfig(ResolveAgentLlmConfig("coder", MergeLlmOverrides(row.llm, base.llm)))
    ++ ReviewerFlag(row.reviewer)
    ++ Without(HostValues({x \in row.secrets : IsAllowedSecretName(base, x)})
                 ++ row.env ++ HostValues(base.secrets) ++ base.env, Reserved)

ReviewerEnv(base) ==
    LET c == ResolveAgentLlmConfig("reviewer", base.llm)
    IN  IF base.reviewer # "true" THEN Nothing
        ELSE ("REVIEWER_LLM_MODEL" ::= c.model) ++ ("REVIEWER_LLM_API_KEY" ::= c.key)
                ++ (IF c.url = "" THEN Nothing ELSE "REVIEWER_LLM_BASE_URL" ::= c.url)

LlmApiKeys == {p.key : p \in Range(Providers)} \ {""}

\* What the container itself is started with: the keys of all providers, and
\* the secrets of a file below those of the host.
ContainerEnv(base) ==
    Without(HostSecrets(base.secrets) ++ base.secretFile, FactoryReserved)
    ++ ReviewerFlag(base.reviewer) ++ ReviewerEnv(base)
    ++ LlmEnvFromConfig(ResolveAgentLlmConfig("coder", base.llm))
    ++ HostSecrets(LlmApiKeys \intersect SetKeys)
    ++ ("UV_NATIVE_TLS" ::= "1") ++ Without(base.env, FactoryReserved)

\* Mutant: only the run's own settings and the managed keys are shadowed.
ShadowKeysOfRun(base, rows) ==
    AlwaysManagedKeys \union ((DOMAIN base.env \union base.secrets) \ Reserved)

\* What some row sets: another row has to unset it.
ShadowKeys(base, rows) ==
    LET set(x) == DOMAIN x.env \union x.secrets
    IN  AlwaysManagedKeys
          \union ((set(base) \union UNION {set(r) : r \in Range(rows)}) \ Reserved)

\* The file the agent's shell sources at every round.
SubtaskEnvFile(base, rows, row) ==
    LET vars == ComputeSubtaskEnv(base, row)
    IN  [vars |-> vars, unset |-> ShadowKeys(base, rows) \ DOMAIN vars,
         options |-> [x \in {row.level2.profile} \X DOMAIN row.options |-> row.options[x[2]]]]

NoEnvFile == [vars |-> Nothing, unset |-> {}, options |-> Nothing]

Source(shell, file) ==
    [vars |-> file.vars ++ Without(shell.vars, file.unset),
     options |-> file.options ++ shell.options]
=============================================================================
