---------------------------- MODULE RunOptions ----------------------------
(***************************************************************************)
(* Where the options of a run come from (orchestrator/options.ts, read by  *)
(* `feat run`, `run start`, `run resume`, `run fork` and `run inspect`):   *)
(* defaults, profiles, saifctl config, feature.yml, the stored run, and    *)
(* the command line (cli/utils.ts).  Script files, config and feature are  *)
(* the user's, who edits them between commands.  Some options are baked    *)
(* into the rows of a run when it is made; a row goes before the option of *)
(* the run (loop.ts).  Commands run in the project's directory.            *)
(*                                                                         *)
(* An option is a name of OrchestratorOpts; a layer is a function from the *)
(* names it sets to their values.  A file's text is its path and version,  *)
(* a profile's own script its id and the script's name; an environment is  *)
(* its engine and file.                                                    *)
(***************************************************************************)
EXTENDS Naturals, Sequences, Functions, Layers

CONSTANTS
    Settings,     \* projects: their script and policy files, and the configs,
                  \* features and command lines to combine
    MaxEdits,     \* edits of config, feature and files
    MaxCommands   \* commands on the run

VARIABLES
    setting,      \* the project of this behaviour
    config,       \* the defaults of the saifctl config
    feature,      \* feature.yml: top level, phases.defaults, in phases, broken
    files,        \* the version of every file, or ""
    run,          \* the run: status, options, row, engine of its container
    said,         \* what the last command said of the run
    edits, issued \* how many edits and commands so far

vars == <<setting, config, feature, files, run, said, edits, issued>>
User == <<setting, config, feature, files, edits>>

Unset == [k \in {} |-> "unset"]

SandboxScripts == {"startupScript", "gateScript", "stageScript"}
AgentScripts == {"agentInstallScript", "agentScript"}
Scripts == SandboxScripts \union AgentScripts \union {"testScript"}

\* Package defaults of what only flags and the config set.  Options that are
\* layered alike stand for one another: maxRuns for counts and timeouts,
\* push for the hosting provider and the project's name, strict for
\* includeDirty.
Defaults ==
    [maxRuns |-> "5", resolveAmbiguity |-> "ai", reviewerEnabled |-> "true",
     dangerousNoLeash |-> "false", strict |-> "true", push |-> "none", pr |-> "false",
     sandboxBaseDir |-> "/tmp"]

\* Of these the config knows nothing; targetBranch stands for verbose.
Flags == [targetBranch |-> "none", agentSecretFiles |-> {}]

\* A flag that is absent, and a text that is empty, say nothing.
Given(flags, k) == k \in DOMAIN flags

-----------------------------------------------------------------------------
(* Scripts and profiles *)

Bundled(profile, script) == <<profile, script>>

Text(path) == <<path, files[path]>>

Missing(path) == files[path] = ""

\* featureAgentValue, featureContainerValue: the top level, then phases.defaults.
FeatureValues == feature.top ++ feature.defaults

ProfileOf(script) ==
    CASE script \in SandboxScripts -> "sandboxProfileId"
      [] script \in AgentScripts -> "agentProfileId"
      [] OTHER -> "testProfile"

\* pickSandboxProfile, pickAgentProfile, pickTestProfile
Profiles(cli) ==
    LET packaged == [sandboxProfileId |-> "node", agentProfileId |-> "openhands",
                     testProfile |-> "vitest"]
    IN  Restrict(cli ++ FeatureValues ++ config ++ packaged, DOMAIN packaged)

\* coalesceScriptPath, readOrchestratorScriptPick: a path of the feature or the
\* config, or the script that comes with the profile.
Pick(script, profiles) ==
    LET paths == FeatureValues ++ config
    IN  IF script \in DOMAIN paths THEN Text(paths[script])
        ELSE Bundled(profiles[ProfileOf(script)], script)

\* The paths that are looked for whatever the command line says.
PickedPaths ==
    {(FeatureValues ++ config)[k] : k \in Scripts \intersect DOMAIN (FeatureValues ++ config)}

CedarPath(cli) ==
    (cli ++ FeatureValues ++ config ++ [cedarPolicyPath |-> "default.cedar"])["cedarPolicyPath"]

CedarText(path) == IF path = "default.cedar" THEN Bundled("leash", path) ELSE Text(path)

Images(cli, profiles) ==
    [coderImage |-> (cli ++ FeatureValues ++ config
                        ++ ("coderImage" ::= Bundled(profiles["sandboxProfileId"], "image")))["coderImage"],
     testImage |-> (cli ++ config
                        ++ ("testImage" ::= Bundled(profiles["testProfile"], "image")))["testImage"]]

-----------------------------------------------------------------------------
(* Engines *)

\* parseEngineCliSpec
EngineSpec(raw) ==
    CASE raw = "local" -> [coding |-> "local", staging |-> "docker"]
      [] raw = "docker" -> [coding |-> "docker", staging |-> "docker"]
      [] raw = "helm" -> [coding |-> "helm", staging |-> "helm"]
      [] raw = "coding=local" -> [coding |-> "local"]
      [] raw = "staging=helm" -> [staging |-> "helm"]

Environment(key) == (config ++ (key ::= <<"docker", "">>))[key]

\* resolveCodingEnvironment: the feature's engine and compose file over the config's.
CodingEnvironment ==
    LET base == Environment("codingEnvironment")
        engine == (FeatureValues ++ [engine |-> base[1]])["engine"]
        file == IF engine = base[1] THEN base[2] ELSE ""
    IN  <<engine, IF engine = "docker" THEN (FeatureValues ++ [composeFile |-> file])["composeFile"] ELSE file>>

\* pickCodingEnvironmentForEngineCli, pickStagingEnvironmentForEngineCli: the
\* environment of the config if it is of that engine, else a bare one.
PickEnvironment(key, engine) ==
    IF Environment(key)[1] = engine THEN Environment(key) ELSE <<engine, "">>

NoChart(engineCli) ==
    LET spec == EngineSpec(engineCli)
    IN  "staging" \in DOMAIN spec /\ spec.staging = "helm"
           /\ Environment("stagingEnvironment")[1] # "helm"

\* applyEngineCliToOrchestratorOpts: what `--engine` says.
EngineOptions(flags) ==
    IF ~Given(flags, "engine") THEN Unset
    ELSE LET spec == EngineSpec(flags["engine"])
         IN  (IF "coding" \in DOMAIN spec
              THEN "codingEnvironment" ::= PickEnvironment("codingEnvironment", spec.coding) ELSE Unset)
             ++ (IF "staging" \in DOMAIN spec
                 THEN "stagingEnvironment" ::= PickEnvironment("stagingEnvironment", spec.staging) ELSE Unset)

-----------------------------------------------------------------------------
(* The command line: what it says, undefined where it is silent *)

Models == {"globalModel", "coder model", "globalBaseUrl"}

ConfigEnv == (config ++ [agentEnv |-> Unset])["agentEnv"]

ConfigKeys == (config ++ [agentSecretKeys |-> {}])["agentSecretKeys"]

\* What the schema of the config lets its defaults set.
ConfigOptions ==
    {"testProfile", "agentProfileId", "sandboxProfileId", "cedarPolicyPath", "coderImage", "testImage",
     "agentEnv", "agentSecretKeys", "claudeMax"} \union Scripts \union Models \union DOMAIN Defaults

\* Environments are set beside them: the agent may also work on the host.
StagingEngines == {"docker", "helm"}
CodingEngines == StagingEngines \union {"local"}

ConfigAssumption ==
    \A t \in Settings : \A c \in t.configs :
        /\ DOMAIN c \subseteq ConfigOptions \union {"codingEnvironment", "stagingEnvironment"}
        /\ "codingEnvironment" \in DOMAIN c => c["codingEnvironment"][1] \in CodingEngines
        /\ "stagingEnvironment" \in DOMAIN c => c["stagingEnvironment"][1] \in StagingEngines

ASSUME ConfigAssumption

\* Counts, durations and images are parsed; a bad one ends the command.
Malformed(flags) == Given(flags, "malformed")

FlagsOfTheirOwn == Scripts \union {"agentEnv", "agentSecretKeys", "engine", "malformed", "claudeMax"}

\* buildOrchestratorCliInputFromFeatArgs.  An agent brings the scripts of its
\* profile, a sandbox or test profile nothing; variables and secrets join
\* those of the config; what to do on ambiguity counts if it is known.
Cli(flags) ==
    LET has(k) == Given(flags, k)
        known == has("resolveAmbiguity") /\ flags["resolveAmbiguity"] \in {"off", "prompt", "ai"}
        plain == DOMAIN flags \ (FlagsOfTheirOwn \union (IF known THEN {} ELSE {"resolveAmbiguity"}))
    IN  [k \in Scripts \intersect DOMAIN flags |-> Text(flags[k])]
        ++ (IF has("agentProfileId")
            THEN [k \in AgentScripts |-> Bundled(flags["agentProfileId"], k)] ELSE Unset)
        ++ (IF has("agentEnv") THEN "agentEnv" ::= (flags["agentEnv"] ++ ConfigEnv) ELSE Unset)
        ++ (IF has("agentSecretKeys")
            THEN "agentSecretKeys" ::= (flags["agentSecretKeys"] \union ConfigKeys) ELSE Unset)
        ++ Restrict(flags, plain)

\* All that a command says of the options of a run.
Says(flags) ==
    LET cli == Cli(flags)
    IN  cli ++ EngineOptions(flags)
            ++ (IF "cedarPolicyPath" \in DOMAIN cli
                THEN "cedarScript" ::= CedarText(cli["cedarPolicyPath"]) ELSE Unset)

-----------------------------------------------------------------------------
(* Layers *)

\* applyOrchestratorBaseline: the options without the command line, but for
\* the profiles that choose scripts and images.
Baseline(cli) ==
    LET profiles == Profiles(cli)
    IN  profiles
        ++ [k \in Scripts |-> Pick(k, profiles)]
        ++ Images(cli, profiles)
        ++ [cedarPolicyPath |-> CedarPath(cli), cedarScript |-> CedarText(CedarPath(cli)),
            codingEnvironment |-> CodingEnvironment,
            stagingEnvironment |-> Environment("stagingEnvironment"),
            agentEnv |-> ConfigEnv, agentSecretKeys |-> ConfigKeys]
        ++ Restrict(FeatureValues ++ config ++ Defaults, DOMAIN Defaults)
        ++ Restrict(config, Models \intersect DOMAIN config)
        ++ Flags

\* Mutant: the config of today goes before what is stored.
ConfigBeforeArtifact(stored, base) ==
    Restrict(config, DOMAIN Defaults \intersect DOMAIN config)
    ++ Restrict(stored, DOMAIN stored \ {"sandboxBaseDir", "claudeMax"}) ++ base

\* mergeArtifactOntoDefaults, mergeLlmOverridesLayers
MergeArtifactOntoDefaults(stored, base) ==
    Restrict(stored, DOMAIN stored \ {"sandboxBaseDir", "claudeMax"}) ++ base

Forced(options) ==
    IF options["codingEnvironment"][1] = "local"
    THEN [dangerousNoLeash |-> "false", reviewerEnabled |-> "false"] ++ options ELSE options

\* What an overlay does not define is left alone.
MergeDefinedOrchestratorOpts(base, overlay) == overlay ++ base

\* resolveOrchestratorOpts, of a new run and of a stored one
ResolveNew(flags) == Forced(MergeDefinedOrchestratorOpts(Baseline(Cli(flags)), Says(flags)))

ResolveStored(flags, stored) ==
    Forced(MergeDefinedOrchestratorOpts(
        MergeArtifactOntoDefaults(stored, Baseline(Cli(flags))), Says(flags)))

\* Whatever the options turn out to be, the command does not go on: its own
\* words, feature.yml, a script or policy that is not there, the pull request
\* of the config without a push, no chart.
CannotResolve(flags) ==
    LET absent(path) == path # "default.cedar" /\ Missing(path)
    IN  \/ Malformed(flags)
        \/ \E k \in Scripts \intersect DOMAIN flags : Missing(flags[k])
        \/ feature.broken
        \/ \E path \in PickedPaths : Missing(path)
        \/ absent(CedarPath(Unset)) \/ absent(CedarPath(flags))
        \/ "cedarPolicyPath" \in DOMAIN config /\ Missing(config["cedarPolicyPath"])
        \/ (config ++ Defaults)["pr"] = "true" /\ (config ++ Defaults)["push"] = "none"
        \/ Given(flags, "engine") /\ NoChart(flags["engine"])

NoPush(options) == options["pr"] = "true" /\ options["push"] = "none"

-----------------------------------------------------------------------------
(* Rows, and the options in force *)

BakedInPlan == {"gateScript", "agentScript"}

BakedInPhases ==
    BakedInPlan \union {"stageScript", "agentProfileId", "agentInstallScript", "startupScript",
        "cedarScript", "dangerousNoLeash", "coderImage", "codingEnvironment"}

\* What feature.yml says is said to every phase, phases.defaults first.
OfPhases(environment) ==
    LET own == feature.defaults ++ feature.top
        text(k) == IF k = "cedarScript" THEN "cedarPolicyPath" ELSE k
        texts == {k \in {"startupScript", "agentInstallScript", "cedarScript"} : text(k) \in DOMAIN own}
    IN  [k \in texts |-> Text(own[text(k)])]
        ++ (IF "agentProfileId" \in DOMAIN own
            THEN "agentInstallScript" ::= Bundled(own["agentProfileId"], "agentInstallScript") ELSE Unset)
        ++ (IF {"engine", "composeFile"} \intersect DOMAIN own = {} THEN Unset
            ELSE LET of(k, other) == (own ++ (k ::= other))[k]
                 IN  "codingEnvironment" ::= <<of("engine", environment[1]), of("composeFile", environment[2])>>)
        ++ Restrict(own, {"agentProfileId", "dangerousNoLeash", "coderImage"} \intersect DOMAIN own)

\* Mutant: the rows are made before the command line is looked at.
RowWithoutCli(flags) ==
    Restrict(Baseline(Unset), IF feature.phased THEN BakedInPhases ELSE BakedInPlan)

\* synthesizePlanSpecSubtaskInputs, compilePhasesToSubtasks
Row(flags) ==
    LET options == MergeDefinedOrchestratorOpts(Baseline(Cli(flags)), Says(flags))
    IN  IF feature.phased THEN OfPhases(options["codingEnvironment"])
                                ++ Restrict(options, BakedInPhases)
                          ELSE Restrict(options, BakedInPlan)

\* deriveActivePerAttemptCodingEnvironment
ActiveEnvironment(row, option) ==
    CASE row[1] # option[1] -> row
      [] row[1] = option[1] /\ row[1] = "docker" /\ row[2] # "" -> row
      [] OTHER -> option

InForce ==
    [k \in DOMAIN run.options |->
        CASE k \notin DOMAIN run.row -> run.options[k]
          [] k \in DOMAIN run.row /\ k # "codingEnvironment" -> run.row[k]
          [] OTHER -> ActiveEnvironment(run.row[k], run.options[k])]

-----------------------------------------------------------------------------
(* Options of the agent's profile: a matter of the process's environment.   *)
(* Only the profile claude has any.                                         *)

ProfileOptions == {"claudeMax"}

Declared(values) == Restrict(values, ProfileOptions \intersect DOMAIN values)

RecordProfileOptionsFromArgs(flags) == Declared(flags)

\* Both fill gaps only.
ApplyConfigToProfileOptionsEnv(env, configured) == env ++ Declared(configured)

ApplyArtifactToProfileOptionsEnv(env, stored) ==
    env ++ (IF stored["agentProfileId"] = "claude" THEN Declared(stored) ELSE Unset)

ReadProfileOptionsFromEnv(env) == (env ++ [claudeMax |-> "false"])["claudeMax"]

\* wireAgentProfileOptions
OptionOfNew(flags) ==
    ReadProfileOptionsFromEnv(ApplyConfigToProfileOptionsEnv(
        ApplyConfigToProfileOptionsEnv(RecordProfileOptionsFromArgs(flags), feature.top), config))

\* seedAgentProfileOptionsFromArtifact: of the profile that is stored, not of
\* the one the command chooses.
OptionOfStored(stored) ==
    ReadProfileOptionsFromEnv(ApplyArtifactToProfileOptionsEnv(Unset, stored))

\* snapshotAgentOptionsForArtifact: for another profile what is stored stays.
Serialize(options, option, stored) ==
    IF options["agentProfileId"] = "claude" THEN ("claudeMax" ::= option) ++ options
    ELSE options ++ Restrict(stored, {"claudeMax"} \intersect DOMAIN stored)

-----------------------------------------------------------------------------
NothingStored == [status |-> "none", options |-> Unset, row |-> Unset, infra |-> "", fresh |-> FALSE]

Init ==
    /\ setting \in Settings
    /\ config \in setting.configs /\ feature \in setting.features
    /\ files = [f \in setting.files |-> "1"]
    /\ run = NothingStored /\ said = Unset
    /\ edits = 0 /\ issued = 0

Idle == run.status # "running" /\ edits < MaxEdits /\ edits' = edits + 1

EditConfig ==
    /\ Idle /\ config' \in setting.configs \ {config}
    /\ UNCHANGED <<setting, feature, files, run, said, issued>>

EditFeature ==
    /\ Idle /\ feature' \in setting.features \ {feature}
    /\ UNCHANGED <<setting, config, files, run, said, issued>>

EditFile ==
    /\ Idle
    /\ \E f \in setting.files : \E v \in {"", "2"} \ {files[f]} : files' = [files EXCEPT ![f] = v]
    /\ UNCHANGED <<setting, config, feature, run, said, issued>>

Issue == issued < MaxCommands /\ issued' = issued + 1 /\ UNCHANGED User

FeatRun(flags) ==
    LET options == ResolveNew(flags)
    IN  /\ Issue
        /\ run.status = "none" /\ ~CannotResolve(flags) /\ ~NoPush(options)
        /\ run' = [status |-> "running", row |-> Row(flags), infra |-> "", fresh |-> TRUE,
                   options |-> Serialize(options, OptionOfNew(flags), Unset)]
        /\ said' = Says(flags)

\* runStartCore: the options of the process are those of the run from here on.
GoesOn(flags) ==
    LET options == ResolveStored(flags, run.options)
    IN  /\ run' = [run EXCEPT !.status = "running", !.infra = "", !.fresh = FALSE,
                   !.options = Serialize(options, OptionOfStored(run.options), run.options)]
        /\ said' = Says(flags)

\* setStatusStarting comes first: refused after it, the run stays "starting".
RunStart(flags) ==
    /\ Issue /\ run.status = "failed"
    /\ IF CannotResolve(flags) \/ NoPush(ResolveStored(flags, run.options))
       THEN run' = [run EXCEPT !.status = "starting"] /\ UNCHANGED said
       ELSE GoesOn(flags)

\* A paused run is not touched before its options are known; a container of
\* another engine is refused, one that is gone is made anew as by RunStart.
RunResume(flags) ==
    /\ Issue /\ run.status = "paused"
    /\ ~CannotResolve(flags) /\ ~NoPush(ResolveStored(flags, run.options))
    /\ ResolveStored(flags, run.options)["codingEnvironment"][1] = run.infra
    /\ GoesOn(flags)

\* forkStoredRun: rows are copied; the copy is followed from here on.
RunFork(flags) ==
    LET options == ResolveStored(flags, run.options)
    IN  /\ Issue /\ run.status \in {"failed", "paused", "starting"}
        /\ ~CannotResolve(flags) /\ ~NoPush(options)
        /\ run' = [run EXCEPT !.status = "failed", !.infra = "", !.fresh = FALSE,
                   !.options = Serialize(options, "false", run.options)]
        /\ said' = Says(flags)

\* A session that leaves commits saves the options it ran under, its single
\* round and its choice of Leash among them: it says so of the run.
RunInspect(flags, leash) ==
    LET ran == [maxRuns |-> "1", dangerousNoLeash |-> IF leash THEN "false" ELSE "true"]
        options == ran ++ ResolveStored(flags, run.options)
    IN  /\ Issue /\ run.status = "failed"
        /\ ~CannotResolve(flags) /\ ~NoPush(options)
        /\ options["codingEnvironment"][1] # "local"
        /\ run' = [run EXCEPT !.fresh = FALSE,
                   !.options = Serialize(options, OptionOfStored(run.options), run.options)]
        /\ said' = ran ++ Says(flags)

EndSession ==
    /\ run.status = "running"
    /\ \E status \in {"failed", "paused"} :
          run' = [run EXCEPT !.status = status,
                  !.infra = IF status = "paused" THEN InForce["codingEnvironment"][1] ELSE ""]
    /\ UNCHANGED User /\ UNCHANGED <<said, issued>>

Next ==
    \/ EditConfig \/ EditFeature \/ EditFile \/ EndSession
    \/ \E flags \in setting.flags :
          \/ FeatRun(flags) \/ RunStart(flags) \/ RunResume(flags) \/ RunFork(flags)
          \/ \E leash \in BOOLEAN : RunInspect(flags, leash)

Spec == Init /\ [][Next]_vars

-----------------------------------------------------------------------------
\* What does not stay with a run: where its sandbox is put, and the options
\* of profiles.
Elsewhere == {"sandboxBaseDir", "claudeMax"}

Promise == INSTANCE KeptOptions WITH kept <- run.options

\* A run goes on by the options it was given: an edit of the config, of
\* feature.yml, of a script or a policy changes none of them, and a command
\* those it names (mergeArtifactOntoDefaults, mergeDefinedOrchestratorOpts,
\* keepArtifactCedar).
OptionsStick == Promise!Spec

\* In a new run what is baked into the rows is what the run's options say,
\* where feature.yml does not speak to the phases (applyOrchestratorBaseline:
\* "per-phase compilation bakes the right content into every subtask").
RowsAgree ==
    run.status = "running" /\ run.fresh =>
        \A k \in DOMAIN run.row :
            \/ InForce[k] = run.options[k]
            \/ Promise!IsForced(k, run.options)
            \/ feature.phased /\ k \in DOMAIN OfPhases(run.options["codingEnvironment"])
=============================================================================
