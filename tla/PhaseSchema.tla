---------------------------- MODULE PhaseSchema ----------------------------
(***************************************************************************)
(* What feature.yml and phase.yml may hold and how they are found and read *)
(* (specs/phases/schema.ts, load.ts), and which of their fields the        *)
(* release supports (runtime-support.ts).                                  *)
(*                                                                         *)
(* A configuration is a partial function of the names of fields. The parts *)
(* of a feature are described in PhaseConfig.                              *)
(***************************************************************************)
EXTENDS Naturals, SequencesExt, Layers

Get(m, k, other) == IF k \in DOMAIN m THEN m[k] ELSE other

Nothing == [k \in {} |-> ""]

-----------------------------------------------------------------------------
(* Values *)

\* No name of a phase, a critic or a variable.
IsId(x) == x \notin {"", "No Id", "(group)"}

\* Neither empty nor absolute, and no step up.
IsRelativePath(x) == x \notin {"", "/s.sh", "../s.sh"}

IsEnvVarName(x) == x \notin {"", "1VAR"}

IsCritic(entry) == IsId(entry.id) /\ entry.rounds >= 1

IsEngine(x) == x \in {"docker", "helm", "local"}

-----------------------------------------------------------------------------
(* Fields *)

TestsFields == {"tests.mutable", "tests.fail2pass", "tests.enforce",
    "tests.immutable-files", "tests.none"}

GateFields == {"gate.script", "gate.retries"}

AgentFields == {"agent.profile", "agent.script", "agent.install", "agent.env",
    "agent.secrets", "agent.model", "agent.base-url", "agent.reviewer", "agent.options"}

Level2Container == {"container.startup", "container.cedar", "container.no-leash"}

Level3Fields == {"container.sandbox-profile", "container.image", "container.engine",
    "container.compose-file"}

TestFields == {"test.profile", "test.image", "test.script", "test.stage-script",
    "test.resolve-ambiguity", "test.retries"}

LimitsFields == {"limits.max-attempts"}

Groups == TestsFields \union GateFields \union AgentFields \union Level2Container
             \union Level3Fields \union TestFields \union LimitsFields

PhaseFields == Groups \union {"critics", "spec"}

FeatureFields == Groups \union {"critics"}

PathFields == {"gate.script", "agent.script", "agent.install",
    "container.startup", "container.cedar", "container.compose-file",
    "test.script", "test.stage-script"}

Formed(k, v) ==
    CASE k \in PathFields \union {"spec"} -> IsRelativePath(v)
      [] k = "tests.immutable-files" -> \A glob \in v : IsRelativePath(glob)
      [] k \in {"gate.retries", "test.retries", "limits.max-attempts"} -> v >= 1
      [] k \in {"tests.mutable", "tests.fail2pass", "tests.none", "agent.reviewer",
                "container.no-leash"} -> v \in {"true", "false"}
      [] k = "tests.enforce" -> v \in {"diff-inspection", "read-only"}
      [] k = "test.resolve-ambiguity" -> v \in {"off", "prompt", "ai"}
      [] k = "container.engine" -> IsEngine(v)
      [] k = "critics" -> \A i \in DOMAIN v : IsCritic(v[i])
      [] k = "agent.env" -> \A x \in DOMAIN v : IsEnvVarName(x)
      [] k = "agent.secrets" -> \A x \in v : IsEnvVarName(x)
      [] k \in {"agent.model", "agent.base-url", "agent.options"} -> TRUE
      [] OTHER -> v # ""

\* Strict: an unknown field is an error.
Parses(fields, config) ==
    DOMAIN config \subseteq fields /\ \A k \in DOMAIN config : Formed(k, config[k])

PhasesBlockParses(f) ==
    /\ \A i \in DOMAIN f.order : IsId(f.order[i])
    /\ Parses(PhaseFields, f.defaults)
    /\ \A p \in DOMAIN f.inline : IsId(p) /\ Parses(PhaseFields, f.inline[p])

-----------------------------------------------------------------------------
(* Files *)

\* One of .yml, .yaml and .json: never a choice among them.
FindSingleConfigVariant(f, place) == Len(Get(f.variants, place, <<"yml">>)) <= 1

LoadFeatureConfig(f) ==
    /\ FindSingleConfigVariant(f, "feature")
    /\ Parses(FeatureFields, f.top)
    /\ PhasesBlockParses(f)

LoadPhaseConfig(f, p) ==
    FindSingleConfigVariant(f, p) /\ Parses(PhaseFields, Get(f.phase, p, Nothing))

BuiltInDefaults == [k \in {"spec", "tests.enforce", "tests.none"} |->
    CASE k = "spec" -> "spec.md" [] k = "tests.enforce" -> "diff-inspection" [] OTHER -> "false"]

-----------------------------------------------------------------------------
(* What the release supports *)

Level2Fields == {"agent.profile", "agent.install"} \union Level2Container

KnownPhaseConfigFields ==
    Groups \ {"tests.mutable", "tests.fail2pass", "tests.enforce", "tests.immutable-files",
              "agent.options"}

RuntimeSupportedFields ==
    {"tests.none"} \union GateFields \union (AgentFields \ {"agent.options"})
        \union Level2Fields \union Level3Fields \union TestFields \union LimitsFields

IsFieldRuntimeSupported(k) ==
    k \in KnownPhaseConfigFields => k \in RuntimeSupportedFields

CheckRuntimeSupport(config) == \A k \in DOMAIN config : IsFieldRuntimeSupported(k)
=============================================================================
