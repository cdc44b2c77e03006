---------------------------- MODULE PhaseConfig ----------------------------
(***************************************************************************)
(* The specification of a feature in phases (specs/phases): the layers of  *)
(* the configuration of a phase, its scripts, and what `feat phases        *)
(* validate` makes of it, errors and announcements.                        *)
(*                                                                         *)
(* A feature f is a record: the directories under phases/ (dirs), the      *)
(* `phases:` section of feature.yml (section, order, inline, defaults),    *)
(* the rest of feature.yml (top), the phase.yml of every phase (phase),    *)
(* the files under critics/ (critics), the scripts on disk (files), and    *)
(* outside of it subtasks.json, saifctl's own config and the command line. *)
(* There are also the extensions under which a configuration file exists   *)
(* (variants), the name of the feature, the places that have tests and     *)
(* whether those have files of one name (alike).                           *)
(* Settings are partial functions of the name of a field.                  *)
(***************************************************************************)
EXTENDS ModelConfig

CONSTANTS
    PhaseNames,   \* the ids of phases, in alphabetical order
    CriticNames   \* the ids of critics, in alphabetical order

-----------------------------------------------------------------------------
(* Discovery and the layers of a phase's configuration *)

\* The names that are there, in their order.
Listed(names, there) ==
    LET listed[n \in 0 .. Len(names)] ==
            IF n = 0 THEN <<>>
            ELSE IF names[n] \in there THEN Append(listed[n - 1], names[n]) ELSE listed[n - 1]
    IN  listed[Len(names)]

DiscoverPhases(f) == Listed(PhaseNames, f.dirs)

DiscoverCritics(f) == Listed(CriticNames, f.critics)

EffectivePhaseOrder(f) == IF f.order # <<>> THEN f.order ELSE DiscoverPhases(f)

Layers(f, p) ==
    <<Get(f.phase, p, Nothing), Get(f.inline, p, Nothing), f.defaults, f.top>>

Declaring(layers, k) == {i \in DOMAIN layers : k \in DOMAIN layers[i]}

FirstDefined(layers, k) == layers[Min(Declaring(layers, k))][k]

PerKey == {"agent.env", "agent.options"}

Merge(layers, k) ==
    LET setting(x) == {i \in Declaring(layers, k) : x \in DOMAIN layers[i][k]}
        keys == UNION {DOMAIN layers[i][k] : i \in Declaring(layers, k)}
    IN  [x \in keys |-> layers[Min(setting(x))][k][x]]

\* The spec is never that of the feature as a whole: it has none.
Resolve(layers, k) == IF k \in PerKey THEN Merge(layers, k) ELSE FirstDefined(layers, k)

\* What no layer declares is left to the run, but for the built-in defaults.
ResolvePhaseConfig(f, p) ==
    LET layers == Layers(f, p)
    IN  [k \in UNION {DOMAIN layers[i] : i \in DOMAIN layers} |-> Resolve(layers, k)]
            ++ BuiltInDefaults

-----------------------------------------------------------------------------
(* Scripts *)

PhaseDirs(p) == <<p, "feature", "project">>

FeatureDirs == <<"feature", "project">>

There(f, dirs, name) == {i \in DOMAIN dirs : <<dirs[i], name>> \in DOMAIN f.files}

\* The first candidate that exists decides, be it no regular file or a link
\* that leads out of the project.
ScriptError(f, dirs, name) ==
    IF There(f, dirs, name) = {} THEN "not found"
    ELSE CASE f.files[dirs[Min(There(f, dirs, name))], name] = "dir" -> "no regular file"
           [] f.files[dirs[Min(There(f, dirs, name))], name] = "link" -> "outside the project"
           [] OTHER -> "none"

ResolvesScript(f, dirs, name) == ScriptError(f, dirs, name) = "none"

Script(f, dirs, name) == <<dirs[Min(There(f, dirs, name))], name>>

Bundled(profile, script) == <<"bundled", profile, script>>

-----------------------------------------------------------------------------
(* Validation *)

ConfigSources(f) == Range(f.phase) \union Range(f.inline) \union {f.defaults, f.top}

CriticRefs(f) == {s["critics"] : s \in {c \in ConfigSources(f) : "critics" \in DOMAIN c}}

\* Mutant: the stage script is not checked.
CheckPhaseScriptPathsNotOfTests(f, p) ==
    LET config == ResolvePhaseConfig(f, p)
    IN  \A k \in (PathFields \ {"test.stage-script"}) \intersect DOMAIN config :
            ResolvesScript(f, PhaseDirs(p), config[k])

CheckPhaseScriptPaths(f, p) ==
    LET config == ResolvePhaseConfig(f, p)
    IN  \A k \in PathFields \intersect DOMAIN config :
            ResolvesScript(f, PhaseDirs(p), config[k])

\* An empty list says that no critic reviews; a list replaces the layers below.
CriticList(f, config) ==
    LET found == DiscoverCritics(f)
    IN  Get(config, "critics", [i \in DOMAIN found |-> [id |-> found[i], rounds |-> 1]])

ValidatePhaseGraph(f) ==
    /\ \A id \in f.dirs \union f.critics : IsId(id)
    /\ ~(f.dirs # {} /\ f.subtasksJson)
    /\ f.section => f.dirs # {}
    /\ Range(f.order) \subseteq f.dirs
    /\ f.order # <<>> => f.dirs \subseteq Range(f.order)
    /\ DOMAIN f.inline \subseteq f.dirs
    /\ \A refs \in CriticRefs(f) :
          /\ \A i \in DOMAIN refs : refs[i].id \in f.critics
          /\ \A i, j \in DOMAIN refs : refs[i].id = refs[j].id => i = j
    /\ \A s \in ConfigSources(f) : Get(s, "tests.enforce", "diff-inspection") # "read-only"

\* Cedar policy and no Leash, in one and the same place.
CheckLockstepRules(s) ==
    ~("container.cedar" \in DOMAIN s /\ Get(s, "container.no-leash", "false") = "true")

\* A file that does not load is an error; the rest is then checked without it.
Loads(f) == LoadFeatureConfig(f) /\ \A p \in f.dirs : LoadPhaseConfig(f, p)

ValidatePhasedFeature(f) ==
    /\ Loads(f)
    /\ ValidatePhaseGraph(f)
    /\ \A s \in ConfigSources(f) : CheckLockstepRules(s) /\ CheckRuntimeSupport(s)
    /\ \A p \in f.dirs :
          /\ <<p, ResolvePhaseConfig(f, p)["spec"]>> \in DOMAIN f.files
          /\ CheckPhaseScriptPaths(f, p)

-----------------------------------------------------------------------------
(* What the report of the validation says beside the errors *)

\* Mutant: the phases are taken in the order of their names.
AdjacentTransitionsByName(f) ==
    LET order == DiscoverPhases(f)
        value(p, k) == {ResolvePhaseConfig(f, p)[x] : x \in {k} \intersect DOMAIN ResolvePhaseConfig(f, p)}
    IN  {<<order[i], order[i + 1], k>> : i \in 1 .. Len(order) - 1,
                                         k \in Level2Fields \union Level3Fields}
          \ {t \in Range(order) \X Range(order) \X (Level2Fields \union Level3Fields) :
                value(t[1], t[3]) = value(t[2], t[3])}

\* The values that differ, as they are written, between neighbouring phases.
CheckAdjacentPhaseTransitions(f) ==
    LET order == EffectivePhaseOrder(f)
        value(p, k) == {ResolvePhaseConfig(f, p)[x] : x \in {k} \intersect DOMAIN ResolvePhaseConfig(f, p)}
    IN  {<<order[i], order[i + 1], k>> : i \in 1 .. Len(order) - 1,
                                         k \in Level2Fields \union Level3Fields}
          \ {t \in Range(order) \X Range(order) \X (Level2Fields \union Level3Fields) :
                value(t[1], t[3]) = value(t[2], t[3])}

CountPhaseSubtasks(list) ==
    LET total[n \in 0 .. Len(list)] ==
            IF n = 0 THEN 1 ELSE total[n - 1] + 2 * list[n].rounds
    IN  total[Len(list)]

\* Phases that cannot afford one failure.
CheckPhaseBudgets(f) ==
    {p \in f.dirs : LET config == ResolvePhaseConfig(f, p)
                    IN  "limits.max-attempts" \in DOMAIN config
                          /\ config["limits.max-attempts"] < CountPhaseSubtasks(CriticList(f, config))}
=============================================================================
