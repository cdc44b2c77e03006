----------------------------- MODULE MCPhasedRun -----------------------------
(* The features TLC runs PhasedRun on: every family varies one aspect of a     *)
(* feature of two or three phases.                                             *)
EXTENDS PhasedRun, FiniteSets

Phases == <<"a", "b", "c">>
Critics == <<"x", "y">>
Secrets == [k \in {"PLAIN", "S_TOKEN", "OPENAI_API_KEY", "EMPTY_TOKEN"} |->
               IF k = "EMPTY_TOKEN" THEN "" ELSE "secret"]

File(place, name) == <<place, name>> :> "file"

Specs == [x \in {"a", "b", "c"} \X {"spec.md"} |-> "file"]

Plain == [dirs |-> {"a", "b"}, order |-> <<>>, section |-> FALSE, critics |-> {},
    phase |-> Nothing, inline |-> Nothing, defaults |-> Nothing, top |-> Nothing,
    config |-> Nothing, cli |-> Nothing, subtasksJson |-> FALSE, files |-> Specs,
    variants |-> Nothing, tests |-> {"a", "b", "c", "feature", "project"}, alike |-> TRUE,
    name |-> "feat"]

(* One field, declared in some of the places that may declare it. *)
Declarers == {"phase a", "phase b", "inline a", "defaults", "top", "config", "cli"}

InProject == [x \in {"project"} \X Declarers |-> "file"]

Layered(k, declarers, value(_)) ==
    LET at(d) == IF d \in declarers THEN k :> value(d) ELSE Nothing
    IN  [Plain EXCEPT
           !.phase = ("a" :> at("phase a")) @@ ("b" :> at("phase b")),
           !.inline = "a" :> at("inline a"), !.section = TRUE,
           !.defaults = at("defaults"), !.top = at("top"),
           !.config = at("config"), !.cli = at("cli"),
           !.files = Specs @@ InProject]

Name(d) == d
LlmAs(d) == <<Part("", Model("openai", d))>>
OffInCli(d) == IF d \in {"phase a", "top", "cli"} THEN "false" ELSE "true"
OffInPhases(d) == IF d \in {"phase a", "inline a", "top"} THEN "false" ELSE "true"
EngineOf(d) == CASE d \in {"phase b", "top"} -> "docker" [] d = "cli" -> "helm" [] OTHER -> "local"

\* A second field beside one that a layer declares.
Beside(f, k, k2) ==
    LET with(c) == IF k \in DOMAIN c THEN (k2 :> c[k]) @@ c ELSE c
    IN  {[f EXCEPT !.phase["a"] = with(@)], [f EXCEPT !.phase["b"] = with(@)],
         [f EXCEPT !.top = with(@)], [f EXCEPT !.defaults = with(@)]}

Few == {s \in SUBSET Declarers : Cardinality(s) <= 2}

\* The third phase sets again what the first one does and the second does not.
Alternating ==
    {[Plain EXCEPT !.dirs = {"a", "b", "c"}, !.config = k :> "config",
        !.phase = [p \in {"a", "c"} |-> k :> "phase a"], !.files = Specs @@ InProject] :
        k \in {"agent.script", "agent.install", "container.cedar", "container.image",
               "agent.profile", "test.script"}}

LayeredFeatures ==
    {Layered(k, s, Name) : s \in SUBSET Declarers,
                           k \in {"agent.install", "container.image"}}
    \union {Layered(k, s, Name) : s \in Few,
              k \in {"gate.script", "agent.script", "test.stage-script", "container.startup",
                     "container.cedar", "container.compose-file", "agent.profile",
                     "container.sandbox-profile", "test.script", "test.profile"}}
    \union {Layered("agent.model", s, LlmAs) : s \in Few}
    \union {Layered("agent.reviewer", s, OffInCli) : s \in Few}
    \union {Layered("container.no-leash", s, OffInPhases) : s \in Few}
    \union {Layered("container.engine", s, EngineOf) : s \in Few}
    \union UNION {Beside(Layered("agent.profile", s, Name), "agent.profile", "agent.install") : s \in Few}
    \union UNION {Beside(Layered("container.image", s, Name), "container.image", "container.compose-file") :
                     s \in Few}

(* One script, sought in the phase, the feature and the project. *)
Kinds == {"absent", "file", "dir", "link"}

Sought(k, top, at) ==
    [Plain EXCEPT !.phase = IF top THEN Nothing ELSE "a" :> (k :> "s.sh"),
                  !.top = IF top THEN k :> "s.sh" ELSE Nothing,
                  !.files = Specs @@ [x \in {p \in {"a", "b", "feature", "project"} :
                                        at[p] # "absent"} \X {"s.sh"} |-> at[x[1]]]]

SoughtFeatures ==
    {Sought(k, top, at) : k \in {"container.startup", "test.stage-script", "container.compose-file"},
        top \in BOOLEAN, at \in [{"a", "b", "feature", "project"} -> Kinds]}

(* Critics, tests and the order of three phases. *)
Critic(c, n) == [id |-> c, rounds |-> n]

CriticLists == {<<>>, <<Critic("y", 2), Critic("x", 1)>>, <<Critic("x", 1)>>,
                <<Critic("x", 1), Critic("x", 1)>>, <<Critic("z", 1)>>}

NoTests(ps) == [p \in ps |-> "tests.none" :> "true"]

Ordered ==
    {[Plain EXCEPT !.dirs = d, !.order = o, !.section = (o # <<>>), !.phase = NoTests(n)] :
        d \in {{"a", "b"}, {"a", "b", "c"}, {}},
        n \in SUBSET {"a", "b"},
        o \in {<<>>, <<"b", "a">>, <<"c", "a", "b">>, <<"b", "c", "a">>, <<"a", "b", "a">>}}

Reviewed ==
    {[Plain EXCEPT !.critics = c, !.phase = ("a" :> ("critics" :> own)) @@ NoTests({"b"}),
                   !.top = t] :
        c \in {{"x"}, {"x", "y"}}, own \in CriticLists,
        t \in {Nothing, "critics" :> <<Critic("x", 2)>>}}

(* Restarts between phases in an order that is not that of their names. *)
Reordered ==
    {[Plain EXCEPT !.dirs = {"a", "b", "c"}, !.order = o, !.section = TRUE,
                   !.phase = "a" :> (k :> v)] :
        o \in {<<"b", "a", "c">>, <<"c", "b", "a">>, <<"a", "c", "b">>},
        k \in {"container.image", "agent.profile", "container.sandbox-profile"}, v \in {"own"}}

(* Tests that are merged, some under one and the same name; phases without   *)
(* tests where there are others or none.                                     *)
Tested ==
    {[Plain EXCEPT !.tests = t, !.alike = same, !.name = n, !.phase = NoTests(none)] :
        t \in {{"a", "feature"}, {"b", "project"}, {"a", "b", "feature", "project"}, {"a", "b"}},
        same \in BOOLEAN,
        n \in {"feat", "a", "b", "saifctl"}, none \in SUBSET {"a", "b"}}

Runners ==
    {[Plain EXCEPT !.phase = "b" :> ("test.profile" :> v)] : v \in {"python", Malformed}}

Budgets ==
    {[Plain EXCEPT !.critics = {"x"}, !.top = "limits.max-attempts" :> n,
                   !.phase = "b" :> ("critics" :> list)] :
        n \in 1 .. 5, list \in {<<>>, <<Critic("x", 2)>>}}

(* The models of the agents. *)
Gpt == Part("", Model("openai", "gpt"))
Claude == Part("coder", Model("anthropic", "claude"))
Url(agent) == Part(agent, "url")

Models ==
    {[Plain EXCEPT !.phase = "a" :> a, !.config = c, !.cli = l] :
        a \in {Nothing, "agent.model" :> <<Gpt>>, "agent.model" :> <<Claude, Gpt>>,
               "agent.model" :> <<Part("", Model("", "gpt"))>>,
               "agent.base-url" :> <<Url("reviewer")>>},
        c \in {Nothing, "agent.model" :> <<Claude>>, "agent.base-url" :> <<Url("")>>},
        l \in {Nothing, "agent.model" :> <<Part("reviewer", Model("acme", "judge"))>>,
               "agent.reviewer" :> "false"}}

(* The environment of the agents. *)
Env(layer) ==
    LET maps == [{"A", "LLM_MODEL"} -> {layer}] \union [{"A"} -> {layer}] \union {Nothing}
    IN  {IF v = Nothing THEN m ELSE ("agent.env" :> v) @@ m : v \in maps,
         m \in {Nothing, "agent.secrets" :> {"PLAIN", "S_TOKEN", "OPENAI_API_KEY", "EMPTY_TOKEN"},
                "agent.reviewer" :> "false",
                "agent.options" :> ("edit" :> layer)}}

Environments ==
    {[Plain EXCEPT !.phase = "a" :> pa, !.top = t,
                   !.config = c, !.cli = l] :
        pa \in Env("phase"), t \in {Nothing} \union {"agent.env" :> e : e \in {"B" :> "top"}},
        c \in {Nothing, "agent.env" :> ("A" :> "run"), "agent.secrets" :> {"PLAIN", "EMPTY_TOKEN"}},
        l \in {Nothing, "agent.secret-file" :> [x \in {"A", "PLAIN", "EMPTY_TOKEN"} |-> "from file"]}}
    \union {[Plain EXCEPT !.phase = "a" :> e, !.top = "container.engine" :> "local"] :
        e \in Env("phase")}

(* Specifications that are refused, and what may still be wrong with those *)
(* that are not. *)
Odd == {
    [Plain EXCEPT !.subtasksJson = TRUE],
    [Plain EXCEPT !.inline = "c" :> Nothing, !.section = TRUE],
    [Plain EXCEPT !.top = "tests.enforce" :> "read-only"],
    [Plain EXCEPT !.files = File("a", "spec.md")],
    [Plain EXCEPT !.phase = "b" :> ("spec" :> "own.md"), !.files = Specs @@ File("b", "own.md")],
    [Plain EXCEPT !.top = "spec" :> "own.md"],
    [Plain EXCEPT !.variants = "feature" :> <<"yml", "yaml">>],
    [Plain EXCEPT !.variants = "b" :> <<"yml", "json">>],
    [Plain EXCEPT !.phase = "a" :> ("agent.model" :> <<Gpt, Gpt>>)],
    [Plain EXCEPT !.cli = "agent.model" :> <<Part("nobody", Model("openai", "gpt"))>>],
    [Plain EXCEPT !.phase = "a" :> ("gate.script" :> "../s.sh")],
    [Plain EXCEPT !.phase = "a" :> ("tests.mutable" :> "true")],
    [Plain EXCEPT !.config = "test.profile" :> Malformed],
    [Plain EXCEPT !.top = ("container.cedar" :> "c") @@ ("container.no-leash" :> "true"),
                  !.files = Specs @@ File("feature", "c")],
    [Plain EXCEPT !.top = "container.cedar" :> "c", !.defaults = "container.no-leash" :> "true",
                  !.files = Specs @@ File("feature", "c")]}
    \union {[Plain EXCEPT !.phase = "b" :> (k :> Malformed)] : k \in CompileOnly}

MCFeatures ==
    LayeredFeatures \union Alternating \union SoughtFeatures \union Ordered \union Reviewed
        \union Environments \union Reordered \union Tested \union Runners \union Budgets
        \union Models \union Odd
=============================================================================
