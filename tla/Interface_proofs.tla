-------------------------- MODULE Interface_proofs --------------------------
(***************************************************************************)
(* What the user works with: the options of the commands (RunOptions), for *)
(* any configs, features, command lines, files, and numbers of edits and   *)
(* commands; and the runs view (RunsView), for any runs, users, and        *)
(* numbers of answers and events under way.                                *)
(***************************************************************************)
EXTENDS RunOptions, RunsView, SequenceTheorems, WellFoundedInduction, TLAPS

-----------------------------------------------------------------------------
(* What the options r of a run are by                                      *)

ForcedNames == {"dangerousNoLeash", "reviewerEnabled"}

\* The options r of a run are by what the command says and, where that is
\* silent, by what was kept, but for what is forced on an agent on the host.
Honours(r, says, kept) ==
    /\ "codingEnvironment" \in DOMAIN r
    /\ \A k \in DOMAIN says \union (DOMAIN kept \ Elsewhere) :
          /\ k \in DOMAIN r
          /\ \/ r[k] = IF k \in DOMAIN says THEN says[k] ELSE kept[k]
             \/ k \in ForcedNames /\ r[k] = "false" /\ r["codingEnvironment"][1] = "local"

-----------------------------------------------------------------------------
(* Layers *)

LEMMA OverDomain ==
  ASSUME NEW f, NEW g PROVE DOMAIN (f ++ g) = DOMAIN f \union DOMAIN g
BY DEF ++

LEMMA OverValue ==
  ASSUME NEW f, NEW g, NEW k \in DOMAIN f \union DOMAIN g
  PROVE  (f ++ g)[k] = IF k \in DOMAIN f THEN f[k] ELSE g[k]
BY DEF ++

LEMMA OneDomain == ASSUME NEW k, NEW v PROVE DOMAIN (k ::= v) = {k}
BY DEF ::=

LEMMA RestrictDomainIs == ASSUME NEW f, NEW S PROVE DOMAIN Restrict(f, S) = S
BY DEF Restrict

LEMMA RestrictValue ==
  ASSUME NEW f, NEW S, NEW k \in S PROVE Restrict(f, S)[k] = f[k]
BY DEF Restrict

-----------------------------------------------------------------------------
(* What a command says *)

\* The command line names no option of a profile.
LEMMA CliIsOfOptions == ASSUME NEW flags PROVE "claudeMax" \notin DOMAIN Cli(flags)
<1> DEFINE known == Given(flags, "resolveAmbiguity")
      /\ flags["resolveAmbiguity"] \in {"off", "prompt", "ai"}
           plain == DOMAIN flags \ (FlagsOfTheirOwn \union (IF known THEN {} ELSE {"resolveAmbiguity"}))
           one == [k \in Scripts \intersect DOMAIN flags |-> Text(flags[k])]
           two == IF Given(flags, "agentProfileId")
                  THEN [k \in AgentScripts |-> Bundled(flags["agentProfileId"], k)] ELSE Unset
           three == IF Given(flags, "agentEnv")
                    THEN "agentEnv" ::= (flags["agentEnv"] ++ ConfigEnv) ELSE Unset
           four == IF Given(flags, "agentSecretKeys")
                   THEN "agentSecretKeys" ::= (flags["agentSecretKeys"] \union ConfigKeys) ELSE Unset
           five == Restrict(flags, plain)
<1>1. Cli(flags) = one ++ two ++ three ++ four ++ five
  BY DEF Cli
<1>2. "claudeMax" \notin DOMAIN one /\ "claudeMax" \notin DOMAIN two
  BY DEF Scripts, SandboxScripts, AgentScripts, Unset
<1>3. "claudeMax" \notin DOMAIN three
  <2>1. DOMAIN ("agentEnv" ::= (flags["agentEnv"] ++ ConfigEnv)) = {"agentEnv"} BY OneDomain
  <2> QED BY <2>1 DEF Unset
<1>4. "claudeMax" \notin DOMAIN four
  <2>1. DOMAIN ("agentSecretKeys" ::= (flags["agentSecretKeys"] \union ConfigKeys)) = {"agentSecretKeys"}
    BY OneDomain
  <2> QED BY <2>1 DEF Unset
<1>5. "claudeMax" \notin DOMAIN five
  <2>1. DOMAIN five = plain BY RestrictDomainIs
  <2> QED BY <2>1 DEF FlagsOfTheirOwn
<1> HIDE DEF one, two, three, four, five
<1>6. DOMAIN Cli(flags) = DOMAIN one \union DOMAIN two \union DOMAIN three \union DOMAIN four \union DOMAIN five
  <2>1. DOMAIN (one ++ two) = DOMAIN one \union DOMAIN two BY OverDomain
  <2>2. DOMAIN ((one ++ two) ++ three) = DOMAIN (one ++ two) \union DOMAIN three BY OverDomain
  <2>3. DOMAIN (((one ++ two) ++ three) ++ four) = DOMAIN ((one ++ two) ++ three) \union DOMAIN four
    BY OverDomain
  <2>4. DOMAIN Cli(flags) = DOMAIN (((one ++ two) ++ three) ++ four) \union DOMAIN five
    BY <1>1, OverDomain
  <2> QED BY <2>1, <2>2, <2>3, <2>4
<1> QED BY <1>2, <1>3, <1>4, <1>5, <1>6

LEMMA SaysIsOfOptions == ASSUME NEW flags PROVE "claudeMax" \notin DOMAIN Says(flags)
<1> DEFINE cedar == IF "cedarPolicyPath" \in DOMAIN Cli(flags)
                    THEN "cedarScript" ::= CedarText(Cli(flags)["cedarPolicyPath"]) ELSE Unset
<1>1. DOMAIN Says(flags) = DOMAIN Cli(flags) \union DOMAIN EngineOptions(flags) \union DOMAIN cedar
  <2>1. Says(flags) = (Cli(flags) ++ EngineOptions(flags)) ++ cedar BY DEF Says
  <2> HIDE DEF cedar
  <2>2. DOMAIN (Cli(flags) ++ EngineOptions(flags)) = DOMAIN Cli(flags) \union DOMAIN EngineOptions(flags)
    BY OverDomain
  <2>3. DOMAIN ((Cli(flags) ++ EngineOptions(flags)) ++ cedar)
          = DOMAIN (Cli(flags) ++ EngineOptions(flags)) \union DOMAIN cedar
    BY OverDomain
  <2> QED BY <2>1, <2>2, <2>3
<1>2. "claudeMax" \notin DOMAIN cedar BY DEF ::=, Unset
<1>3. "claudeMax" \notin DOMAIN EngineOptions(flags)
  BY DEF EngineOptions, Unset, ++, ::=
<1> QED BY <1>1, <1>2, <1>3, CliIsOfOptions

-----------------------------------------------------------------------------
(* What the options of a run are made of *)

\* Whatever is baked into rows is an option of every new run.
LEMMA BaselineIsWhole == ASSUME NEW cli PROVE BakedInPhases \subseteq DOMAIN Baseline(cli)
<1> DEFINE profiles == Profiles(cli)
           one == [k \in Scripts |-> Pick(k, profiles)]
           two == Images(cli, profiles)
           three == [cedarPolicyPath |-> CedarPath(cli), cedarScript |-> CedarText(CedarPath(cli)),
                     codingEnvironment |-> CodingEnvironment,
                     stagingEnvironment |-> Environment("stagingEnvironment"),
                     agentEnv |-> ConfigEnv, agentSecretKeys |-> ConfigKeys]
           four == Restrict(FeatureValues ++ config ++ Defaults, DOMAIN Defaults)
           five == Restrict(config, Models \intersect DOMAIN config)
<1>1. Baseline(cli) = ((((((profiles ++ one) ++ two) ++ three) ++ four) ++ five) ++ Flags)
  BY DEF Baseline
<1>2. "agentProfileId" \in DOMAIN profiles BY RestrictDomainIs DEF Profiles
<1>3. Scripts \subseteq DOMAIN one OBVIOUS
<1>4. "coderImage" \in DOMAIN two BY DEF Images
<1>5. {"cedarScript", "codingEnvironment"} \subseteq DOMAIN three OBVIOUS
<1>6. "dangerousNoLeash" \in DOMAIN four
  <2>1. DOMAIN four = DOMAIN Defaults BY RestrictDomainIs
  <2> QED BY <2>1 DEF Defaults
<1> HIDE DEF profiles, one, two, three, four, five
<1>7. \A f, g : DOMAIN f \subseteq DOMAIN (f ++ g) /\ DOMAIN g \subseteq DOMAIN (f ++ g)
  BY OverDomain
<1>8. DOMAIN profiles \union DOMAIN one \union DOMAIN two \union DOMAIN three \union DOMAIN four
        \subseteq DOMAIN Baseline(cli)
  <2>1. DOMAIN profiles \union DOMAIN one \subseteq DOMAIN (profiles ++ one) BY <1>7
  <2>2. DOMAIN (profiles ++ one) \union DOMAIN two \subseteq DOMAIN ((profiles ++ one) ++ two) BY <1>7
  <2>3. DOMAIN ((profiles ++ one) ++ two) \union DOMAIN three
          \subseteq DOMAIN (((profiles ++ one) ++ two) ++ three) BY <1>7
  <2>4. DOMAIN (((profiles ++ one) ++ two) ++ three) \union DOMAIN four
          \subseteq DOMAIN ((((profiles ++ one) ++ two) ++ three) ++ four) BY <1>7
  <2>5. DOMAIN ((((profiles ++ one) ++ two) ++ three) ++ four)
          \subseteq DOMAIN (((((profiles ++ one) ++ two) ++ three) ++ four) ++ five) BY <1>7
  <2>6. DOMAIN (((((profiles ++ one) ++ two) ++ three) ++ four) ++ five) \subseteq DOMAIN Baseline(cli)
    BY <1>1, <1>7
  <2> QED BY <2>1, <2>2, <2>3, <2>4, <2>5, <2>6
<1> QED BY <1>2, <1>3, <1>4, <1>5, <1>6, <1>8 DEF BakedInPhases, BakedInPlan, Scripts,
     SandboxScripts, AgentScripts

\* mergeDefinedOrchestratorOpts over options that hold what was kept, and
\* what is forced.
LEMMA MergedHonours ==
  ASSUME NEW says, NEW kept, NEW base, "codingEnvironment" \in DOMAIN base,
         \A k \in DOMAIN kept \ Elsewhere : k \in DOMAIN base /\ base[k] = kept[k]
  PROVE  Honours(Forced(MergeDefinedOrchestratorOpts(base, says)), says, kept)
<1> DEFINE merged == says ++ base
           r == Forced(merged)
           forced == [dangerousNoLeash |-> "false", reviewerEnabled |-> "false"]
<1>1. DOMAIN merged = DOMAIN says \union DOMAIN base BY OverDomain
<1>2. \A k \in DOMAIN says \union DOMAIN base :
         merged[k] = IF k \in DOMAIN says THEN says[k] ELSE base[k]
  BY OverValue
<1>3. MergeDefinedOrchestratorOpts(base, says) = merged BY DEF MergeDefinedOrchestratorOpts
<1>4. r = IF merged["codingEnvironment"][1] = "local" THEN forced ++ merged ELSE merged
  BY DEF Forced
<1>5. DOMAIN forced = ForcedNames /\ \A k \in ForcedNames : forced[k] = "false" BY
        DEF ForcedNames
<1>6. DOMAIN (forced ++ merged) = DOMAIN forced \union DOMAIN merged BY OverDomain
<1>7. \A k \in DOMAIN forced \union DOMAIN merged :
          (forced ++ merged)[k] = IF k \in DOMAIN forced THEN forced[k] ELSE merged[k]
  BY OverValue
<1> HIDE DEF merged, r, forced
<1>8. DOMAIN merged \subseteq DOMAIN r BY <1>4, <1>6
<1>9. \A k \in DOMAIN merged :
          \/ r[k] = merged[k]
          \/ k \in ForcedNames /\ r[k] = "false" /\ merged["codingEnvironment"][1] = "local"
  BY <1>4, <1>5, <1>7
<1>10. r["codingEnvironment"] = merged["codingEnvironment"]
  BY <1>1, <1>9 DEF ForcedNames
<1>11. \A k \in DOMAIN says \union (DOMAIN kept \ Elsewhere) :
          k \in DOMAIN merged /\ merged[k] = IF k \in DOMAIN says THEN says[k] ELSE kept[k]
  BY <1>1, <1>2
<1>12. Honours(r, says, kept)
  BY <1>1, <1>8, <1>9, <1>10, <1>11 DEF Honours
<1> QED BY <1>3, <1>12 DEF r

\* snapshotAgentOptionsForArtifact touches nothing but the profile's option.
LEMMA SerializeKeeps ==
  ASSUME NEW r, NEW option, NEW kept, NEW k \in DOMAIN r, k # "claudeMax"
  PROVE  k \in DOMAIN Serialize(r, option, kept) /\ Serialize(r, option, kept)[k] = r[k]
<1> DEFINE one == "claudeMax" ::= option
           rest == Restrict(kept, {"claudeMax"} \intersect DOMAIN kept)
<1>1. DOMAIN one = {"claudeMax"} BY OneDomain
<1> HIDE DEF one, rest
<1>2. k \in DOMAIN (one ++ r) /\ (one ++ r)[k] = r[k] BY <1>1 DEF ++
<1>3. k \in DOMAIN (r ++ rest) /\ (r ++ rest)[k] = r[k] BY DEF ++
<1> QED BY <1>2, <1>3 DEF Serialize, one, rest

LEMMA SerializedHonours ==
  ASSUME NEW r, NEW says, NEW kept, NEW option, NEW old, Honours(r, says, kept),
         "claudeMax" \notin DOMAIN says
  PROVE  Honours(Serialize(r, option, old), says, kept)
<1> DEFINE o == Serialize(r, option, old)
<1>1. \A k \in DOMAIN r \ {"claudeMax"} : k \in DOMAIN o /\ o[k] = r[k] BY SerializeKeeps
<1> HIDE DEF o
<1>2. o["codingEnvironment"] = r["codingEnvironment"] /\ "codingEnvironment" \in DOMAIN o
  BY <1>1 DEF Honours
<1>3. Honours(o, says, kept) BY <1>1, <1>2 DEF Honours, Elsewhere
<1> QED BY <1>3 DEF o

\* Options that honour what was said and kept keep the promise.
LEMMA HonouredIsKept ==
  ASSUME NEW says, Honours(run'.options, says, run.options), said' = says
  PROVE  Promise!Say
BY DEF Honours, ForcedNames, Promise!Say, Promise!IsForced

-----------------------------------------------------------------------------
(* A run goes on by the options it was given. *)

RunFields == {"status", "options", "row", "infra", "fresh"}

\* The run is a record, and before it is made it has no options.
Shape ==
    /\ run = [f \in RunFields |-> run[f]]
    /\ run.status = "none" => run = NothingStored

LEMMA InitShape == Init => Shape
  BY DEF Init, Shape, NothingStored, RunFields

LEMMA StepKeepsShape == Shape /\ [Next]_vars => Shape'
<1> SUFFICES ASSUME Shape, [Next]_vars PROVE Shape'
  OBVIOUS
<1> USE DEF Shape, RunFields
<1>1. CASE EditConfig \/ EditFeature \/ EditFile \/ UNCHANGED vars
  BY <1>1 DEF EditConfig, EditFeature, EditFile, Idle, vars
<1>2. CASE EndSession BY <1>2 DEF EndSession
<1>3. ASSUME NEW flags, FeatRun(flags) PROVE Shape'
  BY <1>3 DEF FeatRun
<1>4. ASSUME NEW flags, RunStart(flags) PROVE Shape'
  BY <1>4 DEF RunStart, GoesOn
<1>5. ASSUME NEW flags, RunResume(flags) PROVE Shape'
  BY <1>5 DEF RunResume, GoesOn
<1>6. ASSUME NEW flags, RunFork(flags) PROVE Shape'
  BY <1>6 DEF RunFork
<1>7. ASSUME NEW flags, NEW leash, RunInspect(flags, leash) PROVE Shape'
  BY <1>7 DEF RunInspect
<1> QED BY <1>1, <1>2, <1>3, <1>4, <1>5, <1>6, <1>7 DEF Next

LEMMA ResolveNewHonours ==
  ASSUME NEW flags PROVE Honours(ResolveNew(flags), Says(flags), Unset)
<1>1. "codingEnvironment" \in DOMAIN Baseline(Cli(flags)) BY BaselineIsWhole DEF BakedInPhases
<1>2. DOMAIN Unset = {} BY DEF Unset
<1> QED BY <1>1, <1>2, MergedHonours DEF ResolveNew

LEMMA ResolveStoredHonours ==
  ASSUME NEW flags, NEW kept
  PROVE  Honours(ResolveStored(flags, kept), Says(flags), kept)
<1> DEFINE inner == Restrict(kept, DOMAIN kept \ Elsewhere)
           base == MergeArtifactOntoDefaults(kept, Baseline(Cli(flags)))
<1>1. "codingEnvironment" \in DOMAIN Baseline(Cli(flags)) BY BaselineIsWhole DEF BakedInPhases
<1>2. base = inner ++ Baseline(Cli(flags)) BY DEF MergeArtifactOntoDefaults, Elsewhere
<1>3. DOMAIN inner = DOMAIN kept \ Elsewhere
       /\ \A k \in DOMAIN kept \ Elsewhere : inner[k] = kept[k]
  BY RestrictDomainIs, RestrictValue
<1> HIDE DEF inner, base
<1>4. DOMAIN base = DOMAIN inner \union DOMAIN Baseline(Cli(flags)) BY <1>2, OverDomain
<1>5. \A k \in DOMAIN inner : base[k] = inner[k] BY <1>2, OverValue
<1>6. Honours(Forced(MergeDefinedOrchestratorOpts(base, Says(flags))), Says(flags), kept)
  BY <1>1, <1>3, <1>4, <1>5, MergedHonours
<1> QED BY <1>6 DEF ResolveStored, base

\* The command makes the run go on with what was kept, under options that
\* were resolved with it.
LEMMA GoingOnIsKept ==
  ASSUME NEW flags, NEW option, Shape,
         run'.options = Serialize(ResolveStored(flags, run.options), option, run.options),
         said' = Says(flags)
  PROVE  Promise!Say
<1>1. "claudeMax" \notin DOMAIN Says(flags) BY SaysIsOfOptions
<1>2. Honours(run'.options, Says(flags), run.options)
  BY <1>1, ResolveStoredHonours, SerializedHonours
<1> QED BY <1>2, HonouredIsKept

LEMMA StepsKeepPromise ==
  Shape /\ [Next]_vars => [Promise!Say]_<<run.options, said>>
<1> SUFFICES ASSUME Shape, [Next]_vars PROVE  [Promise!Say]_<<run.options, said>>
  OBVIOUS
<1>1. CASE EditConfig \/ EditFeature \/ EditFile \/ UNCHANGED vars
  BY <1>1 DEF EditConfig, EditFeature, EditFile, vars
<1>2. CASE EndSession
  <2>1. run'.options = run.options BY <1>2 DEF EndSession, Shape, RunFields
  <2> QED BY <1>2, <2>1 DEF EndSession
<1>3. ASSUME NEW flags, FeatRun(flags) PROVE Promise!Say
  <2>1. run.options = Unset
    <3>1. run.status = "none" BY <1>3 DEF FeatRun
    <3>2. NothingStored.options = Unset BY DEF NothingStored
    <3> QED BY <3>1, <3>2 DEF Shape
  <2>2. run'.options = Serialize(ResolveNew(flags), OptionOfNew(flags), Unset) BY <1>3
          DEF FeatRun
  <2>3. said' = Says(flags) BY <1>3 DEF FeatRun
  <2>4. "claudeMax" \notin DOMAIN Says(flags) BY SaysIsOfOptions
  <2>5. Honours(run'.options, Says(flags), run.options)
    BY <2>1, <2>2, <2>4, ResolveNewHonours, SerializedHonours
  <2> QED BY <2>3, <2>5, HonouredIsKept
<1>4. ASSUME NEW flags, GoesOn(flags) PROVE Promise!Say
  <2>1. run'.options = Serialize(ResolveStored(flags, run.options), OptionOfStored(run.options), run.options)
    BY <1>4 DEF GoesOn, Shape, RunFields
  <2>2. said' = Says(flags) BY <1>4 DEF GoesOn
  <2> QED BY <2>1, <2>2, GoingOnIsKept
<1>5. ASSUME NEW flags, RunStart(flags)
      PROVE  [Promise!Say]_<<run.options, said>>
  <2>1. CASE GoesOn(flags) BY <2>1, <1>4
  <2>2. CASE ~GoesOn(flags)
    <3>1. run'.options = run.options /\ said' = said
      BY <1>5, <2>2 DEF RunStart, Shape, RunFields
    <3> QED BY <3>1
  <2> QED BY <2>1, <2>2
<1>6. ASSUME NEW flags, RunResume(flags) PROVE Promise!Say
  BY <1>4, <1>6 DEF RunResume
<1>7. ASSUME NEW flags, RunFork(flags) PROVE Promise!Say
  <2>1. run'.options = Serialize(ResolveStored(flags, run.options), "false", run.options)
    BY <1>7 DEF RunFork, Shape, RunFields
  <2>2. said' = Says(flags) BY <1>7 DEF RunFork
  <2> QED BY <2>1, <2>2, GoingOnIsKept
<1>8. ASSUME NEW flags, NEW leash, RunInspect(flags, leash) PROVE Promise!Say
  <2> DEFINE ran == [maxRuns |-> "1", dangerousNoLeash |-> IF leash THEN "false" ELSE "true"]
             resolved == ResolveStored(flags, run.options)
             options == ran ++ resolved
             says == ran ++ Says(flags)
  <2>1. run'.options = Serialize(options, OptionOfStored(run.options), run.options)
          /\ said' = says
    BY <1>8 DEF RunInspect, Shape, RunFields
  <2>2. Honours(resolved, Says(flags), run.options) BY ResolveStoredHonours
  <2>3. "claudeMax" \notin DOMAIN Says(flags) BY SaysIsOfOptions
  <2>4. DOMAIN ran = {"maxRuns", "dangerousNoLeash"} OBVIOUS
  <2> HIDE DEF ran, resolved
  <2>5. /\ DOMAIN options = DOMAIN ran \union DOMAIN resolved
        /\ \A k \in DOMAIN ran \union DOMAIN resolved :
              options[k] = IF k \in DOMAIN ran THEN ran[k] ELSE resolved[k]
    BY DEF ++
  <2>6. /\ DOMAIN says = DOMAIN ran \union DOMAIN Says(flags)
        /\ \A k \in DOMAIN ran \union DOMAIN Says(flags) :
              says[k] = IF k \in DOMAIN ran THEN ran[k] ELSE Says(flags)[k]
    BY OverDomain, OverValue
  <2> HIDE DEF options, says
  <2>7. options["codingEnvironment"] = resolved["codingEnvironment"]
    BY <2>2, <2>4, <2>5 DEF Honours
  <2>8. Honours(options, says, run.options)
    BY <2>2, <2>4, <2>5, <2>6, <2>7 DEF Honours
  <2>9. "claudeMax" \notin DOMAIN says BY <2>3, <2>4, <2>6
  <2>10. Honours(run'.options, says, run.options) BY <2>1, <2>8, <2>9, SerializedHonours
  <2> QED BY <2>1, <2>10, HonouredIsKept
<1> QED BY <1>1, <1>2, <1>3, <1>5, <1>6, <1>7, <1>8 DEF Next

\* Whatever is edited between commands and whatever the commands say, a run
\* goes on by the options it was first given, but for what a command names and
\* what an agent on the host is denied (mergeArtifactOntoDefaults).
THEOREM OptionsAreKept == Spec => OptionsStick
<1>1. Init => Promise!Init
  <2>1. Unset = Promise!Unset BY DEF Unset, Promise!Unset
  <2>2. ASSUME Init PROVE run.options = Unset /\ said = Unset BY <2>2 DEF Init, NothingStored
  <2> QED BY <2>1, <2>2 DEF Promise!Init
<1>2. Shape /\ [Next]_vars => [Promise!Say]_<<run.options, said>>
  BY StepsKeepPromise
<1> QED BY <1>1, <1>2, InitShape, StepKeepsShape, PTL DEF Spec, OptionsStick, Promise!Spec

-----------------------------------------------------------------------------
(* The rows of a new run agree with its options. *)

\* The options that rows are made from are those of the run before anything is
\* forced.
LEMMA NewOptionsAreTheRows ==
  ASSUME NEW flags, NEW option, NEW k \in BakedInPhases
  PROVE  LET plain == MergeDefinedOrchestratorOpts(Baseline(Cli(flags)), Says(flags))
             kept == Serialize(ResolveNew(flags), option, Unset)
         IN  /\ k \in DOMAIN kept
             /\ kept[k] = plain[k] \/ Promise!IsForced(k, kept)
             /\ k = "codingEnvironment" => kept[k] = plain[k]
<1> DEFINE base == Baseline(Cli(flags))
           says == Says(flags)
           plain == MergeDefinedOrchestratorOpts(base, says)
           kept == Serialize(ResolveNew(flags), option, Unset)
<1>1. k \in DOMAIN base /\ "codingEnvironment" \in DOMAIN base BY BaselineIsWhole
        DEF BakedInPhases
<1>2. Honours(ResolveNew(flags), says, base) BY <1>1, MergedHonours DEF ResolveNew
<1>3. "claudeMax" \notin DOMAIN says BY SaysIsOfOptions
<1>4. plain[k] = IF k \in DOMAIN says THEN says[k] ELSE base[k]
  BY <1>1 DEF MergeDefinedOrchestratorOpts, ++
<1> HIDE DEF base, says, plain
<1>5. Honours(kept, says, base) BY <1>2, <1>3, SerializedHonours
<1> HIDE DEF kept
<1>6. k \notin Elsewhere BY DEF BakedInPhases, BakedInPlan, Elsewhere
<1>7. /\ k \in DOMAIN kept
      /\ kept[k] = plain[k] \/ Promise!IsForced(k, kept)
      /\ k = "codingEnvironment" => kept[k] = plain[k]
  BY <1>1, <1>4, <1>5, <1>6 DEF Honours, ForcedNames, Promise!IsForced
<1> QED BY <1>7 DEF kept, plain, base, says

\* The row holds what the options say, or what feature.yml says to its phase.
LEMMA RowIsOfOptions ==
  ASSUME NEW flags, NEW k \in DOMAIN Row(flags)
  PROVE  LET plain == MergeDefinedOrchestratorOpts(Baseline(Cli(flags)), Says(flags))
         IN  \/ feature.phased /\ k \in DOMAIN OfPhases(plain["codingEnvironment"])
             \/ k \in BakedInPhases /\ Row(flags)[k] = plain[k]
<1> DEFINE plain == MergeDefinedOrchestratorOpts(Baseline(Cli(flags)), Says(flags))
           told == OfPhases(plain["codingEnvironment"])
<1>1. Row(flags) = IF feature.phased THEN told ++ Restrict(plain, BakedInPhases)
                   ELSE Restrict(plain, BakedInPlan)
  BY DEF Row
<1> HIDE DEF plain, told
<1>2. CASE feature.phased
  <2>1. Row(flags) = told ++ Restrict(plain, BakedInPhases) BY <1>1, <1>2
  <2>2. DOMAIN Row(flags) = DOMAIN told \union BakedInPhases
    <3>1. DOMAIN Restrict(plain, BakedInPhases) = BakedInPhases BY RestrictDomainIs
    <3> QED BY <2>1, <3>1, OverDomain
  <2>3. k \in DOMAIN told \/ Row(flags)[k] = Restrict(plain, BakedInPhases)[k] BY <2>1, <2>2
          DEF ++
  <2>4. k \in DOMAIN told \/ (k \in BakedInPhases /\ Row(flags)[k] = plain[k])
    BY <2>2, <2>3, RestrictValue
  <2> QED BY <1>2, <2>4 DEF told, plain
<1>3. CASE ~feature.phased
  <2>1. Row(flags) = Restrict(plain, BakedInPlan) BY <1>1, <1>3
  <2>2. k \in BakedInPlan /\ Row(flags)[k] = plain[k] BY <2>1 DEF Restrict
  <2> QED BY <2>2 DEF BakedInPhases, plain
<1> QED BY <1>2, <1>3

\* What feature.yml speaks of to its phases.
Spoken ==
    LET own == DOMAIN feature.defaults \union DOMAIN feature.top
        When(k, option) == IF k \in own THEN {option} ELSE {}
    IN  When("startupScript", "startupScript") \union When("agentInstallScript", "agentInstallScript")
        \union When("cedarPolicyPath", "cedarScript") \union When("agentProfileId", "agentInstallScript")
        \union When("engine", "codingEnvironment") \union When("composeFile", "codingEnvironment")
        \union ({"agentProfileId", "dangerousNoLeash", "coderImage"} \intersect own)

LEMMA SpokenAlways == \A e : DOMAIN OfPhases(e) = Spoken
<1> SUFFICES ASSUME NEW e PROVE DOMAIN OfPhases(e) = Spoken
  OBVIOUS
<1> DEFINE own == feature.defaults ++ feature.top
           text(k) == IF k = "cedarScript" THEN "cedarPolicyPath" ELSE k
           texts == {k \in {"startupScript", "agentInstallScript", "cedarScript"} : text(k) \in DOMAIN own}
           one == [k \in texts |-> Text(own[text(k)])]
           two == IF "agentProfileId" \in DOMAIN own
                  THEN "agentInstallScript" ::= Bundled(own["agentProfileId"], "agentInstallScript") ELSE Unset
           of(k, other) == (own ++ (k ::= other))[k]
           three == IF {"engine", "composeFile"} \intersect DOMAIN own = {} THEN Unset
                    ELSE "codingEnvironment" ::= <<of("engine", e[1]), of("composeFile", e[2])>>
           four == Restrict(own, {"agentProfileId", "dangerousNoLeash", "coderImage"} \intersect DOMAIN own)
<1>1. OfPhases(e) = ((one ++ two) ++ three) ++ four
  BY DEF OfPhases
<1>2. DOMAIN own = DOMAIN feature.defaults \union DOMAIN feature.top BY OverDomain
<1>3. DOMAIN one = texts OBVIOUS
<1>4. DOMAIN four = {"agentProfileId", "dangerousNoLeash", "coderImage"} \intersect DOMAIN own
  BY RestrictDomainIs
<1> HIDE DEF own, of
<1>5. DOMAIN two = IF "agentProfileId" \in DOMAIN own THEN {"agentInstallScript"} ELSE {}
  BY OneDomain DEF Unset
<1>6. DOMAIN three = IF {"engine", "composeFile"} \intersect DOMAIN own = {} THEN {} ELSE {"codingEnvironment"}
  BY OneDomain DEF Unset
<1> HIDE DEF one, two, three, four
<1>7. DOMAIN OfPhases(e) = DOMAIN one \union DOMAIN two \union DOMAIN three \union DOMAIN four
  <2>1. DOMAIN (one ++ two) = DOMAIN one \union DOMAIN two BY OverDomain
  <2>2. DOMAIN ((one ++ two) ++ three) = DOMAIN (one ++ two) \union DOMAIN three BY OverDomain
  <2>3. DOMAIN OfPhases(e) = DOMAIN ((one ++ two) ++ three) \union DOMAIN four BY <1>1,
          OverDomain
  <2> QED BY <2>1, <2>2, <2>3
<1> QED BY <1>2, <1>3, <1>4, <1>5, <1>6, <1>7 DEF Spoken

LEMMA SpokenNext == (\A e : DOMAIN OfPhases(e) = Spoken)'
BY SpokenAlways, PTL

LEMMA NewRowsAgree == ASSUME Shape, NEW flags, FeatRun(flags) PROVE RowsAgree'
<1> DEFINE plain == MergeDefinedOrchestratorOpts(Baseline(Cli(flags)), Says(flags))
           kept == Serialize(ResolveNew(flags), OptionOfNew(flags), Unset)
<1>1. run' = [status |-> "running", row |-> Row(flags), infra |-> "", fresh |-> TRUE, options |-> kept]
  BY DEF FeatRun
<1>2. run'.row = Row(flags) /\ run'.options = kept BY <1>1
<1>3. UNCHANGED <<setting, config, feature, files>> BY DEF FeatRun, Issue, User
<1>6. ASSUME NEW e PROVE DOMAIN OfPhases(run.options["codingEnvironment"])' = DOMAIN OfPhases(e)
  <2>1. (\A a : DOMAIN OfPhases(a) = Spoken)' BY SpokenNext
  <2>2. DOMAIN OfPhases(run.options["codingEnvironment"])' = Spoken' BY <2>1
  <2>3. Spoken' = Spoken BY <1>3 DEF Spoken
  <2> QED BY <2>2, <2>3, SpokenAlways
<1> SUFFICES ASSUME NEW k \in DOMAIN Row(flags)
             PROVE  \/ InForce'[k] = kept[k]
                    \/ Promise!IsForced(k, kept)
                    \/ feature.phased
                         /\ k \in DOMAIN OfPhases(run.options["codingEnvironment"])'
  BY <1>2, <1>3 DEF RowsAgree, Promise!IsForced
<1>4. CASE feature.phased /\ k \in DOMAIN OfPhases(plain["codingEnvironment"])
  BY <1>4, <1>6
<1>5. CASE k \in BakedInPhases /\ Row(flags)[k] = plain[k]
  <2>1. /\ k \in DOMAIN kept
        /\ kept[k] = plain[k] \/ Promise!IsForced(k, kept)
        /\ k = "codingEnvironment" => kept[k] = plain[k]
    BY <1>5, NewOptionsAreTheRows
  <2>2. k # "codingEnvironment" => InForce'[k] = Row(flags)[k]
    BY <1>2, <2>1 DEF InForce
  <2>3. k = "codingEnvironment" => InForce'[k] = kept[k]
    <3>1. \A e : ActiveEnvironment(e, e) = e BY DEF ActiveEnvironment
    <3>2. k = "codingEnvironment" => InForce'[k] = ActiveEnvironment(Row(flags)[k], kept[k])
      BY <1>2, <2>1 DEF InForce
    <3> QED BY <1>5, <2>1, <3>1, <3>2
  <2> QED BY <1>5, <2>1, <2>2, <2>3
<1> QED BY <1>4, <1>5, RowIsOfOptions

LEMMA StepKeepsRows == Shape /\ RowsAgree /\ [Next]_vars => RowsAgree'
<1> SUFFICES ASSUME Shape, RowsAgree, [Next]_vars PROVE RowsAgree'
  OBVIOUS
<1>1. CASE UNCHANGED vars
  <2> DEFINE ofPhases == OfPhases(run.options["codingEnvironment"])
  <2>1. UNCHANGED <<feature, files, run>> BY <1>1 DEF vars
  <2>2. InForce' = InForce BY <2>1 DEF InForce
  <2>3. ofPhases' = ofPhases BY <2>1 DEF OfPhases, Text
  <2> HIDE DEF ofPhases
  <2>4. ASSUME NEW k, Promise!IsForced(k, run.options) PROVE Promise!IsForced(k, run.options)'
    BY <2>1, <2>4 DEF Promise!IsForced
  <2>5. RowsAgree <=> (run.status = "running" /\ run.fresh =>
                         \A k \in DOMAIN run.row :
                            \/ InForce[k] = run.options[k]
                            \/ Promise!IsForced(k, run.options)
                            \/ feature.phased /\ k \in DOMAIN ofPhases)
    BY DEF RowsAgree, ofPhases
  <2>6. RowsAgree' <=> (run'.status = "running" /\ run'.fresh =>
                         \A k \in DOMAIN run'.row :
                            \/ InForce'[k] = run'.options[k]
                            \/ Promise!IsForced(k, run.options)'
                            \/ feature'.phased /\ k \in DOMAIN ofPhases')
    BY DEF RowsAgree, ofPhases
  <2> QED BY <2>1, <2>2, <2>3, <2>4, <2>5, <2>6
<1>2. ASSUME run'.status # "running" \/ ~run'.fresh PROVE RowsAgree'
  BY <1>2 DEF RowsAgree
<1>3. CASE EditConfig \/ EditFeature \/ EditFile
  BY <1>2, <1>3 DEF EditConfig, EditFeature, EditFile, Idle
<1>4. CASE EndSession BY <1>2, <1>4 DEF EndSession, Shape, RunFields
<1>5. ASSUME NEW flags, RunStart(flags) \/ RunResume(flags) PROVE RowsAgree'
  BY <1>2, <1>5 DEF RunStart, RunResume, GoesOn, Shape, RunFields
<1>6. ASSUME NEW flags, RunFork(flags) PROVE RowsAgree'
  BY <1>2, <1>6 DEF RunFork, Shape, RunFields
<1>7. ASSUME NEW flags, NEW leash, RunInspect(flags, leash) PROVE RowsAgree'
  BY <1>2, <1>7 DEF RunInspect, Shape, RunFields
<1> QED BY <1>1, <1>3, <1>4, <1>5, <1>6, <1>7, NewRowsAgree DEF Next

\* Whatever config, feature.yml and command line say, the rows of a new run hold
\* what its options say, but for what feature.yml tells its phases and what is
\* forced (applyOrchestratorBaseline).
THEOREM NewRunsAgree == Spec => []RowsAgree
<1>1. ASSUME Init PROVE RowsAgree
  <2>1. run.status = "none" BY <1>1 DEF Init, NothingStored
  <2> QED BY <2>1 DEF RowsAgree
<1> QED BY <1>1, InitShape, StepKeepsShape, StepKeepsRows, PTL DEF Spec

-----------------------------------------------------------------------------
(* The runs view: a live run is followed *)

\* The boost lasts as long as an optimistic status does; what is listed has a
\* status.
Followed ==
    /\ \A r \in DOMAIN overlay :
          /\ {"display", "prev", "young"} \subseteq DOMAIN overlay[r]
          /\ overlay[r].young => boost
    /\ \A l \in lists : \A r \in DOMAIN l.rows : "status" \in DOMAIN l.rows[r]
    /\ FollowedWhileLive

LEMMA FollowedAtFirst == ViewInit => Followed
BY DEF ViewInit, ChatInit, Followed, FollowedWhileLive, NoInfos

\* Events of the tree change neither rows nor lists, and whatever is shown
\* optimistically renews the boost.
LEMMA FiredIsFollowed ==
    ASSUME Followed, UNCHANGED <<rows, lists, timer, gaveUp>>,
           \/ Refreshes /\ UNCHANGED <<overlay, boost>>
           \/ Kicks /\ UNCHANGED overlay
           \/ \E r, display, previous : Overlays(r, display, previous)
    PROVE  Followed'
<1>1. dirty' = TRUE BY DEF Overlays, Kicks, Refreshes, Fires
<1>2. boost => boost' BY DEF Overlays, Kicks
<1>3. ASSUME NEW x \in DOMAIN overlay'
      PROVE  \/ x \in DOMAIN overlay /\ overlay'[x] = overlay[x]
             \/ {"display", "prev", "young"} \subseteq DOMAIN overlay'[x] /\ boost'
  <2>1. CASE UNCHANGED overlay BY <2>1, <1>3
  <2>2. CASE \E r, display, previous : Overlays(r, display, previous)
    <3>1. PICK r, display, previous : Overlays(r, display, previous) BY <2>2
    <3>2. overlay' = [y \in DOMAIN overlay \union {r} |->
                        IF y = r THEN [display |-> display, prev |-> previous, young |-> TRUE]
                        ELSE overlay[y]]
          /\ boost'
      BY <3>1 DEF Overlays, Kicks
    <3> QED BY <1>3, <3>2
  <2> QED BY <2>1, <2>2
<1> QED BY <1>1, <1>2, <1>3 DEF Followed, FollowedWhileLive

\* What a list shows as live is listed as live, or shown by an optimistic
\* status, which the boost outlasts.
LEMMA LandedIsFollowed ==
    ASSUME Followed, NEW l \in lists, ListLands(l.rows)
    PROVE  Followed'
<1>1. /\ rows' = Merged(l.rows) /\ timer' = Polls(l.rows) /\ UNCHANGED boost
      /\ lists' = lists \ {Listing("answered", l.rows)}
      /\ overlay' = [r \in {x \in DOMAIN overlay : x \in DOMAIN l.rows => KeepsOverlay(l.rows, x)}
                       |-> overlay[r]]
  BY DEF ListLands
<1>2. \A r \in DOMAIN overlay' : r \in DOMAIN overlay /\ overlay'[r] = overlay[r] BY <1>1
<1>3. ASSUME NEW r \in DOMAIN rows', rows'[r].status \in Live PROVE timer'
  <2>1. r \in DOMAIN l.rows /\ "status" \in DOMAIN l.rows[r]
    BY <1>1, <1>3 DEF Merged, Followed
  <2>2. rows'[r].status = IF KeepsOverlay(l.rows, r) THEN overlay[r].display ELSE l.rows[r].status
    BY <1>1, <2>1 DEF Merged
  <2>3. KeepsOverlay(l.rows, r) => boost BY DEF Followed, KeepsOverlay
  <2> QED BY <1>1, <1>3, <2>1, <2>2, <2>3 DEF Polls
<1> QED BY <1>1, <1>2, <1>3 DEF Followed, FollowedWhileLive

LEMMA ListsAreFollowed == ASSUME Followed, Lists PROVE Followed'
<1>1. CASE ListAsks
  <2> DEFINE new == Listing("asked", NoInfos)
  <2>1. \A r \in DOMAIN new.rows : FALSE BY DEF Listing, NoInfos
  <2> HIDE DEF new
  <2>2. lists' = lists \union {new} /\ UNCHANGED <<rows, overlay, boost>>
    BY <1>1 DEF ListAsks, new
  <2>3. lists' # {} /\ \A l \in lists' : l = new \/ l \in lists BY <2>2
  <2> QED BY <2>1, <2>2, <2>3 DEF Followed, FollowedWhileLive
<1>2. CASE ListReads
  <2>1. PICK got \in {Listing("answered", Listed), Listing("failed", NoInfos),
                      Listing("answered", NoInfos)} :
           lists' = (lists \ {Listing("asked", NoInfos)}) \union {got}
    BY <1>2 DEF ListReads
  <2>2. \A r \in DOMAIN got.rows : "status" \in DOMAIN got.rows[r]
    BY <2>1 DEF Listing, Listed, NoInfos
  <2>3. UNCHANGED <<rows, overlay, boost>> BY <1>2 DEF ListReads
  <2>4. lists' # {} BY <2>1
  <2>5. \A l \in lists' : l = got \/ l \in lists BY <2>1
  <2> QED BY <2>2, <2>3, <2>4, <2>5 DEF Followed, FollowedWhileLive
<1>3. CASE ListFails BY <1>3 DEF ListFails, Followed, FollowedWhileLive
<1>4. CASE TimerFires
  <2>1. dirty' = TRUE /\ UNCHANGED <<rows, overlay, boost, lists>> BY <1>4 DEF TimerFires, Fires
  <2> QED BY <2>1 DEF Followed, FollowedWhileLive
<1>5. CASE BoostEnds
  <2>1. \A r \in DOMAIN overlay : ~overlay[r].young
    BY <1>5 DEF BoostEnds, PollBoost, OptimisticTtl
  <2>2. UNCHANGED <<rows, overlay, lists, timer, dirty, gaveUp>> BY <1>5 DEF BoostEnds
  <2> QED BY <2>1, <2>2 DEF Followed, FollowedWhileLive
<1>6. CASE \E l \in lists : l.state = "answered" /\ ListLands(l.rows)
  BY <1>6, LandedIsFollowed
<1>7. CASE \E r \in DOMAIN overlay : StatusGetsOld(r)
  <2>1. PICK r \in DOMAIN overlay : overlay' = [overlay EXCEPT ![r].young = FALSE]
    BY <1>7 DEF StatusGetsOld
  <2>2. UNCHANGED <<rows, boost, lists, timer, dirty, gaveUp>> BY <1>7 DEF StatusGetsOld
  <2>3. overlay' = [x \in DOMAIN overlay |->
                      IF x = r THEN [overlay[r] EXCEPT !.young = FALSE] ELSE overlay[x]]
    BY <2>1
  <2>4. ASSUME NEW x \in DOMAIN overlay'
        PROVE  /\ {"display", "prev", "young"} \subseteq DOMAIN overlay'[x]
               /\ overlay'[x].young => boost
    <3>1. x \in DOMAIN overlay BY <2>3, <2>4
    <3>2. CASE x = r
      <4>1. overlay'[x] = [overlay[r] EXCEPT !.young = FALSE] BY <2>3, <3>1, <3>2
      <4>2. "young" \in DOMAIN overlay[r] BY DEF Followed
      <4>3. DOMAIN overlay'[x] = DOMAIN overlay[r] /\ ~overlay'[x].young BY <4>1, <4>2
      <4> QED BY <4>3 DEF Followed
    <3>3. CASE x # r BY <2>3, <3>1, <3>3 DEF Followed
    <3> QED BY <3>2, <3>3
  <2> QED BY <2>2, <2>4 DEF Followed, FollowedWhileLive
<1> QED BY <1>1, <1>2, <1>3, <1>4, <1>5, <1>6, <1>7 DEF Lists

LEMMA MenuIsFollowed == ASSUME Followed, Menu PROVE Followed'
<1>0. CASE SetFilter
  <2>1. dirty' = TRUE /\ UNCHANGED <<rows, overlay, boost, lists>> BY <1>0 DEF SetFilter, Fires
  <2> QED BY <2>1 DEF Followed, FollowedWhileLive
<1>1. CASE RefreshRuns BY <1>1, FiredIsFollowed DEF RefreshRuns
<1>2. ASSUME NEW r, StartRun(r) \/ ResumeRun(r) PROVE Followed'
  <2>1. \E display, previous : Overlays(r, display, previous)
    BY <1>2 DEF StartRun, ResumeRun
  <2>2. UNCHANGED <<rows, lists, timer, gaveUp>> BY <1>2 DEF StartRun, ResumeRun
  <2> QED BY <2>1, <2>2, FiredIsFollowed
<1>3. ASSUME NEW r, InspectRun(r) PROVE Followed'
  BY <1>3, FiredIsFollowed DEF InspectRun
<1>4. ASSUME NEW c, CommandEnds(c) PROVE Followed'
  <2>1. \/ \E display : Overlays(c.run, display, c.prev)
        \/ Refreshes /\ UNCHANGED <<overlay, boost>>
    BY <1>4 DEF CommandEnds
  <2>2. UNCHANGED <<rows, lists, timer, gaveUp>> BY <1>4 DEF CommandEnds
  <2> QED BY <2>1, <2>2, FiredIsFollowed
<1>5. ASSUME NEW r, Expand(r) \/ OpenChat(r) \/ CommandAsks(r) PROVE Followed'
  <2>1. UNCHANGED <<rows, overlay, boost, timer, dirty, lists, gaveUp>>
    BY <1>5 DEF Expand, OpenChat, CommandAsks, tree
  <2> QED BY <2>1 DEF Followed, FollowedWhileLive
<1>6. ASSUME NEW c, CommandRuns(c) \/ CommandFails(c) PROVE Followed'
  <2>1. UNCHANGED <<rows, overlay, boost, timer, dirty, lists, gaveUp>>
    BY <1>6 DEF CommandRuns, CommandFails
  <2> QED BY <2>1 DEF Followed, FollowedWhileLive
<1> QED BY <1>0, <1>1, <1>2, <1>3, <1>4, <1>5, <1>6 DEF Menu

\* Whatever is listed, cached and shown, and in whichever order answers come, a
\* run shown as live is listed again.
THEOREM LiveRunsAreFollowed == ViewSpec => []FollowedWhileLive
<1>1. ViewInit => Followed BY FollowedAtFirst
<1>2. Followed /\ [ViewNext]_view => Followed'
  <2> SUFFICES ASSUME Followed, [ViewNext]_view PROVE Followed' OBVIOUS
  <2>1. CASE UNCHANGED tree BY <2>1 DEF tree, Followed, FollowedWhileLive
  <2>2. CASE \E r \in DOMAIN stored : RunMoves(r) BY <2>1, <2>2 DEF RunMoves
  <2> QED BY <2>1, <2>2, ListsAreFollowed, MenuIsFollowed DEF ViewNext, view
<1>3. Followed => FollowedWhileLive BY DEF Followed
<1> QED BY <1>1, <1>2, <1>3, PTL DEF ViewSpec

-----------------------------------------------------------------------------
(* Recursive functions on the natural numbers *)

LEMMA Induct ==
    ASSUME NEW S, 0 \in S, \A n \in Nat : n \in S => n + 1 \in S
    PROVE  Nat \subseteq S
<1> DEFINE bad == {n \in Nat : n \notin S}
           R == {r \in Nat \X Nat : r[1] < r[2]}
<1> SUFFICES ASSUME bad # {} PROVE FALSE OBVIOUS
<1>1. IsWellFoundedOn(R, Nat)
  <2>1. R = OpToRel(<, Nat) BY DEF OpToRel
  <2> QED BY <2>1, NatLessThanWellFounded
<1>2. bad \subseteq Nat OBVIOUS
<1> HIDE DEF R
<1>3. PICK x \in bad : \A y \in bad : ~ (<<y, x>> \in R) BY <1>1, <1>2, WFMin
<1>4. x # 0 /\ x \in Nat OBVIOUS
<1>5. x - 1 \in Nat /\ x - 1 < x /\ (x - 1) + 1 = x BY <1>4
<1>6. <<x - 1, x>> \in R BY <1>4, <1>5 DEF R
<1>7. x - 1 \in S BY <1>3, <1>5, <1>6
<1> QED BY <1>5, <1>7

\* f is made from b in N steps.
Made(f, N, X, b, step) ==
    /\ f \in [0 .. N -> X] /\ f[0] = b
    /\ \A n \in 1 .. N : f[n] = step[<<f[n - 1], n>>]

\* There is a function for every way to make the next value from the last.
LEMMA Recursion ==
    ASSUME NEW N \in Nat, NEW X, NEW b \in X, NEW step \in [X \X (1 .. N) -> X]
    PROVE  \E f : Made(f, N, X, b, step)
<1> DEFINE S == {k \in Nat : k <= N => \E f : Made(f, k, X, b, step)}
<1>1. 0 \in S
  <2>1. Made([n \in 0 .. 0 |-> b], 0, X, b, step) BY DEF Made
  <2> QED BY <2>1
<1>2. ASSUME NEW k \in Nat, k \in S PROVE k + 1 \in S
  <2> SUFFICES ASSUME k + 1 <= N PROVE \E f : Made(f, k + 1, X, b, step) OBVIOUS
  <2>1. PICK f : Made(f, k, X, b, step) BY <1>2
  <2> DEFINE g == [n \in 0 .. k + 1 |-> IF n <= k THEN f[n] ELSE step[<<f[k], k + 1>>]]
  <2>2. f[k] \in X /\ k + 1 \in 1 .. N BY <2>1 DEF Made
  <2>3. step[<<f[k], k + 1>>] \in X BY <2>2
  <2>4. g \in [0 .. k + 1 -> X] BY <2>1, <2>3 DEF Made
  <2>5. \A n \in 0 .. k : g[n] = f[n] OBVIOUS
  <2>6. g[k + 1] = step[<<f[k], k + 1>>] OBVIOUS
  <2>7. ASSUME NEW n \in 1 .. k + 1 PROVE g[n] = step[<<g[n - 1], n>>]
    <3> HIDE DEF g
    <3>1. CASE n = k + 1 BY <2>5, <2>6, <3>1
    <3>2. CASE n # k + 1
      <4>1. n \in 1 .. k /\ n - 1 \in 0 .. k /\ n \in 0 .. k BY <3>2
      <4>2. f[n] = step[<<f[n - 1], n>>] BY <2>1, <4>1 DEF Made
      <4>3. g[n] = f[n] /\ g[n - 1] = f[n - 1] BY <2>5, <4>1
      <4> QED BY <4>2, <4>3
    <3> QED BY <3>1, <3>2
  <2>8. g[0] = b BY <2>1 DEF Made
  <2>9. Made(g, k + 1, X, b, step) BY <2>4, <2>7, <2>8 DEF Made
  <2> QED BY <2>9
<1>3. Nat \subseteq S
  <2> HIDE DEF S
  <2> QED BY <1>1, <1>2, Induct
<1> QED BY <1>3

-----------------------------------------------------------------------------
(* Sequences *)

LEMMA ConcatRange ==
    ASSUME NEW X, NEW s \in Seq(X), NEW t \in Seq(X)
    PROVE  s \o t \in Seq(X) /\ Range(s \o t) = Range(s) \union Range(t)
BY ConcatProperties, RangeConcatenation

LEMMA OneRange == ASSUME NEW X, NEW e \in X PROVE <<e>> \in Seq(X) /\ Range(<<e>>) = {e}
<1>1. <<e>> \in Seq(X) OBVIOUS
<1>2. DOMAIN <<e>> = {1} /\ <<e>>[1] = e OBVIOUS
<1> QED BY <1>1, <1>2 DEF Range

LEMMA AppendedRange ==
    ASSUME NEW X, NEW s \in Seq(X), NEW e \in X
    PROVE  Append(s, e) \in Seq(X) /\ Range(Append(s, e)) = Range(s) \union {e}
<1>1. PICK u \in Seq(X) : u = <<e>> /\ Range(u) = {e} BY OneRange
<1>2. Append(s, e) = s \o u BY <1>1, AppendIsConcat
<1>3. s \o u \in Seq(X) /\ Range(s \o u) = Range(s) \union Range(u) BY ConcatRange
<1> QED BY <1>1, <1>2, <1>3

\* The two parts of a sequence.
LEMMA PartsRange ==
    ASSUME NEW X, NEW s \in Seq(X), NEW i \in 1 .. Len(s) + 1
    PROVE  /\ SubSeq(s, 1, i - 1) \in Seq(X) /\ SubSeq(s, i, Len(s)) \in Seq(X)
           /\ Range(SubSeq(s, 1, i - 1)) \union Range(SubSeq(s, i, Len(s))) = Range(s)
           /\ Len(SubSeq(s, 1, i - 1)) = i - 1 /\ Len(SubSeq(s, i, Len(s))) = Len(s) + 1 - i
<1> DEFINE a == SubSeq(s, 1, i - 1)
           b == SubSeq(s, i, Len(s))
<1>1. Len(s) \in Nat /\ DOMAIN s = 1 .. Len(s) /\ \A j \in 1 .. Len(s) : s[j] \in X
  BY LenProperties, ElementOfSeq
<1>2. /\ a \in Seq(X) /\ Len(a) = i - 1 /\ \A j \in 1 .. i - 1 : a[j] = s[j]
  <2>1. 1 \in Int /\ i - 1 \in Int /\ \A j \in 1 .. i - 1 : s[j] \in X BY <1>1
  <2>2. /\ a \in Seq(X) /\ Len(a) = IF 1 <= i - 1 THEN i - 1 - 1 + 1 ELSE 0
        /\ \A j \in 1 .. i - 1 - 1 + 1 : a[j] = s[1 + j - 1]
    BY <2>1, SubSeqProperties
  <2> QED BY <1>1, <2>2
<1>3. /\ b \in Seq(X) /\ Len(b) = Len(s) + 1 - i
      /\ \A j \in 1 .. Len(s) + 1 - i : b[j] = s[i + j - 1]
  <2>1. i \in Int /\ Len(s) \in Int /\ \A j \in i .. Len(s) : s[j] \in X BY <1>1
  <2>2. /\ b \in Seq(X) /\ Len(b) = IF i <= Len(s) THEN Len(s) - i + 1 ELSE 0
        /\ \A j \in 1 .. Len(s) - i + 1 : b[j] = s[i + j - 1]
    BY <2>1, SubSeqProperties
  <2> QED BY <1>1, <2>2
<1> HIDE DEF a, b
<1>4. DOMAIN a = 1 .. i - 1 /\ DOMAIN b = 1 .. Len(s) + 1 - i BY <1>2, <1>3, LenProperties
<1>5. ASSUME NEW j \in DOMAIN s PROVE s[j] \in Range(a) \union Range(b)
  <2>1. CASE j < i
    <3>1. j \in DOMAIN a /\ a[j] = s[j] BY <1>1, <1>2, <1>4, <2>1
    <3> QED BY <3>1 DEF Range
  <2>2. CASE ~(j < i)
    <3>1. j + 1 - i \in 1 .. Len(s) + 1 - i /\ i + (j + 1 - i) - 1 = j BY <1>1, <2>2
    <3>2. j + 1 - i \in DOMAIN b /\ b[j + 1 - i] = s[j] BY <1>3, <1>4, <3>1
    <3> QED BY <3>2 DEF Range
  <2> QED BY <2>1, <2>2
<1>6. ASSUME NEW j \in DOMAIN a PROVE a[j] \in Range(s)
  <2>1. j \in DOMAIN s /\ a[j] = s[j] BY <1>1, <1>2, <1>4
  <2> QED BY <2>1 DEF Range
<1>7. ASSUME NEW j \in DOMAIN b PROVE b[j] \in Range(s)
  <2>1. i + j - 1 \in DOMAIN s /\ b[j] = s[i + j - 1] BY <1>1, <1>3, <1>4
  <2> QED BY <2>1 DEF Range
<1>8. Range(a) \union Range(b) = Range(s) BY <1>5, <1>6, <1>7 DEF Range
<1> QED BY <1>2, <1>3, <1>8 DEF a, b

\* A tab that is dragged elsewhere is still there, as are the others.
LEMMA MovedRange ==
    ASSUME NEW X, NEW s \in Seq(X), NEW from \in DOMAIN s, NEW to \in DOMAIN s
    PROVE  Moved(s, from, to) \in Seq(X) /\ Range(Moved(s, from, to)) = Range(s)
<1>1. Len(s) \in Nat /\ DOMAIN s = 1 .. Len(s) /\ s[from] \in X BY LenProperties, ElementOfSeq
<1>2. PICK e \in X, u \in Seq(X) : e = s[from] /\ u = <<e>> /\ Range(u) = {e}
  BY <1>1, OneRange
<1>3. PICK a \in Seq(X), b \in Seq(X) :
         /\ a = SubSeq(s, 1, from - 1) /\ b = SubSeq(s, from, Len(s))
         /\ Range(a) \union Range(b) = Range(s) /\ Len(a) = from - 1
  <2>1. from \in 1 .. Len(s) + 1 BY <1>1
  <2>2. /\ SubSeq(s, 1, from - 1) \in Seq(X) /\ SubSeq(s, from, Len(s)) \in Seq(X)
        /\ Range(SubSeq(s, 1, from - 1)) \union Range(SubSeq(s, from, Len(s))) = Range(s)
        /\ Len(SubSeq(s, 1, from - 1)) = from - 1
    BY <2>1, PartsRange, Zenon
  <2> QED BY <2>2, Zenon
<1>4. PICK rest \in Seq(X) : rest = SubSeq(s, from + 1, Len(s)) /\ Len(rest) = Len(s) - from
  <2>1. from + 1 \in 1 .. Len(s) + 1 /\ Len(s) + 1 - (from + 1) = Len(s) - from BY <1>1
  <2> QED BY <2>1, PartsRange
<1>5. b = u \o rest
  <2>1. from \in 1 .. Len(s) /\ Len(s) \in from .. Len(s) BY <1>1
  <2>2. SubSeq(s, from, Len(s)) = <<s[from]>> \o SubSeq(s, from + 1, Len(s))
    BY <2>1, SubSeqRecursiveFirst, Zenon
  <2> QED BY <1>2, <1>3, <1>4, <2>2
<1>6. Range(b) = {e} \union Range(rest)
  <2>1. Range(u \o rest) = Range(u) \union Range(rest) BY ConcatRange
  <2> QED BY <1>2, <1>5, <2>1
<1>7. PICK t \in Seq(X) : t = a \o rest /\ Range(t) = Range(a) \union Range(rest)
  <2>1. a \o rest \in Seq(X) /\ Range(a \o rest) = Range(a) \union Range(rest) BY ConcatRange
  <2> QED BY <2>1
<1>8. t = RemoveAt(s, from) BY <1>3, <1>4, <1>7 DEF RemoveAt
<1>9. to \in 1 .. Len(t) + 1
  <2>1. Len(a \o rest) = Len(a) + Len(rest) BY ConcatProperties
  <2> QED BY <1>1, <1>3, <1>4, <1>7, <2>1
<1>10. PICK c \in Seq(X), d \in Seq(X) :
          /\ c = SubSeq(t, 1, to - 1) /\ d = SubSeq(t, to, Len(t))
          /\ Range(c) \union Range(d) = Range(t)
  <2>1. /\ SubSeq(t, 1, to - 1) \in Seq(X) /\ SubSeq(t, to, Len(t)) \in Seq(X)
        /\ Range(SubSeq(t, 1, to - 1)) \union Range(SubSeq(t, to, Len(t))) = Range(t)
    BY <1>9, PartsRange, Zenon
  <2> QED BY <2>1, Zenon
<1>11. Moved(s, from, to) = (c \o u) \o d BY <1>2, <1>8, <1>10 DEF Moved, InsertAt
<1>12. PICK g \in Seq(X) : g = c \o u /\ Range(g) = Range(c) \union {e}
  <2>1. c \o u \in Seq(X) /\ Range(c \o u) = Range(c) \union Range(u) BY ConcatRange
  <2> QED BY <1>2, <2>1
<1>13. g \o d \in Seq(X) /\ Range(g \o d) = Range(g) \union Range(d) BY ConcatRange
<1>14. Moved(s, from, to) = g \o d BY <1>11, <1>12
<1>15. Range(g \o d) = Range(s)
  <2>1. Range(g \o d) = Range(t) \union {e} BY <1>10, <1>12, <1>13
  <2> QED BY <1>3, <1>6, <1>7, <2>1
<1> QED BY <1>13, <1>14, <1>15

\* A filter takes one element after the other.
Filters(h, s, S) ==
    /\ h[0] = <<>> /\ h[Len(s)] = Filtered(s, S)
    /\ \A n \in 1 .. Len(s) : h[n] = IF s[n] \in S THEN Append(h[n - 1], s[n]) ELSE h[n - 1]

LEMMA FilteredMade ==
    ASSUME NEW X, NEW s \in Seq(X), NEW S
    PROVE  \E h : Filters(h, s, S)
<1>1. PICK N \in Nat : N = Len(s) /\ DOMAIN s = 1 .. N BY LenProperties
<1> DEFINE One(t, n) == IF s[n] \in S THEN Append(t, s[n]) ELSE t
           step == [z \in Seq(X) \X (1 .. N) |-> One(z[1], z[2])]
           Body(g) == [n \in 0 .. N |-> IF n = 0 THEN <<>>
                                        ELSE IF s[n] \in S THEN Append(g[n - 1], s[n]) ELSE g[n - 1]]
<1>2. \A n \in 1 .. N : s[n] \in X BY <1>1, ElementOfSeq
<1>3. \A t \in Seq(X), n \in 1 .. N : One(t, n) \in Seq(X) BY <1>2, AppendProperties
<1>4. PICK f : Made(f, N, Seq(X), <<>>, step)
  <2>1. step \in [Seq(X) \X (1 .. N) -> Seq(X)] BY <1>3
  <2>2. <<>> \in Seq(X) OBVIOUS
  <2> HIDE DEF step
  <2> QED BY <2>1, <2>2, Recursion
<1>5. f = Body(f)
  <2>1. f \in [0 .. N -> Seq(X)] /\ f[0] = <<>> BY <1>4 DEF Made
  <2>2. ASSUME NEW n \in 0 .. N PROVE f[n] = Body(f)[n]
    <3>1. CASE n = 0 BY <2>1, <3>1
    <3>2. CASE n # 0
      <4>1. n \in 1 .. N /\ n - 1 \in 0 .. N BY <1>1, <3>2
      <4>2. f[n - 1] \in Seq(X) /\ f[n] = step[<<f[n - 1], n>>] BY <1>4, <2>1, <4>1 DEF Made
      <4>3. f[n] = One(f[n - 1], n) BY <4>1, <4>2
      <4> QED BY <3>2, <4>1, <4>3
    <3> QED BY <3>1, <3>2
  <2>3. f = [n \in 0 .. N |-> f[n]] BY <2>1
  <2> QED BY <2>2, <2>3
<1>6. PICK h : h = Body(h) /\ Filtered(s, S) = h[N]
  <2> DEFINE k == CHOOSE g : g = Body(g)
  <2>1. k = Body(k) BY <1>5
  <2>2. Filtered(s, S) = k[N] BY <1>1 DEF Filtered
  <2> QED BY <2>1, <2>2
<1>7. h[0] = <<>> /\ \A n \in 1 .. N : h[n] = One(h[n - 1], n)
  <2>1. \A n \in 0 .. N : h[n] = IF n = 0 THEN <<>> ELSE One(h[n - 1], n) BY <1>6
  <2>2. h[0] = <<>> BY <1>1, <2>1
  <2>3. ASSUME NEW n \in 1 .. N PROVE h[n] = One(h[n - 1], n)
    <3>1. n \in 0 .. N /\ n # 0 BY <1>1
    <3> HIDE DEF One
    <3> QED BY <2>1, <3>1, Zenon
  <2> QED BY <2>2, <2>3
<1>8. Filters(h, s, S) BY <1>1, <1>6, <1>7 DEF Filters
<1> QED BY <1>8

\* What passes a filter is of the sequence and in the set.
LEMMA FilteredRange ==
    ASSUME NEW X, NEW s \in Seq(X), NEW S
    PROVE  Filtered(s, S) \in Seq(X) /\ Range(Filtered(s, S)) = Range(s) \intersect S
<1>1. PICK N \in Nat : N = Len(s) /\ DOMAIN s = 1 .. N BY LenProperties
<1>2. \A n \in 1 .. N : s[n] \in X BY <1>1, ElementOfSeq
<1> DEFINE One(t, n) == IF s[n] \in S THEN Append(t, s[n]) ELSE t
<1>0. PICK h : Filters(h, s, S) BY FilteredMade
<1>6. /\ h[0] = <<>> /\ h[N] = Filtered(s, S)
      /\ \A n \in 1 .. N : h[n] = One(h[n - 1], n)
  BY <1>0, <1>1 DEF Filters
<1>7. h[0] = <<>> /\ \A n \in 1 .. N : h[n] = One(h[n - 1], n) BY <1>6
<1> DEFINE Some == {n \in Nat : n <= N =>
                      /\ h[n] \in Seq(X)
                      /\ Range(h[n]) = {s[i] : i \in 1 .. n} \intersect S}
<1>8. 0 \in Some
  <2>1. <<>> \in Seq(X) /\ Range(<<>>) = {} BY DEF Range
  <2>2. {s[i] : i \in 1 .. 0} = {} OBVIOUS
  <2> QED BY <1>7, <2>1, <2>2
<1>9. ASSUME NEW n \in Nat, n \in Some PROVE n + 1 \in Some
  <2> SUFFICES ASSUME n + 1 <= N
               PROVE  /\ h[n + 1] \in Seq(X)
                      /\ Range(h[n + 1]) = {s[i] : i \in 1 .. n + 1} \intersect S
    OBVIOUS
  <2>1. n + 1 \in 1 .. N /\ (n + 1) - 1 = n BY <1>1
  <2>2. h[n + 1] = One(h[n], n + 1) BY <1>7, <2>1
  <2>3. h[n] \in Seq(X) /\ Range(h[n]) = {s[i] : i \in 1 .. n} \intersect S BY <1>9
  <2>4. s[n + 1] \in X BY <1>2, <2>1
  <2>5. {s[i] : i \in 1 .. n + 1} = {s[i] : i \in 1 .. n} \union {s[n + 1]} OBVIOUS
  <2>6. CASE s[n + 1] \in S
    <3>1. h[n + 1] = Append(h[n], s[n + 1]) BY <2>2, <2>6
    <3> QED BY <2>3, <2>4, <2>5, <2>6, <3>1, AppendedRange
  <2>7. CASE s[n + 1] \notin S
    <3>1. h[n + 1] = h[n] BY <2>2, <2>7
    <3> QED BY <2>3, <2>5, <2>7, <3>1
  <2> QED BY <2>6, <2>7
<1>10. N \in Some
  <2> HIDE DEF Some
  <2> QED BY <1>8, <1>9, Induct
<1>11. Range(s) = {s[i] : i \in 1 .. N} BY <1>1 DEF Range
<1> QED BY <1>6, <1>10, <1>11

-----------------------------------------------------------------------------
(* The page *)

IsTab(t) == "run" \in DOMAIN t /\ t.run \in Runs

Pages(T) == [open : BOOLEAN, tabs : Seq(T), active : Runs \union {NoRun}, adrift : BOOLEAN]

IsPage(p) == p \in Pages(Range(p.tabs)) /\ \A t \in Range(p.tabs) : IsTab(t)

\* What the page shows as active is what the host last said.
Follows(q, p) == IsPage(q) /\ q.open = p.open /\ (~q.adrift => ~p.adrift /\ q.active = p.active)

LEMMA ItsRange ==
    ASSUME NEW T, NEW s \in Seq(T)
    PROVE  /\ Len(s) \in Nat /\ DOMAIN s = 1 .. Len(s)
           /\ Range(s) \subseteq T /\ s \in Seq(Range(s))
BY LenProperties, RangeOfSeq, SeqOfRange

LEMMA SubRange ==
    ASSUME NEW T, NEW s \in Seq(T), NEW S, Range(s) \subseteq S
    PROVE  s \in Seq(S)
<1>1. s \in Seq(Range(s)) BY ItsRange
<1>2. PICK n \in Nat : s \in [1 .. n -> Range(s)] BY <1>1, SeqDef
<1>3. s \in [1 .. n -> S] BY <1>2
<1> QED BY <1>3, SeqDef

LEMMA SomePage ==
    ASSUME NEW T, \A t \in T : IsTab(t), NEW p \in Pages(T)
    PROVE  IsPage(p) /\ Range(p.tabs) \subseteq T
<1>1. p.tabs \in Seq(T) BY DEF Pages
<1>2. p.tabs \in Seq(Range(p.tabs)) /\ Range(p.tabs) \subseteq T BY <1>1, ItsRange
<1>3. p \in Pages(Range(p.tabs)) BY <1>2 DEF Pages
<1> QED BY <1>2, <1>3 DEF IsPage

LEMMA RunsOfTabs == ASSUME NEW p PROVE PageRuns(p) = {t.run : t \in Range(p.tabs)}
BY DEF PageRuns, Range

LEMMA RunsOfPage == ASSUME NEW p, IsPage(p) PROVE PageRuns(p) \subseteq Runs
BY RunsOfTabs DEF IsPage, IsTab

\* The page with other tabs.
LEMMA OtherTabs ==
    ASSUME NEW p, IsPage(p), NEW T, \A t \in T : IsTab(t), NEW shown \in Seq(T)
    PROVE  /\ Follows([p EXCEPT !.tabs = shown], p)
           /\ [p EXCEPT !.tabs = shown].tabs = shown
           /\ [p EXCEPT !.tabs = shown] \in Pages(T)
<1>1. [p EXCEPT !.tabs = shown] \in Pages(T) BY DEF IsPage, Pages
<1>2. IsPage([p EXCEPT !.tabs = shown]) BY <1>1, SomePage
<1>3. /\ [p EXCEPT !.tabs = shown].tabs = shown
      /\ [p EXCEPT !.tabs = shown].open = p.open
      /\ [p EXCEPT !.tabs = shown].active = p.active
      /\ [p EXCEPT !.tabs = shown].adrift = p.adrift
  BY DEF IsPage, Pages
<1> QED BY <1>1, <1>2, <1>3 DEF Follows

LEMMA Rendered ==
    ASSUME NEW p, IsPage(p)
    PROVE  /\ Follows(Render(p), p) /\ Render(p).tabs = p.tabs
           /\ \A T : p \in Pages(T) => Render(p) \in Pages(T)
<1>1. CASE p.tabs = <<>> \/ p.active \in PageRuns(p) BY <1>1 DEF Render, Follows
<1>2. CASE ~(p.tabs = <<>> \/ p.active \in PageRuns(p))
  <2> DEFINE q == [p EXCEPT !.active = p.tabs[1].run, !.adrift = TRUE]
  <2>1. Render(p) = q BY <1>2 DEF Render
  <2>2. p.tabs \in Seq(Range(p.tabs)) /\ p \in Pages(Range(p.tabs)) BY DEF IsPage, Pages
  <2>3. 1 \in DOMAIN p.tabs BY <1>2, <2>2, ItsRange, EmptySeq
  <2>4. p.tabs[1].run \in Runs BY <2>3 DEF IsPage, IsTab, Range
  <2>5. q \in Pages(Range(p.tabs)) /\ \A T : p \in Pages(T) => q \in Pages(T)
    BY <2>2, <2>4 DEF Pages
  <2>6. q.tabs = p.tabs /\ q.open = p.open /\ q.adrift BY <2>2 DEF Pages
  <2>7. IsPage(q) BY <2>5, <2>6 DEF IsPage
  <2> QED BY <2>1, <2>5, <2>6, <2>7 DEF Follows
<1> QED BY <1>1, <1>2

LEMMA OpenOrNot == ASSUME NEW p, IsPage(p), NEW q PROVE p.open \/ Post(p, q) = p
BY DEF IsPage, Pages, Post

LEMMA PostedPage ==
    ASSUME NEW p, IsPage(p), p.open, NEW q, Follows(q, p)
    PROVE  /\ Follows(Post(p, q), p) /\ Post(p, q).tabs = q.tabs
           /\ \A T : q \in Pages(T) => Post(p, q) \in Pages(T)
<1>1. Post(p, q) = Render(q) BY DEF Post
<1>2. /\ Follows(Render(q), q) /\ Render(q).tabs = q.tabs
      /\ \A T : q \in Pages(T) => Render(q) \in Pages(T)
  BY Rendered DEF Follows
<1> QED BY <1>1, <1>2 DEF Follows

\* tabUpdated: the tab is there, as it is told.
LEMMA PageWithTab ==
    ASSUME NEW p, IsPage(p), p.open, NEW tab, IsTab(tab)
    PROVE  /\ Follows(TabUpdated(p, tab), p)
           /\ PageRuns(TabUpdated(p, tab)) = PageRuns(p) \union {tab.run}
           /\ Range(TabUpdated(p, tab).tabs) \subseteq Range(p.tabs) \union {tab}
<1> DEFINE T == Range(p.tabs) \union {tab}
           shown == IF tab.run \in PageRuns(p)
                    THEN [i \in DOMAIN p.tabs |-> IF p.tabs[i].run = tab.run THEN tab ELSE p.tabs[i]]
                    ELSE Append(p.tabs, tab)
           q == [p EXCEPT !.tabs = shown]
<1>1. p.tabs \in Seq(Range(p.tabs)) BY DEF IsPage, Pages
<1>2. \A t \in T : IsTab(t) BY DEF IsPage
<1>3. shown \in Seq(T) /\ {t.run : t \in Range(shown)} = PageRuns(p) \union {tab.run}
  <2>1. CASE tab.run \in PageRuns(p)
    <3> DEFINE put == [i \in DOMAIN p.tabs |-> IF p.tabs[i].run = tab.run THEN tab ELSE p.tabs[i]]
    <3>1. shown = put BY <2>1
    <3>2. Len(p.tabs) \in Nat /\ DOMAIN p.tabs = 1 .. Len(p.tabs) BY <1>1, LenProperties
    <3>3. \A i \in DOMAIN p.tabs : p.tabs[i] \in Range(p.tabs) BY DEF Range
    <3>4. put \in [1 .. Len(p.tabs) -> T] BY <3>2, <3>3
    <3>5. put \in Seq(T) BY <3>2, <3>4, SeqDef
    <3>6. DOMAIN put = DOMAIN p.tabs
            /\ \A i \in DOMAIN p.tabs : put[i].run = p.tabs[i].run OBVIOUS
    <3> HIDE DEF put
    <3>7. {t.run : t \in Range(put)} = PageRuns(p) BY <3>6 DEF PageRuns, Range
    <3>8. tab.run \in PageRuns(p) => PageRuns(p) = PageRuns(p) \union {tab.run} OBVIOUS
    <3> QED BY <2>1, <3>1, <3>5, <3>7, <3>8
  <2>2. CASE tab.run \notin PageRuns(p)
    <3>1. shown = Append(p.tabs, tab) BY <2>2
    <3>2. p.tabs \in Seq(T) BY <1>1, SubRange
    <3>3. Append(p.tabs, tab) \in Seq(T) /\ Range(Append(p.tabs, tab)) = T
      BY <3>2, AppendedRange
    <3> QED BY <3>1, <3>3, RunsOfTabs
  <2> QED BY <2>1, <2>2
<1> HIDE DEF shown
<1>4. Follows(q, p) /\ q.tabs = shown BY <1>2, <1>3, OtherTabs
<1>5. Follows(Post(p, q), p) /\ Post(p, q).tabs = q.tabs BY <1>4, PostedPage
<1>6. TabUpdated(p, tab) = Post(p, q) BY DEF TabUpdated, shown
<1>7. Range(shown) \subseteq T BY <1>3, RangeOfSeq
<1>8. PageRuns(Post(p, q)) = PageRuns(p) \union {tab.run} BY <1>3, <1>4, <1>5, RunsOfTabs
<1> QED BY <1>4, <1>5, <1>6, <1>7, <1>8

\* ruleUpdated and the like change the entries of a tab.
LEMMA PageWithEntries ==
    ASSUME NEW p, IsPage(p), NEW r, NEW entries
    PROVE  /\ Follows(EntriesChanged(p, r, entries), p)
           /\ PageRuns(EntriesChanged(p, r, entries)) = PageRuns(p)
<1> DEFINE Put(t) == IF t.run = r THEN [t EXCEPT !.entries = entries] ELSE t
           T == {Put(t) : t \in Range(p.tabs)}
           shown == [i \in DOMAIN p.tabs |->
                       IF p.tabs[i].run = r THEN [p.tabs[i] EXCEPT !.entries = entries] ELSE p.tabs[i]]
           q == [p EXCEPT !.tabs = shown]
<1>1. p.tabs \in Seq(Range(p.tabs)) BY DEF IsPage, Pages
<1>2. \A t \in Range(p.tabs) : IsTab(Put(t)) /\ Put(t).run = t.run BY DEF IsPage, IsTab
<1>3. Len(p.tabs) \in Nat /\ DOMAIN p.tabs = 1 .. Len(p.tabs) BY <1>1, LenProperties
<1>4. \A i \in DOMAIN p.tabs : p.tabs[i] \in Range(p.tabs) BY DEF Range
<1>5. shown = [i \in 1 .. Len(p.tabs) |-> Put(p.tabs[i])] BY <1>3
<1> HIDE DEF Put
<1>6. shown \in [1 .. Len(p.tabs) -> T] BY <1>3, <1>4, <1>5
<1>7. shown \in Seq(T) BY <1>3, <1>6, SeqDef
<1>8. \A i \in DOMAIN p.tabs : shown[i].run = p.tabs[i].run BY <1>2, <1>3, <1>4, <1>5
<1>9. DOMAIN shown = DOMAIN p.tabs OBVIOUS
<1> HIDE DEF shown
<1>10. {t.run : t \in Range(shown)} = PageRuns(p) BY <1>8, <1>9 DEF PageRuns, Range
<1>11. \A t \in T : IsTab(t) BY <1>2
<1>12. Follows(q, p) /\ q.tabs = shown BY <1>7, <1>11, OtherTabs
<1>13. EntriesChanged(p, r, entries) = Post(p, q) BY DEF EntriesChanged, shown
<1>14. CASE p.open
  <2>1. Follows(Post(p, q), p) /\ Post(p, q).tabs = q.tabs BY <1>12, <1>14, PostedPage
  <2>2. PageRuns(Post(p, q)) = PageRuns(p) BY <1>10, <1>12, <2>1, RunsOfTabs
  <2> QED BY <1>13, <2>1, <2>2
<1>15. CASE ~p.open BY <1>13, <1>15, OpenOrNot DEF Follows
<1> QED BY <1>14, <1>15

\* What the page shows as active is what it was told.
ShowsAs(q, p, r) == IsPage(q) /\ q.open = p.open /\ (~q.adrift => q.active = r)

\* activeTabChanged
LEMMA PageWithActive ==
    ASSUME NEW p, IsPage(p), p.open, NEW r \in Runs \union {NoRun}
    PROVE  /\ ShowsAs(ActiveTabChanged(p, r), p, r)
           /\ PageRuns(ActiveTabChanged(p, r)) = PageRuns(p)
<1> DEFINE q == [p EXCEPT !.active = r, !.adrift = FALSE]
<1>1. q \in Pages(Range(p.tabs)) BY DEF IsPage, Pages
<1>2. q.tabs = p.tabs /\ q.active = r /\ ~q.adrift /\ q.open = p.open BY DEF IsPage, Pages
<1>3. IsPage(q) BY <1>1, <1>2 DEF IsPage
<1> HIDE DEF q
<1>4. Follows(Render(q), q) /\ Render(q).tabs = q.tabs BY <1>3, Rendered
<1>5. ActiveTabChanged(p, r) = Render(q) BY DEF ActiveTabChanged, Post, q
<1>6. PageRuns(Render(q)) = PageRuns(p) BY <1>2, <1>4 DEF PageRuns
<1> QED BY <1>2, <1>4, <1>5, <1>6 DEF ShowsAs, Follows

\* tabClosed
LEMMA PageWithout ==
    ASSUME NEW p, IsPage(p), p.open, NEW r
    PROVE  /\ IsPage(TabClosed(p, r)) /\ TabClosed(p, r).open
           /\ PageRuns(TabClosed(p, r)) = PageRuns(p) \ {r}
<1> DEFINE others == {t \in Range(p.tabs) : t.run # r}
           kept == Filtered(p.tabs, others)
           last == IF p.active # r THEN p.active ELSE IF kept = <<>> THEN NoRun ELSE Last(kept).run
           q == [p EXCEPT !.tabs = kept, !.active = last]
<1>1. p.tabs \in Seq(Range(p.tabs)) BY DEF IsPage, Pages
<1>2. kept \in Seq(Range(p.tabs)) /\ Range(kept) = Range(p.tabs) \intersect others
  BY <1>1, FilteredRange
<1>3. last \in Runs \union {NoRun}
  <2>1. CASE p.active # r BY <2>1 DEF IsPage, Pages
  <2>2. CASE p.active = r /\ kept = <<>> BY <2>2
  <2>3. CASE p.active = r /\ kept # <<>>
    <3>1. Len(kept) \in 1 .. Len(kept) /\ DOMAIN kept = 1 .. Len(kept)
      BY <1>2, <2>3, LenProperties, EmptySeq
    <3>2. Last(kept) \in Range(kept) BY <3>1 DEF Last, Range
    <3> QED BY <1>2, <2>3, <3>2 DEF IsPage, IsTab
  <2> QED BY <2>1, <2>2, <2>3
<1> HIDE DEF kept, last
<1>4. q \in Pages(Range(p.tabs)) /\ q.tabs = kept /\ q.open = p.open
  BY <1>2, <1>3 DEF IsPage, Pages
<1>5. IsPage(q) BY <1>4, SomePage DEF IsPage
<1>6. TabClosed(p, r) = Post(p, q)
  <2>1. q = [p EXCEPT !.tabs = kept,
                !.active = IF p.active # r THEN @ ELSE IF kept = <<>> THEN NoRun ELSE Last(kept).run]
    BY DEF last
  <2> QED BY <2>1 DEF TabClosed, kept
<1> HIDE DEF q
<1>7. Follows(Render(q), q) /\ Render(q).tabs = q.tabs BY <1>5, Rendered
<1>8. TabClosed(p, r) = Render(q) BY <1>6 DEF Post
<1>9. PageRuns(Render(q)) = PageRuns(p) \ {r} BY <1>2, <1>4, <1>7, RunsOfTabs
<1> QED BY <1>4, <1>7, <1>8, <1>9 DEF Follows

\* init
LEMMA PageAtFirst ==
    ASSUME NEW p, IsPage(p), p.open, NEW opened \in Seq(Runs), NEW r \in Runs \union {NoRun}
    PROVE  /\ ShowsAs(InitPage(p, ShownOf(opened), r), p, r)
           /\ PageRuns(InitPage(p, ShownOf(opened), r)) = Range(opened)
<1> DEFINE shown == ShownOf(opened)
           T == Range(shown)
           q == [p EXCEPT !.tabs = shown, !.active = r, !.adrift = FALSE]
<1>1. Len(opened) \in Nat /\ DOMAIN opened = 1 .. Len(opened)
        /\ \A i \in DOMAIN opened : opened[i] \in Runs
  BY LenProperties, ElementOfSeq
<1>2. DOMAIN shown = DOMAIN opened BY DEF ShownOf
<1>3. \A i \in DOMAIN opened : IsTab(shown[i]) /\ shown[i].run = opened[i]
  BY <1>1 DEF ShownOf, TabStateFromInfo, Tab, IsTab
<1>4. shown \in [1 .. Len(opened) -> T] BY <1>1 DEF ShownOf, Range
<1>5. shown \in Seq(T) BY <1>1, <1>4, SeqDef
<1> HIDE DEF shown
<1>6. \A t \in T : IsTab(t) BY <1>2, <1>3 DEF Range
<1>7. q \in Pages(T) /\ q.tabs = shown /\ q.open = p.open /\ q.active = r /\ ~q.adrift
  BY <1>5 DEF IsPage, Pages
<1>8. IsPage(q) BY <1>6, <1>7, SomePage
<1>9. InitPage(p, ShownOf(opened), r) = Render(q) BY DEF InitPage, Post, shown
<1> HIDE DEF q
<1>10. Follows(Render(q), q) /\ Render(q).tabs = q.tabs BY <1>8, Rendered
<1>11. PageRuns(Render(q)) = Range(opened) BY <1>2, <1>3, <1>7, <1>10 DEF PageRuns, Range
<1> QED BY <1>7, <1>9, <1>10, <1>11 DEF ShowsAs, Follows

\* The chats' answer to an event adds tabs that the host has.
LEMMA RefreshedPage ==
    ASSUME IsPage(page), page.open, tabs \in Seq(Runs), NEW known, RefreshTabs(page, known)
    PROVE  /\ Follows(page', page)
           /\ PageRuns(page) \subseteq PageRuns(page')
           /\ PageRuns(page') \subseteq PageRuns(page) \union Range(tabs)
<1>1. PICK N \in Nat : N = Len(tabs) /\ DOMAIN tabs = 1 .. N BY LenProperties
<1> DEFINE Info(n) == TabStateFromInfo(tabs[n], known[tabs[n]])
           T == Range(page.tabs) \union {Info(n) : n \in 1 .. N}
           X == {q \in Pages(T) : /\ Follows(q, page) /\ PageRuns(page) \subseteq PageRuns(q)
                                  /\ PageRuns(q) \subseteq PageRuns(page) \union Range(tabs)}
           One(q, n) == IF tabs[n] \in DOMAIN known THEN TabUpdated(q, Info(n)) ELSE q
           step == [z \in X \X (1 .. N) |-> One(z[1], z[2])]
           Body(g) == [n \in 0 .. N |-> IF n = 0 THEN page
                                        ELSE IF tabs[n] \in DOMAIN known
                                             THEN TabUpdated(g[n - 1], Info(n))
                                             ELSE g[n - 1]]
<1>2. \A n \in 1 .. N : tabs[n] \in Range(tabs) /\ tabs[n] \in Runs
  BY <1>1, ElementOfSeq DEF Range
<1>3. \A n \in 1 .. N : IsTab(Info(n)) /\ Info(n).run = tabs[n]
  BY <1>2 DEF TabStateFromInfo, Tab, IsTab
<1>4. \A t \in T : IsTab(t) BY <1>3 DEF IsPage
<1>5. ASSUME NEW q \in X, NEW n \in 1 .. N PROVE One(q, n) \in X
  <2>1. CASE tabs[n] \in DOMAIN known
    <3>1. IsPage(q) /\ q.open /\ Range(q.tabs) \subseteq T BY <1>4, SomePage DEF Follows
    <3>2. PICK u : u = TabUpdated(q, Info(n)) OBVIOUS
    <3>3. /\ Follows(u, q) /\ PageRuns(u) = PageRuns(q) \union {tabs[n]}
          /\ Range(u.tabs) \subseteq Range(q.tabs) \union {Info(n)}
      BY <1>3, <3>1, <3>2, PageWithTab
    <3>4. Info(n) \in T OBVIOUS
    <3>5. Range(u.tabs) \subseteq T BY <3>1, <3>3, <3>4
    <3>6. u \in Pages(T)
      <4>1. u \in Pages(Range(u.tabs)) /\ u.tabs \in Seq(Range(u.tabs))
        BY <3>3 DEF Follows, IsPage, Pages
      <4>2. u.tabs \in Seq(T) BY <3>5, <4>1, SubRange
      <4> HIDE DEF T
      <4> QED BY <4>1, <4>2 DEF Pages
    <3>7. Follows(u, page) BY <3>3 DEF Follows
    <3> QED BY <1>2, <2>1, <3>2, <3>3, <3>6, <3>7
  <2>2. CASE tabs[n] \notin DOMAIN known BY <2>2
  <2> QED BY <2>1, <2>2
<1>6. page \in X
  <2>1. page.tabs \in Seq(Range(page.tabs)) BY DEF IsPage, Pages
  <2>2. page.tabs \in Seq(T) BY <2>1, SubRange
  <2> HIDE DEF T
  <2> QED BY <2>2 DEF IsPage, Pages, Follows
<1> HIDE DEF X
<1>7. PICK f : Made(f, N, X, page, step)
  <2>1. step \in [X \X (1 .. N) -> X] BY <1>5
  <2> HIDE DEF step
  <2> QED BY <1>6, <2>1, Recursion
<1>8. f = Body(f)
  <2>1. f \in [0 .. N -> X] /\ f[0] = page BY <1>7 DEF Made
  <2>2. ASSUME NEW n \in 0 .. N PROVE f[n] = Body(f)[n]
    <3>1. CASE n = 0 BY <2>1, <3>1
    <3>2. CASE n # 0
      <4>1. n \in 1 .. N /\ n - 1 \in 0 .. N BY <1>1, <3>2
      <4>2. f[n - 1] \in X /\ f[n] = step[<<f[n - 1], n>>] BY <1>7, <2>1, <4>1 DEF Made
      <4>3. f[n] = One(f[n - 1], n) BY <4>1, <4>2
      <4> QED BY <3>2, <4>1, <4>3
    <3> QED BY <3>1, <3>2
  <2>3. f = [n \in 0 .. N |-> f[n]] BY <2>1
  <2> QED BY <2>2, <2>3
<1>9. PICK h : h = Body(h) /\ page' = h[N]
  <2> DEFINE k == CHOOSE g : g = Body(g)
  <2>1. k = Body(k) BY <1>8
  <2>2. page' = k[N] BY <1>1 DEF RefreshTabs
  <2> QED BY <2>1, <2>2
<1>10. h[0] = page /\ \A n \in 1 .. N : h[n] = One(h[n - 1], n)
  <2>1. \A n \in 0 .. N : h[n] = IF n = 0 THEN page ELSE One(h[n - 1], n) BY <1>9
  <2>2. h[0] = page BY <1>1, <2>1
  <2>3. ASSUME NEW n \in 1 .. N PROVE h[n] = One(h[n - 1], n)
    <3>1. n \in 0 .. N /\ n # 0 BY <1>1
    <3> HIDE DEF One
    <3> QED BY <2>1, <3>1, Zenon
  <2> QED BY <2>2, <2>3
<1> DEFINE Some == {n \in Nat : n <= N => h[n] \in X}
<1>11. 0 \in Some BY <1>6, <1>10
<1>12. ASSUME NEW n \in Nat, n \in Some PROVE n + 1 \in Some
  <2> SUFFICES ASSUME n + 1 <= N PROVE h[n + 1] \in X OBVIOUS
  <2>1. n + 1 \in 1 .. N /\ (n + 1) - 1 = n /\ h[n] \in X BY <1>1, <1>12
  <2> HIDE DEF One
  <2>2. h[n + 1] = One(h[n], n + 1) BY <1>10, <2>1
  <2> QED BY <1>5, <2>1, <2>2
<1>13. N \in Some
  <2> HIDE DEF Some
  <2> QED BY <1>11, <1>12, Induct
<1> QED BY <1>9, <1>13 DEF X

-----------------------------------------------------------------------------
(* The tabs of the page and the host's *)

Awaited(r) == \E f \in fetches : f.run = r /\ f.chat

\* What TabsAgree says, and that everything is of a run.
TabsFollow ==
    /\ tabs \in Seq(Runs) /\ active \in Runs \union {NoRun}
    /\ IsPage(page)
    /\ \A f \in fetches : {"run", "chat", "got"} \subseteq DOMAIN f /\ f.run \in Runs
    /\ page.open =>
          /\ \A r \in Range(tabs) : r \in PageRuns(page) \/ Awaited(r)
          /\ PageRuns(page) \subseteq Range(tabs) \union strays
          /\ ~page.adrift => page.active = active

LEMMA ClosedIsPage == IsPage(Closed)
<1>1. Closed.tabs = <<>> /\ Range(<<>>) = {} BY DEF Closed, Range
<1>2. <<>> \in Seq({}) OBVIOUS
<1> QED BY <1>1, <1>2 DEF Closed, IsPage, Pages

LEMMA WantedAreFetches ==
    ASSUME NEW opened, Range(opened) \subseteq Runs, NEW known
    PROVE  \A f \in Wanted(opened, known) :
              {"run", "chat", "got"} \subseteq DOMAIN f /\ f.run \in Runs /\ f.chat
BY DEF Wanted, Fetch

LEMMA HostsActive ==
    ASSUME NEW s \in Seq(Runs), s # <<>>
    PROVE  s[1] \in Runs /\ Last(s) \in Runs
<1>1. Len(s) \in 1 .. Len(s) /\ 1 \in 1 .. Len(s) BY LenProperties, EmptySeq
<1> QED BY <1>1, ElementOfSeq DEF Last

LEMMA TabsAtFirst == ChatInit => TabsFollow
<1> SUFFICES ASSUME ChatInit PROVE TabsFollow OBVIOUS
<1>1. tabs \in Seq(Runs) BY TopicsAreTopics DEF ChatInit
<1>2. active \in Runs \union {NoRun} BY <1>1, HostsActive DEF ChatInit
<1>3. Range(tabs) \subseteq Runs BY <1>1, RangeOfSeq
<1>4. CASE topic.open
  <2> DEFINE p == [Closed EXCEPT !.open = TRUE]
  <2>1. p.tabs = Closed.tabs /\ p.open BY DEF Closed
  <2>2. IsPage(p) BY <2>1, ClosedIsPage DEF Closed, IsPage, Pages
  <2>3. page = InitPage(p, ShownOf(tabs), active) /\ fetches = Wanted(tabs, cache)
    BY <1>4 DEF ChatInit
  <2> HIDE DEF p
  <2>4. ShowsAs(page, p, active) /\ PageRuns(page) = Range(tabs)
    BY <1>1, <1>2, <2>1, <2>2, <2>3, PageAtFirst
  <2>5. \A f \in fetches : {"run", "chat", "got"} \subseteq DOMAIN f /\ f.run \in Runs
    BY <1>3, <2>3, WantedAreFetches
  <2> QED BY <1>1, <1>2, <2>4, <2>5 DEF TabsFollow, ShowsAs
<1>5. CASE ~topic.open
  <2>1. page = Closed /\ fetches = {} BY <1>5 DEF ChatInit
  <2>2. ~page.open BY <2>1 DEF Closed
  <2> QED BY <1>1, <1>2, <2>1, <2>2, ClosedIsPage DEF TabsFollow
<1> QED BY <1>4, <1>5

LEMMA ReadingFollows == ASSUME TabsFollow, NEW f \in fetches, InfoReads(f) PROVE TabsFollow'
<1>1. PICK got : fetches' = (fetches \ {f}) \union {[f EXCEPT !.got = got]} BY DEF InfoReads
<1> DEFINE g == [f EXCEPT !.got = got]
<1>2. DOMAIN g = DOMAIN f /\ g.run = f.run /\ g.chat = f.chat BY DEF TabsFollow
<1> HIDE DEF g
<1>3. fetches' = (fetches \ {f}) \union {g} BY <1>1 DEF g
<1>4. \A x \in fetches' : {"run", "chat", "got"} \subseteq DOMAIN x /\ x.run \in Runs
  BY <1>2, <1>3 DEF TabsFollow
<1>5. ASSUME NEW r, Awaited(r) PROVE Awaited(r)'
  <2>1. PICK x \in fetches : x.run = r /\ x.chat BY <1>5 DEF Awaited
  <2>2. CASE x = f BY <1>2, <1>3, <2>1, <2>2 DEF Awaited
  <2>3. CASE x # f BY <1>3, <2>1, <2>3 DEF Awaited
  <2> QED BY <2>2, <2>3
<1>6. UNCHANGED <<tabs, active, page, strays>> BY DEF InfoReads
<1>7. PageRuns(page)' = PageRuns(page) BY <1>6 DEF PageRuns
<1> QED BY <1>4, <1>5, <1>6, <1>7 DEF TabsFollow

LEMMA LandingFollows == ASSUME TabsFollow, NEW f \in fetches, InfoLands(f) PROVE TabsFollow'
<1>1. fetches' = fetches \ {f} /\ UNCHANGED <<tabs, active>> BY DEF InfoLands
<1>2. f.run \in Runs /\ IsPage(page) BY DEF TabsFollow
<1>3. ASSUME NEW r, Awaited(r), r # f.run \/ ~f.chat PROVE Awaited(r)'
  BY <1>1, <1>3 DEF Awaited
<1>4. \A x \in fetches' : {"run", "chat", "got"} \subseteq DOMAIN x /\ x.run \in Runs
  BY <1>1 DEF TabsFollow
<1>5. CASE f.chat /\ page.open
  <2>1. PICK tab : /\ IsTab(tab) /\ tab.run = f.run
                   /\ page' = TabUpdated(page, tab)
    <3> DEFINE tab == IF f.got = Failed THEN Tab(f.run, "not_found", 0, <<>>)
                      ELSE TabStateFromInfo(f.run, f.got)
    <3>1. IsTab(tab) /\ tab.run = f.run BY <1>2 DEF IsTab, Tab, TabStateFromInfo
    <3>2. page' = TabUpdated(page, tab) BY <1>5 DEF InfoLands
    <3> QED BY <3>1, <3>2
  <2>2. Follows(page', page) /\ PageRuns(page') = PageRuns(page) \union {f.run}
    BY <1>2, <1>5, <2>1, PageWithTab
  <2>3. strays' = IF f.run \notin Range(tabs) THEN strays \union {f.run} ELSE strays
    BY <1>5 DEF InfoLands
  <2> QED BY <1>1, <1>3, <1>4, <1>5, <2>2, <2>3 DEF TabsFollow, Follows
<1>6. CASE ~(f.chat /\ page.open)
  <2>1. page' = page BY <1>2, <1>6, OpenOrNot DEF InfoLands, TabUpdated
  <2>2. strays' = strays BY <1>6 DEF InfoLands
  <2> QED BY <1>1, <1>3, <1>4, <1>6, <2>1, <2>2 DEF TabsFollow
<1> QED BY <1>5, <1>6

LEMMA ViewFollows == ASSUME TabsFollow, ViewOpens \/ ViewCloses PROVE TabsFollow'
<1>1. CASE ViewOpens
  <2> DEFINE p == [Closed EXCEPT !.open = TRUE]
  <2>1. p.tabs = Closed.tabs /\ p.open BY DEF Closed
  <2>2. IsPage(p) BY <2>1, ClosedIsPage DEF Closed, IsPage, Pages
  <2>3. page' = InitPage(p, ShownOf(tabs), active)
          /\ fetches' = fetches \union Wanted(tabs, cache)
        /\ UNCHANGED <<tabs, active, strays>>
    BY <1>1 DEF ViewOpens
  <2> HIDE DEF p
  <2>4. tabs \in Seq(Runs) /\ active \in Runs \union {NoRun} BY DEF TabsFollow
  <2>5. ShowsAs(page', p, active) /\ PageRuns(page') = Range(tabs)
    BY <2>1, <2>2, <2>3, <2>4, PageAtFirst
  <2>6. \A f \in fetches' : {"run", "chat", "got"} \subseteq DOMAIN f /\ f.run \in Runs
    <3>1. Range(tabs) \subseteq Runs BY <2>4, RangeOfSeq
    <3>2. \A f \in Wanted(tabs, cache) : {"run", "chat", "got"} \subseteq DOMAIN f
            /\ f.run \in Runs
      BY <3>1, WantedAreFetches
    <3> QED BY <2>3, <3>2 DEF TabsFollow
  <2> QED BY <2>3, <2>4, <2>5, <2>6 DEF TabsFollow, ShowsAs
<1>2. CASE ViewCloses
  <2>1. page' = Closed /\ UNCHANGED <<tabs, active, fetches>> BY <1>2 DEF ViewCloses
  <2>2. ~page'.open BY <2>1 DEF Closed
  <2> QED BY <2>1, <2>2, ClosedIsPage DEF TabsFollow
<1> QED BY <1>1, <1>2

LEMMA OpeningFollows == ASSUME TabsFollow, NEW r \in Runs, OpenTab(r) PROVE TabsFollow'
<1> DEFINE posted == IF r \in DOMAIN cache THEN TabUpdated(page, TabStateFromInfo(r, cache[r])) ELSE page
<1>1. tabs \in Seq(Runs) /\ IsPage(page) BY DEF TabsFollow
<1>2. tabs' \in Seq(Runs) /\ Range(tabs') = Range(tabs) \union {r}
  <2>1. CASE r \in Range(tabs)
    <3>1. tabs' = tabs BY <2>1 DEF OpenTab
    <3> QED BY <1>1, <2>1, <3>1
  <2>2. CASE r \notin Range(tabs)
    <3>1. tabs' = Append(tabs, r) BY <2>2 DEF OpenTab
    <3>2. Append(tabs, r) \in Seq(Runs) /\ Range(Append(tabs, r)) = Range(tabs) \union {r}
      BY <1>1, AppendedRange
    <3> QED BY <3>1, <3>2
  <2> QED BY <2>1, <2>2
<1>3. active' = r /\ strays' = strays \ {r} BY DEF OpenTab
<1>4. CASE page.open
  <2>1. fetches' = fetches \union {Fetch(r, TRUE)} /\ page' = ActiveTabChanged(posted, r)
    BY <1>4 DEF OpenTab
  <2>2. /\ IsPage(posted) /\ posted.open /\ PageRuns(page) \subseteq PageRuns(posted)
        /\ PageRuns(posted) \subseteq PageRuns(page) \union {r}
    <3>1. CASE r \in DOMAIN cache
      <4>1. PICK tab : tab = TabStateFromInfo(r, cache[r]) OBVIOUS
      <4>2. IsTab(tab) /\ tab.run = r BY <4>1 DEF IsTab, TabStateFromInfo, Tab
      <4>3. Follows(TabUpdated(page, tab), page)
            /\ PageRuns(TabUpdated(page, tab)) = PageRuns(page) \union {r}
        BY <1>1, <1>4, <4>2, PageWithTab
      <4>4. posted = TabUpdated(page, tab) BY <3>1, <4>1
      <4> QED BY <1>4, <4>3, <4>4 DEF Follows
    <3>2. CASE r \notin DOMAIN cache BY <1>1, <1>4, <3>2
    <3> QED BY <3>1, <3>2
  <2> HIDE DEF posted
  <2>3. ShowsAs(page', posted, r) /\ PageRuns(page') = PageRuns(posted)
    BY <2>1, <2>2, PageWithActive
  <2>4. Fetch(r, TRUE).run = r /\ Fetch(r, TRUE).chat
        /\ {"run", "chat", "got"} \subseteq DOMAIN Fetch(r, TRUE)
    BY DEF Fetch
  <2>5. \A f \in fetches' : {"run", "chat", "got"} \subseteq DOMAIN f /\ f.run \in Runs
    BY <2>1, <2>4 DEF TabsFollow
  <2>6. \A x : Awaited(x) \/ x = r => Awaited(x)' BY <2>1, <2>4 DEF Awaited
  <2>7. page'.open /\ PageRuns(page') \subseteq Range(tabs') \union strays'
        /\ \A x \in Range(tabs') : x \in PageRuns(page') \/ Awaited(x)'
    BY <1>2, <1>3, <1>4, <2>2, <2>3, <2>6 DEF TabsFollow, ShowsAs
  <2> QED BY <1>2, <1>3, <2>3, <2>5, <2>7 DEF TabsFollow, ShowsAs
<1>5. CASE ~page.open
  <2>1. page' = page /\ fetches' = fetches BY <1>5 DEF OpenTab
  <2> QED BY <1>2, <1>3, <1>5, <2>1 DEF TabsFollow
<1> QED BY <1>4, <1>5

LEMMA ClosingFollows ==
    ASSUME TabsFollow, NEW r \in PageRuns(page), CloseTab(r) PROVE TabsFollow'
<1>1. tabs \in Seq(Runs) /\ IsPage(page) BY DEF TabsFollow
<1>2. /\ tabs' = Filtered(tabs, Runs \ {r}) /\ strays' = strays \ {r} /\ fetches' = fetches
      /\ active' = IF active # r THEN active ELSE IF tabs' = <<>> THEN NoRun ELSE Last(tabs')
      /\ page' = ActiveTabChanged(TabClosed(page, r), active')
  BY DEF CloseTab
<1>3. tabs' \in Seq(Runs) /\ Range(tabs') = Range(tabs) \ {r}
  <2>1. Range(tabs) \subseteq Runs BY <1>1, RangeOfSeq
  <2>2. Filtered(tabs, Runs \ {r}) \in Seq(Runs)
        /\ Range(Filtered(tabs, Runs \ {r})) = Range(tabs) \intersect (Runs \ {r})
    BY <1>1, FilteredRange
  <2> QED BY <1>2, <2>1, <2>2
<1>4. active' \in Runs \union {NoRun} BY <1>2, <1>3, HostsActive DEF TabsFollow
<1>5. CASE page.open
  <2>1. PICK q : q = TabClosed(page, r) /\ IsPage(q) /\ q.open
          /\ PageRuns(q) = PageRuns(page) \ {r}
    BY <1>1, <1>5, PageWithout
  <2>2. ShowsAs(page', q, active') /\ PageRuns(page') = PageRuns(q)
    BY <1>2, <1>4, <2>1, PageWithActive
  <2>3. \A x : Awaited(x) => Awaited(x)' BY <1>2 DEF Awaited
  <2> QED BY <1>2, <1>3, <1>4, <1>5, <2>1, <2>2, <2>3 DEF TabsFollow, ShowsAs
<1>6. CASE ~page.open
  <2>1. TabClosed(page, r) = page BY <1>1, <1>6, OpenOrNot DEF TabClosed
  <2>2. page' = page BY <1>1, <1>2, <1>6, <2>1, OpenOrNot DEF ActiveTabChanged
  <2> QED BY <1>2, <1>3, <1>4, <1>6, <2>2 DEF TabsFollow
<1> QED BY <1>5, <1>6

LEMMA ClosingOthersFollows ==
    ASSUME TabsFollow, NEW r \in PageRuns(page), CloseOtherTabs(r) PROVE TabsFollow'
<1> DEFINE keep == Filtered(tabs, {r})
<1>1. tabs \in Seq(Runs) /\ IsPage(page) BY DEF TabsFollow
<1>2. keep \in Seq(Runs) BY <1>1, FilteredRange
<1>3. /\ tabs' = keep /\ active' = IF keep = <<>> THEN NoRun ELSE r
      /\ page' = InitPage(page, ShownOf(keep), active')
      /\ fetches' = fetches \union Wanted(keep, cache)
  BY DEF CloseOtherTabs
<1> HIDE DEF keep
<1>4. active' \in Runs \union {NoRun} BY <1>1, <1>3, RunsOfPage
<1>5. \A f \in fetches' : {"run", "chat", "got"} \subseteq DOMAIN f /\ f.run \in Runs
  BY <1>2, <1>3, RangeOfSeq, WantedAreFetches DEF TabsFollow
<1>6. CASE page.open
  <2>1. ShowsAs(page', page, active') /\ PageRuns(page') = Range(keep)
    BY <1>1, <1>2, <1>3, <1>4, <1>6, PageAtFirst
  <2> QED BY <1>2, <1>3, <1>4, <1>5, <1>6, <2>1 DEF TabsFollow, ShowsAs
<1>7. CASE ~page.open
  <2>1. page' = page BY <1>1, <1>3, <1>7, OpenOrNot DEF InitPage
  <2> QED BY <1>2, <1>3, <1>4, <1>5, <1>7, <2>1 DEF TabsFollow
<1> QED BY <1>6, <1>7

LEMMA SwitchingFollows ==
    ASSUME TabsFollow, NEW r \in PageRuns(page), SwitchTab(r) PROVE TabsFollow'
<1>1. IsPage(page) /\ r \in Runs BY RunsOfPage DEF TabsFollow
<1>2. active' = r /\ page' = ActiveTabChanged(page, r) /\ UNCHANGED <<fetches, tabs, strays>>
  BY DEF SwitchTab
<1>3. CASE page.open
  <2>1. ShowsAs(page', page, r) /\ PageRuns(page') = PageRuns(page)
    BY <1>1, <1>2, <1>3, PageWithActive
  <2>2. \A x : Awaited(x) => Awaited(x)' BY <1>2 DEF Awaited
  <2> QED BY <1>1, <1>2, <1>3, <2>1, <2>2 DEF TabsFollow, ShowsAs
<1>4. CASE ~page.open
  <2>1. page' = page BY <1>1, <1>2, <1>4, OpenOrNot DEF ActiveTabChanged
  <2> QED BY <1>1, <1>2, <1>4, <2>1 DEF TabsFollow
<1> QED BY <1>3, <1>4

\* The host takes the page's order of the tabs that it has, and keeps the others.
LEMMA ReorderingFollows == ASSUME TabsFollow, ReorderTabs PROVE TabsFollow'
<1>1. tabs \in Seq(Runs) /\ IsPage(page) BY DEF TabsFollow
<1>2. PICK from \in DOMAIN page.tabs, to \in DOMAIN page.tabs :
         LET moved == Moved(page.tabs, from, to)
             order == [i \in DOMAIN moved |-> moved[i].run]
         IN  /\ page' = [page EXCEPT !.tabs = moved]
             /\ tabs' = Filtered(order, Range(tabs)) \o Filtered(tabs, Runs \ Range(order))
  BY DEF ReorderTabs
<1> DEFINE T == Range(page.tabs)
<1>3. page.tabs \in Seq(T) /\ \A t \in T : IsTab(t) BY <1>1 DEF IsPage, Pages
<1>4. PICK moved \in Seq(T) : moved = Moved(page.tabs, from, to) /\ Range(moved) = T
  <2>1. Moved(page.tabs, from, to) \in Seq(T)
          /\ Range(Moved(page.tabs, from, to)) = Range(page.tabs)
    BY <1>3, MovedRange
  <2> QED BY <2>1
<1> DEFINE order == [i \in DOMAIN moved |-> moved[i].run]
<1>5. page' = [page EXCEPT !.tabs = moved]
      /\ tabs' = Filtered(order, Range(tabs)) \o Filtered(tabs, Runs \ Range(order))
  BY <1>2, <1>4
<1>6. order \in Seq(Runs)
  <2>1. Len(moved) \in Nat /\ DOMAIN moved = 1 .. Len(moved)
          /\ \A i \in DOMAIN moved : moved[i] \in T
    BY LenProperties, ElementOfSeq
  <2>2. \A t \in T : t.run \in Runs BY <1>3 DEF IsTab
  <2>3. order \in [1 .. Len(moved) -> Runs] BY <2>1, <2>2
  <2> QED BY <2>1, <2>3, SeqDef
<1> HIDE DEF order, T
<1>7. PICK had \in Seq(Runs) : had = Filtered(order, Range(tabs))
                               /\ Range(had) = Range(order) \intersect Range(tabs)
  BY <1>6, FilteredRange
<1>8. PICK new \in Seq(Runs) : new = Filtered(tabs, Runs \ Range(order))
                               /\ Range(new) = Range(tabs) \intersect (Runs \ Range(order))
  BY <1>1, FilteredRange
<1>9. tabs' \in Seq(Runs) /\ Range(tabs') = Range(tabs)
  <2>1. Range(tabs) \subseteq Runs BY <1>1, RangeOfSeq
  <2>2. had \o new \in Seq(Runs)
          /\ Range(had \o new) = Range(had) \union Range(new) BY ConcatRange
  <2>3. tabs' = had \o new BY <1>5, <1>7, <1>8
  <2> QED BY <1>7, <1>8, <2>1, <2>2, <2>3
<1>10. Follows(page', page) /\ page'.tabs = moved BY <1>1, <1>3, <1>5, OtherTabs
<1>11. PageRuns(page') = PageRuns(page) BY <1>4, <1>10, RunsOfTabs DEF T
<1>12. UNCHANGED <<fetches, active, strays>> BY DEF ReorderTabs
<1>13. \A x : Awaited(x) => Awaited(x)' BY <1>12 DEF Awaited
<1> QED BY <1>9, <1>10, <1>11, <1>12, <1>13 DEF TabsFollow, Follows

\* Handlers of rules change entries, and may fetch for a tab that there is.
LEMMA RulesFollow ==
    ASSUME TabsFollow, UNCHANGED <<tabs, active, strays>>,
           \/ page' = page \/ \E r, entries : page' = EntriesChanged(page, r, entries),
           \/ fetches' = fetches \/ \E r \in Runs : fetches' = fetches \union {Fetch(r, TRUE)}
    PROVE  TabsFollow'
<1>1. Follows(page', page) /\ PageRuns(page') = PageRuns(page)
  BY PageWithEntries DEF TabsFollow, Follows
<1>2. \A x : Awaited(x) => Awaited(x)' BY DEF Awaited
<1>3. \A f \in fetches' : {"run", "chat", "got"} \subseteq DOMAIN f /\ f.run \in Runs
  BY DEF TabsFollow, Fetch
<1> QED BY <1>1, <1>2, <1>3 DEF TabsFollow, Follows

LEMMA ChatsFollow == ASSUME TabsFollow, ChatNext PROVE TabsFollow'
<1>1. CASE ViewOpens \/ ViewCloses BY <1>1, ViewFollows
<1>2. CASE ReorderTabs BY <1>2, ReorderingFollows
<1>3. CASE \E f \in fetches : InfoReads(f) \/ InfoLands(f)
  BY <1>3, ReadingFollows, LandingFollows
<1>4. ASSUME NEW r \in PageRuns(page), CloseTab(r) \/ CloseOtherTabs(r) \/ SwitchTab(r)
      PROVE  TabsFollow'
  BY <1>4, ClosingFollows, ClosingOthersFollows, SwitchingFollows
<1>5. ASSUME NEW r, \/ Submit(r, FirstText)
                    \/ \E id : Delete(r, id) \/ \E text : Update(r, id, text)
      PROVE  TabsFollow'
  <2>1. UNCHANGED <<tabs, active, strays, fetches>> BY <1>5 DEF Submit, Delete, Update, Begins
  <2>2. \E entries : page' = EntriesChanged(page, r, entries)
    BY <1>5 DEF Submit, Delete, Update, RulePending, RuleUpdated, RuleDeleted
  <2> QED BY <2>1, <2>2, RulesFollow
<1>6. ASSUME NEW w, RuleCommandEnds(w) PROVE TabsFollow'
  <2>1. UNCHANGED <<tabs, active, strays, fetches, page>>
    BY <1>6 DEF RuleCommandEnds, RuleCommandSaves, RuleCommandFails
  <2> QED BY <2>1, RulesFollow
<1>7. ASSUME NEW w, Confirmed(w) PROVE TabsFollow'
  <2>1. UNCHANGED <<tabs, active, strays, fetches>> BY <1>7 DEF Confirmed
  <2>2. page' = page \/ \E entries : page' = EntriesChanged(page, w.run, entries)
    BY <1>7 DEF Confirmed, RuleConfirmed
  <2> QED BY <2>1, <2>2, RulesFollow
<1>8. ASSUME NEW w, TakenBack(w) PROVE TabsFollow'
  <2>1. UNCHANGED <<tabs, active, strays>> BY <1>8 DEF TakenBack
  <2>2. page' = page \/ \E entries : page' = EntriesChanged(page, w.run, entries)
    BY <1>8 DEF TakenBack, RuleDeleted, RuleUpdated, RuleRestored
  <2>3. fetches' = fetches \/ \E r \in Runs : fetches' = fetches \union {Fetch(r, TRUE)}
    <3>1. Range(tabs) \subseteq Runs BY RangeOfSeq DEF TabsFollow
    <3> QED BY <1>8, <3>1 DEF TakenBack, ForcedRefresh
  <2> QED BY <2>1, <2>2, <2>3, RulesFollow
<1> QED BY <1>1, <1>2, <1>3, <1>4, <1>5, <1>6, <1>7, <1>8 DEF ChatNext, HandlerGoesOn

\* Events of the tree post what is cached, and fetch the rest.
LEMMA EventsFollow ==
    ASSUME TabsFollow, UNCHANGED <<tabs, active, strays>>, NEW known, RefreshTabs(page, known)
    PROVE  TabsFollow'
<1>1. fetches' = fetches \union (IF page.open THEN Wanted(tabs, known) ELSE {})
  BY DEF RefreshTabs
<1>2. \A f \in fetches' : {"run", "chat", "got"} \subseteq DOMAIN f /\ f.run \in Runs
  <2>1. Range(tabs) \subseteq Runs BY RangeOfSeq DEF TabsFollow
  <2> QED BY <1>1, <2>1, WantedAreFetches DEF TabsFollow
<1>3. \A x : Awaited(x) => Awaited(x)' BY <1>1 DEF Awaited
<1>4. CASE page.open
  <2>1. /\ Follows(page', page) /\ PageRuns(page) \subseteq PageRuns(page')
        /\ PageRuns(page') \subseteq PageRuns(page) \union Range(tabs)
    BY <1>4, RefreshedPage DEF TabsFollow
  <2> QED BY <1>2, <1>3, <1>4, <2>1 DEF TabsFollow, Follows
<1>5. CASE ~page.open
  <2>1. page' = page BY <1>5 DEF RefreshTabs
  <2> QED BY <1>2, <1>5, <2>1 DEF TabsFollow
<1> QED BY <1>4, <1>5

LEMMA TreeFollows == ASSUME TabsFollow, Lists \/ Menu PROVE TabsFollow'
<1>1. ASSUME UNCHANGED chats PROVE TabsFollow'
  <2>1. UNCHANGED <<tabs, active, strays, fetches, page>> BY <1>1 DEF chats
  <2> QED BY <2>1, RulesFollow
<1>2. ASSUME UNCHANGED <<tabs, active, strays>>, \E known : RefreshTabs(page, known)
             PROVE TabsFollow'
  BY <1>2, EventsFollow
<1>3. CASE ListAsks \/ ListReads \/ ListFails \/ BoostEnds
  BY <1>1, <1>3 DEF ListAsks, ListReads, ListFails, BoostEnds
<1>4. CASE TimerFires BY <1>2, <1>4 DEF TimerFires, Fires
<1>5. ASSUME NEW l, ListLands(l.rows) PROVE TabsFollow'
  <2>1. UNCHANGED <<tabs, active, strays, fetches, page>> BY <1>5 DEF ListLands
  <2> QED BY <2>1, RulesFollow
<1>6. ASSUME NEW r, StatusGetsOld(r) PROVE TabsFollow' BY <1>1, <1>6 DEF StatusGetsOld
<1>7. CASE RefreshRuns \/ SetFilter
  BY <1>2, <1>7 DEF RefreshRuns, SetFilter, Refreshes, Fires
<1>8. ASSUME NEW r \in Runs, Expand(r) PROVE TabsFollow'
  <2>1. fetches' = fetches \union {Fetch(r, FALSE)} /\ UNCHANGED <<tabs, active, strays, page>>
    BY <1>8 DEF Expand
  <2>2. \A f \in fetches' : {"run", "chat", "got"} \subseteq DOMAIN f /\ f.run \in Runs
    BY <2>1 DEF TabsFollow, Fetch
  <2>3. \A x : Awaited(x) => Awaited(x)' BY <2>1 DEF Awaited
  <2> QED BY <2>1, <2>2, <2>3 DEF TabsFollow
<1>9. ASSUME NEW r \in Runs, OpenChat(r) PROVE TabsFollow' BY <1>9, OpeningFollows DEF OpenChat
<1>10. ASSUME NEW r, StartRun(r) \/ ResumeRun(r) \/ InspectRun(r) PROVE TabsFollow'
  <2>1. UNCHANGED <<tabs, active, strays>> /\ Kicks
    BY <1>10 DEF StartRun, ResumeRun, InspectRun, Overlays
  <2> QED BY <1>2, <2>1 DEF Kicks, Refreshes, Fires
<1>11. ASSUME NEW r, CommandAsks(r) PROVE TabsFollow' BY <1>1, <1>11 DEF CommandAsks
<1>12. ASSUME NEW c, CommandRuns(c) \/ CommandFails(c) PROVE TabsFollow'
  BY <1>1, <1>12 DEF CommandRuns, CommandFails
<1>13. ASSUME NEW c, CommandEnds(c) PROVE TabsFollow'
  <2>1. UNCHANGED <<tabs, active, strays>> /\ Refreshes
    BY <1>13 DEF CommandEnds, Overlays, Kicks
  <2> QED BY <1>2, <2>1 DEF Refreshes, Fires
<1> QED
  BY <1>3, <1>4, <1>5, <1>6, <1>7, <1>8, <1>9, <1>10, <1>11, <1>12, <1>13 DEF Lists, Menu

\* Whatever tabs are opened, closed, moved and switched while answers are on
\* their way, and whatever the tree makes the chats show again, the page and the
\* host agree on the tabs.
THEOREM TabsStayTheSame == ViewSpec => []TabsAgree
<1>1. ViewInit => TabsFollow BY TabsAtFirst DEF ViewInit
<1>2. TabsFollow /\ [ViewNext]_view => TabsFollow'
  <2> SUFFICES ASSUME TabsFollow, [ViewNext]_view PROVE TabsFollow' OBVIOUS
  <2>1. CASE UNCHANGED chats
    <3>1. UNCHANGED <<tabs, active, strays, fetches, page>> BY <2>1 DEF chats
    <3> QED BY <3>1, RulesFollow
  <2>2. CASE \E r \in DOMAIN stored : RunMoves(r) BY <2>1, <2>2 DEF RunMoves
  <2>3. CASE ChatNext BY <2>3, ChatsFollow
  <2>4. CASE Lists \/ Menu BY <2>4, TreeFollows
  <2>5. CASE UNCHANGED view BY <2>1, <2>5 DEF view
  <2> QED BY <2>2, <2>3, <2>4, <2>5 DEF ViewNext
<1>3. TabsFollow => TabsAgree BY DEF TabsFollow, TabsAgree, Awaited
<1> QED BY <1>1, <1>2, <1>3, PTL DEF ViewSpec

-----------------------------------------------------------------------------
(* Lists of rules *)

Words == Texts \union {FirstText, ""}

Rules == [id : Nat \ {0}, text : Words]

InOrder(s) == \A i, j \in DOMAIN s : i < j => s[i].id < s[j].id

LEMMA AppendInOrder ==
    ASSUME NEW X, NEW s \in Seq(X), NEW e \in X, InOrder(s), \A x \in Range(s) : x.id < e.id
    PROVE  InOrder(Append(s, e))
<1>1. /\ Len(s) \in Nat /\ DOMAIN s = 1 .. Len(s) /\ DOMAIN Append(s, e) = 1 .. Len(s) + 1
      /\ \A i \in 1 .. Len(s) : Append(s, e)[i] = s[i] /\ Append(s, e)[Len(s) + 1] = e
  BY AppendProperties, LenProperties
<1> SUFFICES ASSUME NEW i \in 1 .. Len(s) + 1, NEW j \in 1 .. Len(s) + 1, i < j
             PROVE  Append(s, e)[i].id < Append(s, e)[j].id
  BY <1>1 DEF InOrder
<1>2. i \in 1 .. Len(s) /\ s[i] \in Range(s) BY <1>1 DEF Range
<1>3. CASE j \in 1 .. Len(s) BY <1>1, <1>2, <1>3 DEF InOrder
<1>4. CASE j = Len(s) + 1 BY <1>1, <1>2, <1>4
<1> QED BY <1>1, <1>3, <1>4

LEMMA ConcatInOrder ==
    ASSUME NEW X, NEW s \in Seq(X), NEW t \in Seq(X), InOrder(s), InOrder(t),
           \A x \in Range(s), y \in Range(t) : x.id < y.id
    PROVE  InOrder(s \o t)
<1>1. /\ Len(s) \in Nat /\ DOMAIN s = 1 .. Len(s) /\ Len(t) \in Nat /\ DOMAIN t = 1 .. Len(t)
      /\ DOMAIN (s \o t) = 1 .. Len(s) + Len(t)
      /\ \A i \in 1 .. Len(s) + Len(t) : (s \o t)[i] = IF i <= Len(s) THEN s[i] ELSE t[i - Len(s)]
  BY ConcatProperties, LenProperties
<1> SUFFICES ASSUME NEW i \in 1 .. Len(s) + Len(t), NEW j \in 1 .. Len(s) + Len(t), i < j
             PROVE  (s \o t)[i].id < (s \o t)[j].id
  BY <1>1 DEF InOrder
<1>2. CASE j <= Len(s)
  <2>1. i \in DOMAIN s /\ j \in DOMAIN s /\ (s \o t)[i] = s[i] /\ (s \o t)[j] = s[j]
    BY <1>1, <1>2
  <2> QED BY <2>1 DEF InOrder
<1>3. CASE i <= Len(s) /\ ~(j <= Len(s))
  <2>1. i \in DOMAIN s /\ j - Len(s) \in DOMAIN t BY <1>1, <1>3
  <2>2. (s \o t)[i] = s[i] /\ (s \o t)[j] = t[j - Len(s)] BY <1>1, <1>3
  <2>3. s[i] \in Range(s) /\ t[j - Len(s)] \in Range(t) BY <2>1 DEF Range
  <2> QED BY <2>2, <2>3
<1>4. CASE ~(i <= Len(s))
  <2>1. i - Len(s) \in DOMAIN t /\ j - Len(s) \in DOMAIN t /\ i - Len(s) < j - Len(s)
    BY <1>1, <1>4
  <2>2. (s \o t)[i] = t[i - Len(s)] /\ (s \o t)[j] = t[j - Len(s)] BY <1>1, <1>4
  <2> QED BY <2>1, <2>2 DEF InOrder
<1> QED BY <1>2, <1>3, <1>4

LEMMA FilteredInOrder ==
    ASSUME NEW X, NEW s \in Seq(X), NEW S, InOrder(s)
    PROVE  InOrder(Filtered(s, S))
<1>1. PICK N \in Nat : N = Len(s) /\ DOMAIN s = 1 .. N BY LenProperties
<1>0. PICK h : Filters(h, s, S) BY FilteredMade
<1>2. /\ h[0] = <<>> /\ h[N] = Filtered(s, S)
      /\ \A n \in 1 .. N : h[n] = IF s[n] \in S THEN Append(h[n - 1], s[n]) ELSE h[n - 1]
  BY <1>0, <1>1 DEF Filters
<1> DEFINE Some == {n \in Nat : n <= N =>
                      /\ h[n] \in Seq(X) /\ InOrder(h[n])
                      /\ Range(h[n]) \subseteq {s[i] : i \in 1 .. n}}
<1>3. 0 \in Some
  <2>1. <<>> \in Seq(X) /\ Range(<<>>) = {} /\ DOMAIN <<>> = {} BY DEF Range
  <2> QED BY <1>2, <2>1 DEF InOrder
<1>4. ASSUME NEW n \in Nat, n \in Some PROVE n + 1 \in Some
  <2> SUFFICES ASSUME n + 1 <= N
               PROVE  /\ h[n + 1] \in Seq(X) /\ InOrder(h[n + 1])
                      /\ Range(h[n + 1]) \subseteq {s[i] : i \in 1 .. n + 1}
    OBVIOUS
  <2>1. n + 1 \in 1 .. N /\ (n + 1) - 1 = n BY <1>1
  <2>2. h[n + 1] = IF s[n + 1] \in S THEN Append(h[n], s[n + 1]) ELSE h[n] BY <1>2, <2>1
  <2>3. /\ h[n] \in Seq(X) /\ InOrder(h[n])
        /\ Range(h[n]) \subseteq {s[i] : i \in 1 .. n}
    BY <1>4
  <2>4. s[n + 1] \in X BY <1>1, <2>1, ElementOfSeq
  <2>5. {s[i] : i \in 1 .. n} \subseteq {s[i] : i \in 1 .. n + 1}
        /\ s[n + 1] \in {s[i] : i \in 1 .. n + 1}
    OBVIOUS
  <2>6. CASE s[n + 1] \in S
    <3>1. h[n + 1] = Append(h[n], s[n + 1]) BY <2>2, <2>6
    <3>2. Append(h[n], s[n + 1]) \in Seq(X)
          /\ Range(Append(h[n], s[n + 1])) = Range(h[n]) \union {s[n + 1]}
      BY <2>3, <2>4, AppendedRange
    <3>3. ASSUME NEW x \in Range(h[n]) PROVE x.id < s[n + 1].id
      <4>1. PICK i \in 1 .. n : x = s[i] BY <2>3
      <4>2. i \in DOMAIN s /\ n + 1 \in DOMAIN s /\ i < n + 1 BY <1>1, <2>1
      <4> QED BY <4>1, <4>2 DEF InOrder
    <3>4. InOrder(Append(h[n], s[n + 1])) BY <2>3, <2>4, <3>3, AppendInOrder
    <3> QED BY <2>3, <2>5, <3>1, <3>2, <3>4
  <2>7. CASE s[n + 1] \notin S BY <2>2, <2>3, <2>5, <2>7
  <2> QED BY <2>6, <2>7
<1>5. N \in Some
  <2> HIDE DEF Some
  <2> QED BY <1>3, <1>4, Induct
<1> QED BY <1>2, <1>5

\* In order, there is one list of the same rules.
LEMMA OneOrder ==
    ASSUME NEW X, \A x \in X : x.id \in Int, NEW s \in Seq(X), NEW t \in Seq(X),
           InOrder(s), InOrder(t), Range(s) = Range(t)
    PROVE  s = t
<1>1. PICK M \in Nat, N \in Nat : DOMAIN s = 1 .. M /\ DOMAIN t = 1 .. N /\ M = Len(s) /\ N = Len(t)
  BY LenProperties
<1>2. /\ \A i \in 1 .. M : s[i] \in X /\ s[i].id \in Int
      /\ \A i \in 1 .. N : t[i] \in X /\ t[i].id \in Int
  BY <1>1, ElementOfSeq
<1>3. /\ \A i \in 1 .. M : \E j \in 1 .. N : s[i] = t[j]
      /\ \A j \in 1 .. N : \E i \in 1 .. M : s[i] = t[j]
  BY <1>1 DEF Range
<1>4. /\ \A i, j \in 1 .. M : i < j => s[i].id < s[j].id
      /\ \A i, j \in 1 .. N : i < j => t[i].id < t[j].id
  BY <1>1 DEF InOrder
<1> DEFINE Same == {n \in Nat : n <= M => n <= N /\ \A i \in 1 .. n : s[i] = t[i]}
<1>5. 0 \in Same OBVIOUS
<1>6. ASSUME NEW n \in Nat, n \in Same PROVE n + 1 \in Same
  <2> SUFFICES ASSUME n + 1 <= M PROVE n + 1 <= N /\ \A i \in 1 .. n + 1 : s[i] = t[i]
    OBVIOUS
  <2>1. n + 1 \in 1 .. M /\ n <= N /\ \A i \in 1 .. n : s[i] = t[i] BY <1>6
  <2>2. PICK j \in 1 .. N : s[n + 1] = t[j] BY <1>3, <2>1
  <2>3. ~(j <= n)
    <3> SUFFICES ASSUME j <= n PROVE FALSE OBVIOUS
    <3>1. j \in 1 .. n /\ j \in 1 .. M /\ s[j] = t[j] BY <2>1
    <3>2. s[j].id < s[n + 1].id BY <1>4, <2>1, <3>1
    <3> QED BY <1>2, <2>1, <2>2, <3>1, <3>2
  <2>4. n + 1 \in 1 .. N BY <2>3
  <2>5. PICK k \in 1 .. M : s[k] = t[n + 1] BY <1>3, <2>4
  <2>6. ~(k <= n)
    <3> SUFFICES ASSUME k <= n PROVE FALSE OBVIOUS
    <3>1. k \in 1 .. n /\ k \in 1 .. N /\ s[k] = t[k] BY <2>1
    <3>2. t[k].id < t[n + 1].id BY <1>4, <2>4, <3>1
    <3> QED BY <1>2, <2>4, <2>5, <3>1, <3>2
  <2>7. s[n + 1] = t[n + 1]
    <3>1. CASE k = n + 1 BY <2>5, <3>1
    <3>2. CASE j = n + 1 BY <2>2, <3>2
    <3>3. CASE n + 1 < k /\ n + 1 < j
      <4>1. s[n + 1].id < s[k].id BY <1>4, <2>1, <3>3
      <4>2. t[n + 1].id < t[j].id BY <1>4, <2>4, <3>3
      <4> QED BY <1>2, <2>1, <2>2, <2>4, <2>5, <4>1, <4>2
    <3> QED BY <2>3, <2>6, <3>1, <3>2, <3>3
  <2> QED BY <2>1, <2>4, <2>7
<1>7. M <= N /\ \A i \in 1 .. M : s[i] = t[i]
  <2>1. M \in Same
    <3> HIDE DEF Same
    <3> QED BY <1>5, <1>6, Induct
  <2> QED BY <2>1
<1>8. ~(M < N)
  <2> SUFFICES ASSUME M < N PROVE FALSE OBVIOUS
  <2>1. M + 1 \in 1 .. N OBVIOUS
  <2>2. PICK k \in 1 .. M : s[k] = t[M + 1] BY <1>3, <2>1
  <2>3. k \in 1 .. N /\ k < M + 1 /\ t[k] = t[M + 1] BY <1>7, <2>2
  <2>4. t[k].id < t[M + 1].id BY <1>4, <2>1, <2>3
  <2> QED BY <1>2, <2>1, <2>3, <2>4
<1> HIDE DEF Same
<1>9. M = N /\ DOMAIN s = DOMAIN t
  <2>1. M = N BY <1>7, <1>8
  <2> QED BY <1>1, <2>1
<1>10. \A i \in DOMAIN s : s[i] = t[i] BY <1>1, <1>7
<1>11. s \in [1 .. M -> X] /\ t \in [1 .. M -> X] BY <1>1, <1>9, SeqDef, LenProperties
<1> QED BY <1>1, <1>10, <1>11

\* The rules of a run in storage.
IsRules(s) == s \in Seq(Rules) /\ InOrder(s)

LEMMA RulesAre ==
    ASSUME NEW s, IsRules(s)
    PROVE  /\ Len(s) \in Nat /\ DOMAIN s = 1 .. Len(s) /\ Range(s) \subseteq Rules
           /\ \A i \in DOMAIN s : s[i] \in Rules /\ s[i].id \in Nat \ {0} /\ s[i] = Rule(s[i].id, s[i].text)
<1>1. /\ Len(s) \in Nat /\ DOMAIN s = 1 .. Len(s) /\ Range(s) \subseteq Rules
      /\ \A i \in DOMAIN s : s[i] \in Rules
  BY LenProperties, ElementOfSeq, RangeOfSeq DEF IsRules
<1>2. \A e \in Rules : e.id \in Nat \ {0} /\ e = Rule(e.id, e.text) BY DEF Rules, Rule
<1> QED BY <1>1, <1>2

\* A rule is known by its id.
LEMMA OneOfAnId ==
    ASSUME NEW s, IsRules(s), NEW x \in Range(s), NEW y \in Range(s), x.id = y.id
    PROVE  x = y
<1>1. PICK i \in DOMAIN s, j \in DOMAIN s : x = s[i] /\ y = s[j] BY DEF Range
<1>2. DOMAIN s \subseteq Nat /\ s[i].id \in Nat /\ s[j].id \in Nat BY RulesAre
<1>3. ~(i < j) /\ ~(j < i) BY <1>1, <1>2 DEF IsRules, InOrder
<1> QED BY <1>1, <1>2, <1>3

LEMMA WithTextIs ==
    ASSUME NEW s, IsRules(s), NEW id, NEW text
    PROVE  /\ DOMAIN WithText(s, id, text) = DOMAIN s
           /\ \A i \in DOMAIN s :
                 WithText(s, id, text)[i] = IF s[i].id = id THEN Rule(id, text) ELSE s[i]
BY DEF WithText, Replaced

LEMMA WithTextIsRules ==
    ASSUME NEW s, IsRules(s), NEW id, NEW text \in Words
    PROVE  IsRules(WithText(s, id, text))
           /\ {e.id : e \in Range(WithText(s, id, text))} = {e.id : e \in Range(s)}
<1> DEFINE t == WithText(s, id, text)
<1>1. DOMAIN t = DOMAIN s
      /\ \A i \in DOMAIN s : t[i] = IF s[i].id = id THEN Rule(id, text) ELSE s[i]
  BY WithTextIs
<1>2. Len(s) \in Nat /\ DOMAIN s = 1 .. Len(s)
      /\ \A i \in DOMAIN s : s[i] \in Rules /\ s[i].id \in Nat \ {0}
  BY RulesAre
<1>3. ASSUME NEW i \in DOMAIN s PROVE t[i] \in Rules /\ t[i].id = s[i].id
  BY <1>1, <1>2 DEF Rule, Rules
<1>4. t = [i \in 1 .. Len(s) |-> t[i]] BY <1>2 DEF WithText, Replaced
<1> HIDE DEF t
<1>5. t \in Seq(Rules) BY <1>2, <1>3, <1>4, SeqDef
<1>6. InOrder(t) BY <1>1, <1>3 DEF IsRules, InOrder
<1>7. {e.id : e \in Range(t)} = {e.id : e \in Range(s)} BY <1>1, <1>3 DEF Range
<1> QED BY <1>5, <1>6, <1>7 DEF IsRules, t

LEMMA FilteredIsRules ==
    ASSUME NEW s, IsRules(s), NEW S
    PROVE  IsRules(Filtered(s, S)) /\ Range(Filtered(s, S)) = Range(s) \intersect S
BY FilteredRange, FilteredInOrder DEF IsRules

\* What is found of an id.
LEMMA Found ==
    ASSUME NEW s, IsRules(s), NEW id, Find(s, id) # <<>>
    PROVE  Find(s, id)[1] \in Range(s) /\ Find(s, id)[1].id = id
<1> DEFINE S == {e \in Range(s) : e.id = id}
<1>1. PICK t : t = Find(s, id) /\ t = Filtered(s, S) BY DEF Find
<1>2. IsRules(t) /\ Range(t) = Range(s) \intersect S BY <1>1, FilteredIsRules
<1>3. 1 \in DOMAIN t
  <2>1. t \in Seq(Rules) BY <1>2 DEF IsRules
  <2> QED BY <1>1, <2>1, LenProperties, EmptySeq
<1>4. t[1] \in Range(t) BY <1>3 DEF Range
<1> QED BY <1>1, <1>2, <1>4

LEMMA NotFound ==
    ASSUME NEW s, IsRules(s), NEW id, Find(s, id) = <<>>
    PROVE  \A i \in DOMAIN s : s[i].id # id
<1> SUFFICES ASSUME NEW i \in DOMAIN s, s[i].id = id PROVE FALSE OBVIOUS
<1> DEFINE S == {e \in Range(s) : e.id = id}
<1>1. PICK t : t = Find(s, id) /\ t = Filtered(s, S) BY DEF Find
<1>2. IsRules(t) /\ Range(t) = Range(s) \intersect S BY <1>1, FilteredIsRules
<1>3. s[i] \in Range(t) BY <1>2 DEF Range
<1>4. Range(t) = {} BY <1>1 DEF Range
<1> QED BY <1>3, <1>4

\* An update of what is not there, and a deletion of it, change nothing.
LEMMA NothingToEdit ==
    ASSUME NEW s, IsRules(s), NEW id, Find(s, id) = <<>>
    PROVE  (\A text : WithText(s, id, text) = s) /\ Without(s, id) = s
<1>1. \A i \in DOMAIN s : s[i].id # id BY NotFound
<1>2. DOMAIN s = 1 .. Len(s) /\ \A i \in DOMAIN s : s[i].id \in Nat BY RulesAre
<1>3. ASSUME NEW text PROVE WithText(s, id, text) = s
  <2>1. s = [i \in DOMAIN s |-> s[i]] BY <1>2, SeqDef DEF IsRules
  <2>2. WithText(s, id, text) = [i \in DOMAIN s |-> s[i]] BY <1>1 DEF WithText, Replaced
  <2> QED BY <2>1, <2>2
<1>4. PICK t : t = Without(s, id) /\ t = Filtered(s, {e \in Range(s) : e.id # id}) BY DEF Without
<1>5. IsRules(t) /\ Range(t) = Range(s) \intersect {e \in Range(s) : e.id # id}
  BY <1>4, FilteredIsRules
<1>6. Range(t) = Range(s) BY <1>1, <1>5 DEF Range
<1>7. \A e \in Rules : e.id \in Int BY DEF Rules
<1>8. t = s BY <1>5, <1>6, <1>7, OneOrder DEF IsRules
<1> QED BY <1>3, <1>4, <1>8

\* A text that is written back.
LEMMA UpdateIsUndone ==
    ASSUME NEW s, IsRules(s), NEW id, NEW text, Find(s, id) # <<>>
    PROVE  WithText(WithText(s, id, text), id, Find(s, id)[1].text) = s
<1> DEFINE old == Find(s, id)[1].text
           t == WithText(s, id, text)
           u == WithText(t, id, old)
<1>1. Find(s, id)[1] \in Range(s) /\ Find(s, id)[1].id = id BY Found
<1>2. DOMAIN t = DOMAIN s
      /\ \A i \in DOMAIN s : t[i] = IF s[i].id = id THEN Rule(id, text) ELSE s[i]
  BY WithTextIs
<1>3. /\ u = [i \in DOMAIN s |-> u[i]]
      /\ \A i \in DOMAIN s : u[i] = IF t[i].id = id THEN Rule(id, old) ELSE t[i]
  BY <1>2 DEF WithText, Replaced
<1>4. s = [i \in DOMAIN s |-> s[i]] BY RulesAre, SeqDef DEF IsRules
<1> HIDE DEF t, u
<1>5. ASSUME NEW i \in DOMAIN s PROVE u[i] = s[i]
  <2>1. CASE s[i].id = id
    <3>1. s[i] \in Range(s) BY DEF Range
    <3>2. s[i] = Find(s, id)[1] BY <1>1, <2>1, <3>1, OneOfAnId
    <3>3. s[i] = Rule(s[i].id, s[i].text) BY RulesAre
    <3>4. t[i].id = id BY <1>2, <2>1 DEF Rule
    <3>5. u[i] = Rule(id, old) BY <1>3, <3>4
    <3> QED BY <2>1, <3>2, <3>3, <3>5
  <2>2. CASE s[i].id # id BY <1>2, <1>3, <2>2
  <2> QED BY <2>1, <2>2
<1>6. u = s BY <1>3, <1>4, <1>5
<1> QED BY <1>6 DEF t, u

\* A rule that is put back where it was.
LEMMA DeletionIsUndone ==
    ASSUME NEW s, IsRules(s), NEW id, Find(s, id) # <<>>
    PROVE  Restored(Without(s, id), Find(s, id)[1]) = s
<1>1. PICK row : row = Find(s, id)[1] /\ row \in Range(s) /\ row.id = id BY Found
<1>2. row \in Rules /\ \A e \in Rules : e.id \in Nat \ {0}
  BY <1>1, RulesAre DEF Rules
<1>3. PICK t : t = Without(s, id) /\ t = Filtered(s, {e \in Range(s) : e.id # id}) BY DEF Without
<1>4. IsRules(t) /\ Range(t) = {e \in Range(s) : e.id # id} BY <1>3, FilteredIsRules
<1>5. Range(t) \subseteq Rules BY <1>4, RulesAre
<1> DEFINE earlier == {e \in Range(t) : e.id > 0 /\ e.id <= row.id}
<1>6. PICK a : a = Filtered(t, earlier) /\ IsRules(a) /\ Range(a) = earlier
  <2> DEFINE f == Filtered(t, earlier)
  <2>1. IsRules(f) /\ Range(f) = Range(t) \intersect earlier BY <1>4, FilteredIsRules
  <2>2. earlier \subseteq Range(t) OBVIOUS
  <2> HIDE DEF earlier
  <2> QED BY <2>1, <2>2
<1>7. PICK b : b = Filtered(t, Range(t) \ earlier) /\ IsRules(b) /\ Range(b) = Range(t) \ earlier
  <2> DEFINE f == Filtered(t, Range(t) \ earlier)
  <2>1. IsRules(f) /\ Range(f) = Range(t) \intersect (Range(t) \ earlier)
    BY <1>4, FilteredIsRules
  <2> HIDE DEF earlier
  <2> QED BY <2>1
<1>8. PICK one : one = <<row>> /\ one \in Seq(Rules) /\ Range(one) = {row} /\ InOrder(one)
  <2>1. <<row>> \in Seq(Rules) /\ Range(<<row>>) = {row} BY <1>2, OneRange
  <2>2. InOrder(<<row>>) BY DEF InOrder
  <2> QED BY <2>1, <2>2
<1>9. Restored(t, row) = (a \o one) \o b BY <1>6, <1>7, <1>8 DEF Restored
<1>10. \A x \in Range(a) : x.id < row.id BY <1>1, <1>2, <1>4, <1>5, <1>6
<1>11. \A x \in Range(b) : row.id < x.id BY <1>1, <1>2, <1>4, <1>5, <1>7
<1>12. PICK c : c = a \o one /\ c \in Seq(Rules) /\ InOrder(c) /\ Range(c) = Range(a) \union {row}
  <2>1. a \in Seq(Rules) /\ InOrder(a) BY <1>6 DEF IsRules
  <2>2. a \o one \in Seq(Rules) /\ Range(a \o one) = Range(a) \union Range(one)
    BY <1>8, <2>1, ConcatRange
  <2>3. InOrder(a \o one) BY <1>8, <1>10, <2>1, ConcatInOrder
  <2> QED BY <1>8, <2>2, <2>3
<1>13. \A x \in Range(c), y \in Range(b) : x.id < y.id
  <2>1. \A y \in Range(b) : y.id \in Nat BY <1>2, <1>5, <1>7
  <2>2. \A x \in Range(a) : x.id \in Nat BY <1>2, <1>5, <1>6
  <2> QED BY <1>2, <1>10, <1>11, <1>12, <2>1, <2>2
<1>14. PICK d : d = c \o b /\ d \in Seq(Rules) /\ InOrder(d) /\ Range(d) = Range(c) \union Range(b)
  <2>1. b \in Seq(Rules) /\ InOrder(b) BY <1>7 DEF IsRules
  <2>2. c \o b \in Seq(Rules) /\ Range(c \o b) = Range(c) \union Range(b)
    <3>1. c \in Seq(Rules) BY <1>12
    <3> QED BY <2>1, <3>1, ConcatRange, Zenon
  <2>3. InOrder(c \o b) BY <1>12, <1>13, <2>1, ConcatInOrder
  <2> QED BY <2>2, <2>3
<1>15. Range(d) = Range(s)
  <2>1. Range(d) = (earlier \union {row}) \union (Range(t) \ earlier) BY <1>6, <1>7, <1>12, <1>14
  <2>2. Range(s) = Range(t) \union {row}
    <3>1. \A e \in Range(s) : e.id = id => e = row BY <1>1, OneOfAnId
    <3> QED BY <1>1, <1>4, <3>1
  <2> QED BY <2>1, <2>2
<1>16. d = s
  <2>1. \A e \in Rules : e.id \in Int BY <1>2
  <2> QED BY <1>14, <1>15, <2>1, OneOrder DEF IsRules
<1> QED BY <1>1, <1>3, <1>9, <1>12, <1>14, <1>16

-----------------------------------------------------------------------------
(* Edits that failed are undone *)

IsInfo(i) == i = [status |-> i.status, at |-> i.at, rules |-> i.rules]

\* What was read of a run is what is stored, as long as the date is the same;
\* every save has a later one.
FreshIn(info, r, runs, time) ==
    /\ info.at \in 0 .. time
    /\ r \in DOMAIN runs =>
          info.at <= runs[r].at /\ (info.at = runs[r].at => info = runs[r])

\* An info with other rules
Ruled(i, rules) == [status |-> i.status, at |-> i.at, rules |-> rules]

\* What the cached info will be if the CLI refuses the command.
Undone(info, w) ==
    IF w.prev = <<>> THEN info
    ELSE CASE w.kind = "update" -> Ruled(info, WithText(info.rules, w.rule, w.prev[1].text))
           [] w.kind = "delete" -> Ruled(info, Restored(info.rules, w.prev[1]))
           [] OTHER -> info

Own(r) == {w \in works : w.run = r}

StoredWell ==
    /\ clock \in Nat
    /\ \A r \in DOMAIN stored :
          /\ IsInfo(stored[r]) /\ stored[r].at \in 0 .. clock
          /\ IsRules(stored[r].rules)
          /\ \A e \in Range(stored[r].rules) : e.id <= clock + 1

FetchesWell ==
    \A f \in fetches :
        /\ {"run", "chat", "got"} \subseteq DOMAIN f
        /\ f.got \in {Asked, Failed} \/ (IsInfo(f.got) /\ FreshIn(f.got, f.run, stored, clock))

IsWork(w) ==
    /\ DOMAIN w = {"id", "kind", "run", "rule", "text", "prev", "held", "state"}
    /\ w.kind \in {"create", "update", "delete"}
    /\ w.text \in Words /\ w.state \in {"asked", "done", "failed"}

\* A run on whose rules nothing crossed has one command at most; its info has
\* been cached since that began, and is fresh but for what the command did.
CacheWell(r) ==
    /\ r \in DOMAIN cache => IsInfo(cache[r]) /\ cache[r].at \in 0 .. clock
    /\ r \notin crossed =>
          /\ \A w, v \in Own(r) : w = v
          /\ r \in DOMAIN cache =>
                /\ Own(r) = {} => FreshIn(cache[r], r, stored, clock)
                /\ \A w \in Own(r) :
                      /\ w.held
                      /\ IF w.state = "done" THEN r \in DOMAIN stored => cache[r].at < stored[r].at
                         ELSE FreshIn(Undone(cache[r], w), r, stored, clock)

Mended == StoredWell /\ FetchesWell /\ (\A w \in works : IsWork(w)) /\ \A r : CacheWell(r)

\* What is saved has a later date.
Later(runs, time, next, then) ==
    /\ time \in Nat /\ then \in Nat /\ time <= then
    /\ \A r \in DOMAIN next : \/ r \in DOMAIN runs /\ next[r] = runs[r]
                              \/ next[r].at \in Nat /\ next[r].at > time

LEMMA FreshStays ==
    ASSUME NEW runs, NEW time, NEW next, NEW then, Later(runs, time, next, then),
           NEW info, NEW r, FreshIn(info, r, runs, time)
    PROVE  FreshIn(info, r, next, then)
BY DEF FreshIn, Later

LEMMA StorageStays ==
    ASSUME clock \in Nat, UNCHANGED storage PROVE Later(stored, clock, stored', clock')
BY DEF Later, storage

\* A run of which nothing but the storage has changed, or which is cached no
\* more.
LEMMA Untouched ==
    ASSUME NEW r, CacheWell(r), Later(stored, clock, stored', clock'),
           r \in DOMAIN cache' => r \in DOMAIN cache /\ cache'[r] = cache[r],
           \/ Own(r)' = Own(r)
           \/ r \notin DOMAIN cache' /\ Own(r)' = {[w EXCEPT !.held = FALSE] : w \in Own(r)},
           r \notin crossed' => r \notin crossed
    PROVE  CacheWell(r)'
<1>1. r \in DOMAIN cache' => IsInfo(cache'[r]) /\ cache'[r].at \in 0 .. clock'
  BY DEF CacheWell, Later
<1> SUFFICES ASSUME r \notin crossed'
             PROVE  /\ \A w, v \in Own(r)' : w = v
                    /\ r \in DOMAIN cache' =>
                          /\ Own(r)' = {} => FreshIn(cache'[r], r, stored', clock')
                          /\ \A w \in Own(r)' :
                                /\ w.held
                                /\ IF w.state = "done" THEN r \in DOMAIN stored' => cache'[r].at < stored'[r].at
                                   ELSE FreshIn(Undone(cache'[r], w), r, stored', clock')
  BY <1>1 DEF CacheWell
<1>2. \A w, v \in Own(r)' : w = v BY DEF CacheWell
<1> SUFFICES ASSUME r \in DOMAIN cache'
             PROVE  /\ Own(r)' = {} => FreshIn(cache'[r], r, stored', clock')
                    /\ \A w \in Own(r)' :
                          /\ w.held
                          /\ IF w.state = "done" THEN r \in DOMAIN stored' => cache'[r].at < stored'[r].at
                             ELSE FreshIn(Undone(cache'[r], w), r, stored', clock')
  BY <1>2
<1>3. r \notin crossed /\ r \in DOMAIN cache /\ cache'[r] = cache[r] /\ Own(r)' = Own(r)
  OBVIOUS
<1>4. ASSUME Own(r)' = {} PROVE FreshIn(cache'[r], r, stored', clock')
  <2>1. FreshIn(cache[r], r, stored, clock) BY <1>3, <1>4 DEF CacheWell
  <2> QED BY <1>3, <2>1, FreshStays
<1>5. ASSUME NEW w \in Own(r)' PROVE w.held BY <1>3, <1>5 DEF CacheWell
<1>6. ASSUME NEW w \in Own(r)', w.state = "done", r \in DOMAIN stored'
      PROVE  cache'[r].at < stored'[r].at
  <2>1. r \in DOMAIN stored => cache[r].at < stored[r].at BY <1>3, <1>6 DEF CacheWell
  <2>2. cache[r].at \in 0 .. clock BY <1>3 DEF CacheWell
  <2> QED BY <1>3, <1>6, <2>1, <2>2 DEF Later
<1>7. ASSUME NEW w \in Own(r)', w.state # "done"
      PROVE  FreshIn(Undone(cache'[r], w), r, stored', clock')
  <2>1. FreshIn(Undone(cache[r], w), r, stored, clock) BY <1>3, <1>7 DEF CacheWell
  <2> QED BY <1>3, <2>1, FreshStays
<1> QED BY <1>4, <1>5, <1>6, <1>7

LEMMA FetchesStay ==
    ASSUME FetchesWell, Later(stored, clock, stored', clock'),
           \A f \in fetches' : f \in fetches \/ \E r, chat : f = Fetch(r, chat)
    PROVE  FetchesWell'
<1> SUFFICES ASSUME NEW f \in fetches'
             PROVE  /\ {"run", "chat", "got"} \subseteq DOMAIN f
                    /\ f.got \in {Asked, Failed}
                       \/ (IsInfo(f.got) /\ FreshIn(f.got, f.run, stored', clock'))
  BY DEF FetchesWell
<1>1. CASE f \in fetches BY <1>1, FreshStays DEF FetchesWell
<1>2. CASE \E r, chat : f = Fetch(r, chat) BY <1>2 DEF Fetch
<1> QED BY <1>1, <1>2

\* Runs that are forgotten, and others that are left alone.
LEMMA ForgottenIsMended ==
    ASSUME Mended, UNCHANGED <<storage, crossed>>,
           UNCHANGED <<cache, works>> \/ \E S : Forget(S),
           \A f \in fetches' : f \in fetches \/ \E r, chat : f = Fetch(r, chat)
    PROVE  Mended'
<1>1. Later(stored, clock, stored', clock') BY StorageStays DEF Mended, StoredWell
<1>2. StoredWell' BY DEF Mended, StoredWell, storage
<1>3. FetchesWell' BY <1>1, FetchesStay DEF Mended
<1>4. CASE UNCHANGED <<cache, works>>
  <2>1. ASSUME NEW r PROVE CacheWell(r)'
    <3>1. Own(r)' = Own(r) BY <1>4 DEF Own
    <3> QED BY <1>1, <1>4, <3>1, Untouched DEF Mended
  <2> QED BY <1>2, <1>3, <1>4, <2>1 DEF Mended
<1>5. ASSUME NEW S, Forget(S) PROVE Mended'
  <2>1. cache' = Uncached(cache, S) /\ works' = Detached(works, S) BY <1>5 DEF Forget
  <2>2. \A w \in works : IsWork(w) BY DEF Mended
  <2>3. \A w \in works' : IsWork(w) BY <2>1, <2>2 DEF Detached, IsWork
  <2>4. ASSUME NEW r PROVE CacheWell(r)'
    <3>1. r \in DOMAIN cache' => r \in DOMAIN cache /\ cache'[r] = cache[r] /\ r \notin S
      BY <2>1 DEF Uncached
    <3>2. CASE r \in S
      <4>1. Own(r)' = {[w EXCEPT !.held = FALSE] : w \in Own(r)}
        BY <2>1, <2>2, <3>2 DEF Own, Detached, IsWork
      <4> QED BY <1>1, <3>1, <3>2, <4>1, Untouched DEF Mended
    <3>3. CASE r \notin S
      <4>1. Own(r)' = Own(r) BY <2>1, <2>2, <3>3 DEF Own, Detached, IsWork
      <4> QED BY <1>1, <3>1, <4>1, Untouched DEF Mended
    <3> QED BY <3>2, <3>3
  <2> QED BY <1>2, <1>3, <2>3, <2>4 DEF Mended
<1> QED BY <1>4, <1>5

\* Saves by others than the handlers of rules.
LEMMA SavedIsMended ==
    ASSUME Mended, StoredWell', Later(stored, clock, stored', clock'),
           UNCHANGED <<cache, fetches, works, crossed>>
    PROVE  Mended'
<1>1. FetchesWell' BY FetchesStay DEF Mended
<1>2. ASSUME NEW r PROVE CacheWell(r)'
  <2>1. Own(r)' = Own(r) BY DEF Own
  <2> QED BY <2>1, Untouched DEF Mended
<1> QED BY <1>1, <1>2 DEF Mended

LEMMA OneRule == ASSUME NEW e \in Rules PROVE IsRules(<<e>>) /\ Range(<<e>>) = {e}
<1>1. <<e>> \in Seq(Rules) /\ Range(<<e>>) = {e} BY OneRange
<1>2. DOMAIN <<e>> = {1} OBVIOUS
<1>3. InOrder(<<e>>) BY <1>2 DEF InOrder
<1> QED BY <1>1, <1>3 DEF IsRules

LEMMA MendedAtFirst == ChatInit => Mended
<1> SUFFICES ASSUME ChatInit PROVE Mended OBVIOUS
<1>1. clock = 0 /\ cache = NoInfos /\ works = {} /\ crossed = {} BY DEF ChatInit
<1>2. ASSUME NEW r \in DOMAIN stored
      PROVE  /\ IsInfo(stored[r]) /\ stored[r].at \in 0 .. clock /\ IsRules(stored[r].rules)
             /\ \A e \in Range(stored[r].rules) : e.id <= clock + 1
  <2>1. PICK s : stored[r] = [status |-> s, at |-> 0, rules |-> <<Rule(1, FirstText)>>]
    BY DEF ChatInit
  <2>2. Rule(1, FirstText) \in Rules /\ Rule(1, FirstText).id = 1 BY DEF Rule, Rules, Words
  <2>3. IsRules(stored[r].rules) /\ Range(stored[r].rules) = {Rule(1, FirstText)}
    BY <2>1, <2>2, OneRule
  <2>4. IsInfo(stored[r]) /\ stored[r].at = 0 BY <2>1 DEF IsInfo
  <2> QED BY <1>1, <2>2, <2>3, <2>4
<1>3. FetchesWell
  <2>1. fetches = Wanted(tabs, cache) \/ fetches = {} BY DEF ChatInit
  <2> QED BY <2>1 DEF Wanted, Fetch, FetchesWell
<1>4. \A r : CacheWell(r) BY <1>1 DEF CacheWell, Own, NoInfos
<1> QED BY <1>1, <1>2, <1>3, <1>4 DEF Mended, StoredWell

LEMMA MaxIs ==
    ASSUME NEW n \in Nat, NEW S, S \subseteq 0 .. n, S # {}
    PROVE  Max(S) \in S /\ \A y \in S : Max(S) >= y
<1> DEFINE Some == {k \in Nat : \A T \in SUBSET (0 .. k) : T # {} => \E m \in T : \A y \in T : m >= y}
<1>1. 0 \in Some
  <2> SUFFICES ASSUME NEW T \in SUBSET (0 .. 0), T # {} PROVE \E m \in T : \A y \in T : m >= y
    OBVIOUS
  <2>1. T = {0}
    <3>1. 0 .. 0 = {0} OBVIOUS
    <3> QED BY <3>1
  <2> QED BY <2>1
<1>2. ASSUME NEW k \in Nat, k \in Some PROVE k + 1 \in Some
  <2> SUFFICES ASSUME NEW T \in SUBSET (0 .. k + 1), T # {}
               PROVE  \E m \in T : \A y \in T : m >= y
    OBVIOUS
  <2>1. CASE k + 1 \in T BY <2>1
  <2>2. CASE k + 1 \notin T
    <3>1. T \in SUBSET (0 .. k) BY <2>2
    <3> QED BY <1>2, <3>1
  <2> QED BY <2>1, <2>2
<1>3. n \in Some
  <2> HIDE DEF Some
  <2> QED BY <1>1, <1>2, Induct
<1>4. \E m \in S : \A y \in S : m >= y BY <1>3
<1> QED BY <1>4 DEF Max

\* A new rule has a number of its own.
LEMMA NewRuleIsNew ==
    ASSUME StoredWell
    PROVE  /\ NewRule \in Nat \ {0} /\ NewRule <= clock + 2
           /\ \A r \in DOMAIN stored : \A e \in Range(stored[r].rules) : e.id < NewRule
<1> DEFINE ids == {0} \union UNION {{e.id : e \in Range(stored[r].rules)} : r \in DOMAIN stored}
<1>1. clock + 1 \in Nat BY DEF StoredWell
<1>2. \A r \in DOMAIN stored : \A e \in Range(stored[r].rules) : e.id \in Nat /\ e.id <= clock + 1
  <2> SUFFICES ASSUME NEW r \in DOMAIN stored, NEW e \in Range(stored[r].rules)
               PROVE  e.id \in Nat /\ e.id <= clock + 1
    OBVIOUS
  <2>1. e \in Rules BY RulesAre DEF StoredWell
  <2> QED BY <2>1 DEF StoredWell, Rules
<1>3. ids \subseteq 0 .. clock + 1 BY <1>1, <1>2
<1>4. PICK S : S = ids OBVIOUS
<1>5. S \subseteq 0 .. clock + 1 /\ 0 \in S BY <1>3, <1>4
<1>6. Max(S) \in S /\ \A y \in S : Max(S) >= y
  <2>1. S # {} BY <1>5
  <2> QED BY <1>1, <1>5, <2>1, MaxIs
<1>7. NewRule = 1 + Max(S) BY <1>4 DEF NewRule, ids
<1> HIDE DEF ids
<1>8. Max(S) \in Nat /\ Max(S) <= clock + 1
  <2>1. Max(S) \in 0 .. clock + 1 BY <1>5, <1>6
  <2> QED BY <1>1, <2>1
<1>9. \A r \in DOMAIN stored : \A e \in Range(stored[r].rules) : e.id \in S BY <1>4 DEF ids
<1> QED BY <1>1, <1>2, <1>6, <1>7, <1>8, <1>9 DEF StoredWell

LEMMA RulesAfterWell ==
    ASSUME StoredWell, NEW w, IsWork(w), w.run \in DOMAIN stored
    PROVE  IsRules(RulesAfter(w)) /\ \A e \in Range(RulesAfter(w)) : e.id <= clock + 2
<1> DEFINE rules == stored[w.run].rules
<1>1. IsRules(rules) /\ Range(rules) \subseteq Rules /\ clock \in Nat
  BY RulesAre DEF StoredWell
<1>2. \A e \in Range(rules) : e.id \in Nat /\ e.id <= clock + 1 BY <1>1 DEF StoredWell, Rules
<1>3. CASE w.kind = "create"
  <2>1. RulesAfter(w) = Append(rules, Rule(NewRule, w.text)) BY <1>3 DEF RulesAfter
  <2>2. PICK e : e = Rule(NewRule, w.text) /\ e.id = NewRule /\ e \in Rules
    <3>1. NewRule \in Nat \ {0} /\ w.text \in Words BY NewRuleIsNew DEF IsWork
    <3>2. Rule(NewRule, w.text).id = NewRule /\ Rule(NewRule, w.text) \in Rules
      BY <3>1 DEF Rule, Rules
    <3> QED BY <3>2
  <2>3. rules \in Seq(Rules) /\ InOrder(rules) /\ \A x \in Range(rules) : x.id < e.id
    BY <1>1, <2>2, NewRuleIsNew DEF IsRules
  <2> HIDE DEF rules
  <2>4. Append(rules, e) \in Seq(Rules) /\ Range(Append(rules, e)) = Range(rules) \union {e}
    BY <2>2, <2>3, AppendedRange
  <2>5. InOrder(Append(rules, e)) BY <2>2, <2>3, AppendInOrder
  <2>6. \A x \in Range(Append(rules, e)) : x.id <= clock + 2
    BY <1>1, <1>2, <2>2, <2>4, NewRuleIsNew
  <2> QED BY <2>1, <2>2, <2>4, <2>5, <2>6 DEF IsRules
<1>4. CASE w.kind = "update"
  <2>1. RulesAfter(w) = WithText(rules, w.rule, w.text) BY <1>4 DEF RulesAfter
  <2>2. w.text \in Words BY DEF IsWork
  <2> HIDE DEF rules
  <2>3. IsRules(RulesAfter(w)) /\ {e.id : e \in Range(RulesAfter(w))} = {e.id : e \in Range(rules)}
    BY <1>1, <2>1, <2>2, WithTextIsRules
  <2>4. \A e \in Range(RulesAfter(w)) : \E x \in Range(rules) : e.id = x.id BY <2>3
  <2> QED BY <1>1, <1>2, <2>3, <2>4
<1>5. CASE w.kind = "delete"
  <2>1. RulesAfter(w) = Filtered(rules, {e \in Range(rules) : e.id # w.rule})
    BY <1>5 DEF RulesAfter, Without
  <2> HIDE DEF rules
  <2>2. IsRules(RulesAfter(w)) /\ Range(RulesAfter(w)) \subseteq Range(rules)
    <3>1. PICK S : S = {e \in Range(rules) : e.id # w.rule} OBVIOUS
    <3>2. IsRules(Filtered(rules, S)) /\ Range(Filtered(rules, S)) = Range(rules) \intersect S
      BY <1>1, FilteredIsRules
    <3> QED BY <2>1, <3>1, <3>2
  <2> QED BY <1>1, <1>2, <2>2
<1> QED BY <1>3, <1>4, <1>5 DEF IsWork

\* The CLI saves what a handler asked it for.
LEMMA CommandIsMended == ASSUME Mended, NEW w \in works, RuleCommandEnds(w) PROVE Mended'
<1>1. IsWork(w) /\ StoredWell /\ clock \in Nat BY DEF Mended, StoredWell
<1>2. UNCHANGED <<cache, fetches, crossed>> /\ w.state = "asked"
  BY DEF RuleCommandEnds, RuleCommandSaves, RuleCommandFails
<1>3. PICK v : /\ works' = (works \ {w}) \union {v} /\ IsWork(v)
               /\ v.run = w.run /\ v.held = w.held
               /\ \/ v.state = "done" /\ RuleCommandSaves(w)
                  \/ /\ v.state = "failed" /\ UNCHANGED storage
                     /\ v.kind = w.kind /\ v.prev = w.prev /\ v.rule = w.rule
  <2>1. CASE RuleCommandSaves(w)
    <3> DEFINE v == [w EXCEPT !.state = "done", !.rule = IF w.kind = "create" THEN NewRule ELSE @]
    <3>1. works' = (works \ {w}) \union {v} BY <2>1 DEF RuleCommandSaves
    <3>2. IsWork(v) /\ v.run = w.run /\ v.held = w.held /\ v.state = "done" BY <1>1 DEF IsWork
    <3> QED BY <2>1, <3>1, <3>2
  <2>2. CASE RuleCommandFails(w)
    <3> DEFINE v == [w EXCEPT !.state = "failed"]
    <3>1. works' = (works \ {w}) \union {v} /\ UNCHANGED storage
      BY <2>2 DEF RuleCommandFails
    <3>2. IsWork(v) /\ v.run = w.run /\ v.held = w.held /\ v.state = "failed"
          /\ v.kind = w.kind /\ v.prev = w.prev /\ v.rule = w.rule
      BY <1>1 DEF IsWork
    <3> QED BY <3>1, <3>2
  <2> QED BY <2>1, <2>2 DEF RuleCommandEnds
<1>4. ASSUME RuleCommandSaves(w)
      PROVE  /\ StoredWell' /\ Later(stored, clock, stored', clock') /\ clock' = clock + 1
             /\ w.run \in DOMAIN stored' /\ stored'[w.run].at = clock + 1
  <2> DEFINE new == [stored[w.run] EXCEPT !.at = clock + 1, !.rules = RulesAfter(w)]
  <2>1. clock' = clock + 1 /\ w.run \in DOMAIN stored /\ stored' = [stored EXCEPT ![w.run] = new]
    BY <1>4 DEF RuleCommandSaves
  <2>2. IsInfo(stored[w.run]) BY <1>1, <2>1 DEF StoredWell
  <2>3. IsInfo(new) /\ new.at = clock + 1 /\ new.rules = RulesAfter(w)
    <3>1. PICK i, rules : i = stored[w.run] /\ rules = RulesAfter(w) OBVIOUS
    <3>2. new = [i EXCEPT !.at = clock + 1, !.rules = rules] /\ IsInfo(i) BY <2>2, <3>1
    <3>3. IsInfo(new) /\ new.at = clock + 1 /\ new.rules = rules
      <4> HIDE DEF new
      <4>1. new = [status |-> i.status, at |-> clock + 1, rules |-> rules] BY <3>2 DEF IsInfo
      <4> QED BY <4>1 DEF IsInfo
    <3> QED BY <3>1, <3>3
  <2>4. IsRules(RulesAfter(w)) /\ \A e \in Range(RulesAfter(w)) : e.id <= clock + 2
    BY <1>1, <2>1, RulesAfterWell
  <2> HIDE DEF new
  <2>5. DOMAIN stored' = DOMAIN stored
        /\ \A r \in DOMAIN stored : stored'[r] = IF r = w.run THEN new ELSE stored[r]
    BY <2>1
  <2>6. ASSUME NEW r \in DOMAIN stored'
        PROVE  /\ IsInfo(stored'[r]) /\ stored'[r].at \in 0 .. clock' /\ IsRules(stored'[r].rules)
               /\ \A e \in Range(stored'[r].rules) : e.id <= clock' + 1
    <3>1. CASE r = w.run BY <1>1, <2>1, <2>3, <2>4, <2>5, <3>1
    <3>2. CASE r # w.run
      <4>1. stored'[r] = stored[r] /\ r \in DOMAIN stored BY <2>5, <3>2
      <4>2. Range(stored[r].rules) \subseteq Rules BY <1>1, <4>1, RulesAre DEF StoredWell
      <4>3. \A e \in Range(stored[r].rules) : e.id \in Nat /\ e.id <= clock + 1
        BY <1>1, <4>1, <4>2 DEF StoredWell, Rules
      <4>4. \A e \in Range(stored[r].rules) : e.id <= clock' + 1 BY <1>1, <2>1, <4>3
      <4> QED BY <1>1, <2>1, <4>1, <4>4 DEF StoredWell
    <3> QED BY <3>1, <3>2
  <2>7. StoredWell' BY <1>1, <2>1, <2>6 DEF StoredWell
  <2> QED BY <1>1, <2>1, <2>3, <2>5, <2>7 DEF Later
<1>5. StoredWell' /\ Later(stored, clock, stored', clock')
  <2>1. CASE UNCHANGED storage BY <1>1, <2>1, StorageStays DEF StoredWell, storage
  <2> QED BY <1>3, <1>4, <2>1
<1>6. FetchesWell' BY <1>2, <1>5, FetchesStay DEF Mended
<1>7. \A x \in works' : IsWork(x) BY <1>3 DEF Mended
<1>8. ASSUME NEW r PROVE CacheWell(r)'
  <2>1. CASE r # w.run
    <3>1. Own(r)' = Own(r) BY <1>3, <2>1 DEF Own
    <3> QED BY <1>2, <1>5, <3>1, Untouched DEF Mended
  <2>2. CASE r = w.run
    <3>1. CacheWell(r) BY DEF Mended
    <3>2. r \in DOMAIN cache' => IsInfo(cache'[r]) /\ cache'[r].at \in 0 .. clock'
      BY <1>2, <1>5, <3>1 DEF CacheWell, Later
    <3>3. CASE r \in crossed BY <1>2, <3>2, <3>3 DEF CacheWell
    <3>4. CASE r \notin crossed
      <4>1. w \in Own(r) /\ Own(r) = {w} BY <2>2, <3>1, <3>4 DEF CacheWell, Own
      <4>2. Own(r)' = {v} BY <1>3, <2>2, <4>1 DEF Own
      <4>3. ASSUME r \in DOMAIN cache
            PROVE  /\ w.held /\ FreshIn(Undone(cache[r], w), r, stored, clock)
                   /\ cache[r].at \in 0 .. clock
        BY <1>2, <3>1, <3>4, <4>1, <4>3 DEF CacheWell
      <4>4. CASE RuleCommandSaves(w) /\ v.state = "done"
        <5>1. r \in DOMAIN cache => cache[r].at < stored'[r].at BY <1>1, <1>4, <2>2, <4>3, <4>4
        <5> QED BY <1>2, <1>3, <3>2, <4>2, <4>3, <4>4, <5>1 DEF CacheWell
      <4>5. CASE /\ v.state = "failed" /\ UNCHANGED storage
                 /\ v.kind = w.kind /\ v.prev = w.prev /\ v.rule = w.rule
        <5>1. \A i : Undone(i, v) = Undone(i, w) BY <4>5 DEF Undone
        <5>2. r \in DOMAIN cache => FreshIn(Undone(cache[r], v), r, stored, clock)
          BY <4>3, <5>1
        <5> QED BY <1>2, <1>3, <3>2, <4>2, <4>3, <4>5, <5>2 DEF CacheWell, storage
      <4> QED BY <1>3, <4>4, <4>5
    <3> QED BY <3>3, <3>4
  <2> QED BY <2>1, <2>2
<1> QED BY <1>5, <1>6, <1>7, <1>8 DEF Mended

LEMMA ReadIsMended == ASSUME Mended, NEW f \in fetches, InfoReads(f) PROVE Mended'
<1>1. PICK got : /\ fetches' = (fetches \ {f}) \union {[f EXCEPT !.got = got]}
                 /\ got = Failed \/ (f.run \in DOMAIN stored /\ got = stored[f.run])
  BY DEF InfoReads
<1>2. UNCHANGED <<storage, cache, works, crossed>> BY DEF InfoReads
<1>3. StoredWell' /\ StoredWell BY <1>2 DEF Mended, StoredWell, storage
<1>4. Later(stored, clock, stored', clock') BY <1>2, <1>3, StorageStays DEF StoredWell
<1>5. got = Failed \/ (IsInfo(got) /\ FreshIn(got, f.run, stored, clock))
  <2>1. CASE f.run \in DOMAIN stored /\ got = stored[f.run]
    BY <1>3, <2>1 DEF StoredWell, FreshIn
  <2> QED BY <1>1, <2>1
<1> DEFINE g == [f EXCEPT !.got = got]
<1>6. {"run", "chat", "got"} \subseteq DOMAIN g /\ g.run = f.run /\ g.got = got
  BY DEF Mended, FetchesWell
<1> HIDE DEF g
<1>7. fetches' = (fetches \ {f}) \union {g} BY <1>1 DEF g
<1>8. FetchesWell'
  <2> SUFFICES ASSUME NEW x \in fetches'
               PROVE  /\ {"run", "chat", "got"} \subseteq DOMAIN x
                      /\ x.got \in {Asked, Failed}
                         \/ (IsInfo(x.got) /\ FreshIn(x.got, x.run, stored', clock'))
    BY DEF FetchesWell
  <2>1. CASE x = g BY <1>2, <1>5, <1>6, <2>1 DEF storage
  <2>2. CASE x \in fetches BY <1>2, <2>2 DEF Mended, FetchesWell, storage
  <2> QED BY <1>7, <2>1, <2>2
<1>9. ASSUME NEW r PROVE CacheWell(r)'
  <2>1. Own(r)' = Own(r) BY <1>2 DEF Own
  <2> QED BY <1>2, <1>4, <2>1, Untouched DEF Mended
<1> QED BY <1>2, <1>3, <1>8, <1>9 DEF Mended

\* An answer replaces what is cached, whatever a handler made of it.
LEMMA LandedIsMended == ASSUME Mended, NEW f \in fetches, InfoLands(f) PROVE Mended'
<1>1. UNCHANGED storage /\ fetches' = fetches \ {f} /\ f.got # Asked
  BY DEF InfoLands
<1>2. StoredWell' /\ StoredWell BY <1>1 DEF Mended, StoredWell, storage
<1>3. Later(stored, clock, stored', clock') BY <1>1, <1>2, StorageStays DEF StoredWell
<1>4. FetchesWell' BY <1>1, <1>3, FetchesStay DEF Mended
<1>5. CASE f.got = Failed
  <2>1. UNCHANGED <<cache, works, crossed>> BY <1>5 DEF InfoLands
  <2>2. ASSUME NEW r PROVE CacheWell(r)'
    <3>1. Own(r)' = Own(r) BY <2>1 DEF Own
    <3> QED BY <1>3, <2>1, <3>1, Untouched DEF Mended
  <2> QED BY <1>2, <1>4, <2>1, <2>2 DEF Mended
<1>6. CASE f.got # Failed
  <2>1. /\ cache' = [r \in DOMAIN cache \union {f.run} |-> IF r = f.run THEN f.got ELSE cache[r]]
        /\ works' = Detached(works, {f.run})
        /\ crossed' = IF \E w \in works : w.run = f.run THEN crossed \union {f.run}
                      ELSE crossed \ {f.run}
    BY <1>6 DEF InfoLands
  <2>2. IsInfo(f.got) /\ FreshIn(f.got, f.run, stored, clock)
    BY <1>1, <1>6 DEF Mended, FetchesWell
  <2>3. \A w \in works : IsWork(w) BY DEF Mended
  <2>4. \A w \in works' : IsWork(w) BY <2>1, <2>3 DEF Detached, IsWork
  <2>5. ASSUME NEW r PROVE CacheWell(r)'
    <3>1. CASE r # f.run
      <4>1. Own(r)' = Own(r) BY <2>1, <2>3, <3>1 DEF Own, Detached, IsWork
      <4>2. r \in DOMAIN cache' => r \in DOMAIN cache /\ cache'[r] = cache[r] BY <2>1, <3>1
      <4>3. r \notin crossed' => r \notin crossed BY <2>1, <3>1
      <4> QED BY <1>3, <4>1, <4>2, <4>3, Untouched DEF Mended
    <3>2. CASE r = f.run
      <4>1. cache'[r] = f.got BY <2>1, <3>2
      <4>2. f.got.at \in 0 .. clock' BY <1>1, <2>2 DEF FreshIn, storage
      <4>3. CASE \E w \in works : w.run = f.run
        BY <2>1, <2>2, <3>2, <4>1, <4>2, <4>3 DEF CacheWell
      <4>4. CASE ~\E w \in works : w.run = f.run
        <5>1. Own(r)' = {} BY <2>1, <2>3, <3>2, <4>4 DEF Own, Detached, IsWork
        <5> QED BY <1>1, <2>2, <3>2, <4>1, <4>2, <5>1 DEF CacheWell, storage
      <4> QED BY <4>3, <4>4
    <3> QED BY <3>1, <3>2
  <2> QED BY <1>2, <1>4, <2>4, <2>5 DEF Mended
<1> QED BY <1>5, <1>6

LEMMA RuledIs ==
    ASSUME NEW i, NEW rules
    PROVE  /\ IsInfo(Ruled(i, rules)) /\ Ruled(i, rules).at = i.at /\ Ruled(i, rules).rules = rules
           /\ \A back : Ruled(Ruled(i, rules), back) = Ruled(i, back)
BY DEF IsInfo, Ruled

LEMMA RulesOf ==
    ASSUME NEW i, IsInfo(i)
    PROVE  Ruled(i, i.rules) = i /\ \A rules : [i EXCEPT !.rules = rules] = Ruled(i, rules)
<1>1. Ruled(i, i.rules) = i BY DEF IsInfo, Ruled
<1>2. ASSUME NEW rules PROVE [i EXCEPT !.rules = rules] = Ruled(i, rules)
  <2>1. PICK s, a, l : i = [status |-> s, at |-> a, rules |-> l] BY DEF IsInfo
  <2>2. Ruled(i, rules) = [status |-> s, at |-> a, rules |-> rules] BY <2>1 DEF Ruled
  <2>3. [i EXCEPT !.rules = rules] = [status |-> s, at |-> a, rules |-> rules] BY <2>1
  <2> QED BY <2>2, <2>3
<1> QED BY <1>1, <1>2

\* A handler that begins: what it shows at once can be undone.
LEMMA BegunIsMended ==
    ASSUME Mended, NEW r, Begins(r),
           NEW w, IsWork(w), w.run = r, w.state = "asked", w.held = (r \in DOMAIN cache),
           works' = works \union {w},
           \/ UNCHANGED cache
           \/ \E rules : cache' = IF r \in DOMAIN cache THEN [cache EXCEPT ![r].rules = rules] ELSE cache,
           r \in DOMAIN cache /\ FreshIn(cache[r], r, stored, clock) =>
               FreshIn(Undone(cache'[r], w), r, stored, clock)
    PROVE  Mended'
<1>1. UNCHANGED <<storage, fetches>>
      /\ crossed' = IF \E v \in works : v.run = r THEN crossed \union {r} ELSE crossed
  BY DEF Begins
<1>2. StoredWell' /\ StoredWell BY <1>1 DEF Mended, StoredWell, storage
<1>3. Later(stored, clock, stored', clock') BY <1>1, <1>2, StorageStays DEF StoredWell
<1>4. FetchesWell' BY <1>1, <1>3, FetchesStay DEF Mended
<1>5. \A v \in works' : IsWork(v) BY DEF Mended
<1>6. /\ DOMAIN cache' = DOMAIN cache /\ \A x \in DOMAIN cache : x # r => cache'[x] = cache[x]
      /\ r \in DOMAIN cache => IsInfo(cache'[r]) /\ cache'[r].at \in 0 .. clock
  <2>1. r \in DOMAIN cache => IsInfo(cache[r]) /\ cache[r].at \in 0 .. clock
    BY DEF Mended, CacheWell
  <2>2. CASE UNCHANGED cache BY <2>1, <2>2
  <2>3. ASSUME NEW rules,
               cache' = IF r \in DOMAIN cache THEN [cache EXCEPT ![r].rules = rules] ELSE cache
        PROVE  /\ DOMAIN cache' = DOMAIN cache
               /\ \A x \in DOMAIN cache : x # r => cache'[x] = cache[x]
               /\ r \in DOMAIN cache => IsInfo(cache'[r]) /\ cache'[r].at \in 0 .. clock
    <3>1. r \in DOMAIN cache => cache'[r] = [cache[r] EXCEPT !.rules = rules] BY <2>3
    <3>2. ASSUME r \in DOMAIN cache PROVE IsInfo(cache'[r]) /\ cache'[r].at = cache[r].at
      <4>1. cache'[r] = Ruled(cache[r], rules) BY <2>1, <3>1, <3>2, RulesOf
      <4> QED BY <4>1, RuledIs
    <3> QED BY <2>1, <2>3, <3>2
  <2> QED BY <2>2, <2>3
<1>7. ASSUME NEW x PROVE CacheWell(x)'
  <2>1. CASE x # r
    <3>1. Own(x)' = Own(x) BY <2>1 DEF Own
    <3>2. x \notin crossed' => x \notin crossed BY <1>1
    <3> QED BY <1>3, <1>6, <2>1, <3>1, <3>2, Untouched DEF Mended
  <2>2. CASE x = r /\ Own(r) # {}
    <3>1. r \in crossed' BY <1>1, <2>2 DEF Own
    <3> QED BY <1>1, <1>6, <2>2, <3>1 DEF CacheWell, storage
  <2>3. CASE x = r /\ Own(r) = {}
    <3>1. Own(r)' = {w} BY <2>3 DEF Own
    <3>2. crossed' = crossed BY <1>1, <2>3 DEF Own
    <3>3. r \in DOMAIN cache /\ r \notin crossed => FreshIn(cache[r], r, stored, clock)
      BY <2>3 DEF Mended, CacheWell
    <3> QED BY <1>1, <1>6, <2>3, <3>1, <3>2, <3>3 DEF CacheWell, storage
  <2> QED BY <2>1, <2>2, <2>3
<1> QED BY <1>2, <1>4, <1>5, <1>7 DEF Mended

LEMMA EditsAreMended ==
    ASSUME Mended, NEW r, \/ Submit(r, FirstText)
                          \/ \E id : Delete(r, id) \/ \E text \in Texts : Update(r, id, text)
    PROVE  Mended'
<1>1. r \in DOMAIN cache => IsInfo(cache[r]) BY DEF Mended, CacheWell
<1>2. ASSUME r \in DOMAIN cache, FreshIn(cache[r], r, stored, clock), r \in DOMAIN stored,
             cache[r].at = stored[r].at
      PROVE  IsRules(cache[r].rules) /\ cache[r] = stored[r]
  BY <1>2 DEF Mended, StoredWell, FreshIn
<1>3. CASE Submit(r, FirstText)
  <2>1. PICK w : w = Work("create", r, 0, FirstText, <<>>) OBVIOUS
  <2>2. /\ IsWork(w) /\ w.run = r /\ w.state = "asked" /\ w.held = (r \in DOMAIN cache)
        /\ \A i : Undone(i, w) = i
    BY <2>1 DEF Work, IsWork, Words, Undone
  <2>3. works' = works \union {w} /\ UNCHANGED cache /\ Begins(r) BY <1>3, <2>1 DEF Submit
  <2> QED BY <2>2, <2>3, BegunIsMended
<1>4. ASSUME NEW id, NEW text \in Texts, Update(r, id, text) PROVE Mended'
  <2>1. PICK w : w = Work("update", r, id, text, CachedRow(r, id)) OBVIOUS
  <2>2. /\ IsWork(w) /\ w.run = r /\ w.state = "asked" /\ w.held = (r \in DOMAIN cache)
        /\ w.kind = "update" /\ w.rule = id /\ w.prev = CachedRow(r, id)
    BY <2>1 DEF Work, IsWork, Words
  <2>3. /\ works' = works \union {w} /\ Begins(r)
        /\ cache' = IF r \in DOMAIN cache
                    THEN [cache EXCEPT ![r].rules = WithText(cache[r].rules, id, text)] ELSE cache
    BY <1>4, <2>1 DEF Update
  <2>4. ASSUME r \in DOMAIN cache, FreshIn(cache[r], r, stored, clock)
        PROVE  FreshIn(Undone(cache'[r], w), r, stored, clock)
    <3>1. PICK i, j, s, t, back :
             /\ i = cache[r] /\ s = i.rules /\ j = cache'[r] /\ IsInfo(i)
             /\ t = WithText(s, id, text) /\ j = [i EXCEPT !.rules = t] /\ back = WithText(t, id, w.prev[1].text)
      BY <1>1, <2>3, <2>4
    <3>2. j = Ruled(i, t) /\ Ruled(i, s) = i BY <3>1, RulesOf
    <3>3. w.prev = Find(s, id) BY <2>2, <2>4, <3>1 DEF CachedRow
    <3>4. Undone(j, w) = IF w.prev = <<>> THEN j ELSE Ruled(i, back)
      BY <2>2, <3>1, <3>2, RuledIs DEF Undone
    <3>5. Undone(j, w).at = i.at BY <3>2, <3>4, RuledIs
    <3>6. ASSUME IsRules(s) PROVE Undone(j, w) = i
      <4>1. CASE w.prev = <<>>
        <5>1. t = s
          <6>1. Find(s, id) = <<>> BY <3>3, <4>1
          <6>2. \A x : WithText(s, id, x) = s BY <3>6, <6>1, NothingToEdit, Zenon
          <6> QED BY <3>1, <6>2
        <5> QED BY <3>2, <3>4, <4>1, <5>1
      <4>2. CASE w.prev # <<>>
        <5>1. back = s BY <3>1, <3>3, <3>6, <4>2, UpdateIsUndone
        <5> QED BY <3>2, <3>4, <4>2, <5>1
      <4> QED BY <4>1, <4>2
    <3> QED BY <1>2, <2>4, <3>1, <3>5, <3>6 DEF FreshIn
  <2> QED BY <2>2, <2>3, <2>4, BegunIsMended
<1>5. ASSUME NEW id, Delete(r, id) PROVE Mended'
  <2>1. PICK w : w = Work("delete", r, id, "", CachedRow(r, id)) OBVIOUS
  <2>2. /\ IsWork(w) /\ w.run = r /\ w.state = "asked" /\ w.held = (r \in DOMAIN cache)
        /\ w.kind = "delete" /\ w.rule = id /\ w.prev = CachedRow(r, id)
    BY <2>1 DEF Work, IsWork, Words
  <2>3. /\ works' = works \union {w} /\ Begins(r)
        /\ cache' = IF r \in DOMAIN cache
                    THEN [cache EXCEPT ![r].rules = Without(cache[r].rules, id)] ELSE cache
    BY <1>5, <2>1 DEF Delete
  <2>4. ASSUME r \in DOMAIN cache, FreshIn(cache[r], r, stored, clock)
        PROVE  FreshIn(Undone(cache'[r], w), r, stored, clock)
    <3>1. PICK i, j, s, t, back :
             /\ i = cache[r] /\ s = i.rules /\ j = cache'[r] /\ IsInfo(i)
             /\ t = Without(s, id) /\ j = [i EXCEPT !.rules = t] /\ back = Restored(t, w.prev[1])
      BY <1>1, <2>3, <2>4
    <3>2. j = Ruled(i, t) /\ Ruled(i, s) = i BY <3>1, RulesOf
    <3>3. w.prev = Find(s, id) BY <2>2, <2>4, <3>1 DEF CachedRow
    <3>4. Undone(j, w) = IF w.prev = <<>> THEN j ELSE Ruled(i, back)
      BY <2>2, <3>1, <3>2, RuledIs DEF Undone
    <3>5. Undone(j, w).at = i.at BY <3>2, <3>4, RuledIs
    <3>6. ASSUME IsRules(s) PROVE Undone(j, w) = i
      <4>1. CASE w.prev = <<>>
        <5>1. t = s
          <6>1. Find(s, id) = <<>> BY <3>3, <4>1
          <6>2. Without(s, id) = s BY <3>6, <6>1, NothingToEdit, Zenon
          <6> QED BY <3>1, <6>2
        <5> QED BY <3>2, <3>4, <4>1, <5>1
      <4>2. CASE w.prev # <<>>
        <5>1. back = s BY <3>1, <3>3, <3>6, <4>2, DeletionIsUndone
        <5> QED BY <3>2, <3>4, <4>2, <5>1
      <4> QED BY <4>1, <4>2
    <3> QED BY <1>2, <2>4, <3>1, <3>5, <3>6 DEF FreshIn
  <2> QED BY <2>2, <2>3, <2>4, BegunIsMended
<1> QED BY <1>3, <1>4, <1>5

\* A handler that is through: the cached info is as it was before it began, or
\* older than what the command saved.
LEMMA EndedIsMended ==
    ASSUME Mended, NEW w \in works, works' = works \ {w},
           UNCHANGED <<storage, fetches, crossed>>,
           DOMAIN cache' = DOMAIN cache,
           \A x \in DOMAIN cache : x # w.run => cache'[x] = cache[x],
           w.run \in DOMAIN cache => IsInfo(cache'[w.run]) /\ cache'[w.run].at = cache[w.run].at,
           w.run \in DOMAIN cache /\ w.held /\ w.state # "done" => cache'[w.run] = Undone(cache[w.run], w)
    PROVE  Mended'
<1>1. StoredWell' /\ StoredWell BY DEF Mended, StoredWell, storage
<1>2. Later(stored, clock, stored', clock') BY <1>1, StorageStays DEF StoredWell
<1>3. FetchesWell' BY <1>2, FetchesStay DEF Mended
<1>4. \A v \in works' : IsWork(v) BY DEF Mended
<1>5. ASSUME NEW x PROVE CacheWell(x)'
  <2>1. CASE x # w.run
    <3>1. Own(x)' = Own(x) BY <2>1 DEF Own
    <3> QED BY <1>2, <2>1, <3>1, Untouched DEF Mended
  <2>2. CASE x = w.run
    <3>1. CacheWell(x) BY DEF Mended
    <3>2. x \in DOMAIN cache' => IsInfo(cache'[x]) /\ cache'[x].at \in 0 .. clock'
      BY <2>2, <3>1 DEF CacheWell, storage
    <3>3. CASE x \in crossed BY <3>2, <3>3 DEF CacheWell
    <3>4. CASE x \notin crossed
      <4>1. w \in Own(x) /\ \A v \in Own(x) : v = w BY <2>2, <3>1, <3>4 DEF CacheWell, Own
      <4>2. Own(x)' = {} BY <4>1 DEF Own
      <4>3. ASSUME x \in DOMAIN cache' PROVE FreshIn(cache'[x], x, stored', clock')
        <5>1. x \in DOMAIN cache /\ w.held BY <3>1, <3>4, <4>1, <4>3 DEF CacheWell
        <5>2. CASE w.state = "done"
          <6>1. x \in DOMAIN stored => cache[x].at < stored[x].at
            BY <3>1, <3>4, <4>1, <5>1, <5>2 DEF CacheWell
          <6>2. x \in DOMAIN stored => stored[x].at \in Nat BY <1>1 DEF StoredWell
          <6> QED BY <2>2, <3>2, <4>3, <5>1, <6>1, <6>2 DEF FreshIn, storage
        <5>3. CASE w.state # "done"
          BY <2>2, <3>1, <3>4, <4>1, <5>1, <5>3 DEF CacheWell, storage
        <5> QED BY <5>2, <5>3
      <4> QED BY <3>2, <4>2, <4>3 DEF CacheWell
    <3> QED BY <3>3, <3>4
  <2> QED BY <2>1, <2>2
<1> QED BY <1>1, <1>3, <1>4, <1>5 DEF Mended

\* What a handler writes to the info it holds.
LEMMA RulesWritten ==
    ASSUME Mended, NEW r, NEW rules, r \in DOMAIN cache,
           cache' = [cache EXCEPT ![r].rules = rules]
    PROVE  /\ DOMAIN cache' = DOMAIN cache /\ \A x \in DOMAIN cache : x # r => cache'[x] = cache[x]
           /\ cache'[r] = Ruled(cache[r], rules)
           /\ IsInfo(cache'[r]) /\ cache'[r].at = cache[r].at
<1>1. IsInfo(cache[r]) /\ cache'[r] = [cache[r] EXCEPT !.rules = rules] BY DEF Mended, CacheWell
<1>2. cache'[r] = Ruled(cache[r], rules) BY <1>1, RulesOf
<1> QED BY <1>2, RuledIs

LEMMA ConfirmedIsMended == ASSUME Mended, NEW w \in works, Confirmed(w) PROVE Mended'
<1>1. /\ w.state = "done" /\ works' = works \ {w} /\ UNCHANGED <<storage, fetches, crossed>>
  BY DEF Confirmed
<1>2. w.run \in DOMAIN cache => IsInfo(cache[w.run]) BY DEF Mended, CacheWell
<1>3. CASE UNCHANGED cache BY <1>1, <1>2, <1>3, EndedIsMended
<1>4. ASSUME NEW rules, w.run \in DOMAIN cache, cache' = [cache EXCEPT ![w.run].rules = rules]
      PROVE  Mended'
  <2>1. PICK r : r = w.run OBVIOUS
  <2>2. r \in DOMAIN cache /\ cache' = [cache EXCEPT ![r].rules = rules] BY <1>4, <2>1
  <2>3. /\ DOMAIN cache' = DOMAIN cache /\ \A x \in DOMAIN cache : x # r => cache'[x] = cache[x]
        /\ IsInfo(cache'[r]) /\ cache'[r].at = cache[r].at
    BY <2>2, RulesWritten
  <2> QED BY <1>1, <2>1, <2>3, EndedIsMended
<1>5. \/ UNCHANGED cache
      \/ w.run \in DOMAIN cache /\ \E rules : cache' = [cache EXCEPT ![w.run].rules = rules]
  BY DEF Confirmed
<1> QED BY <1>3, <1>4, <1>5

LEMMA TakenBackIsMended == ASSUME Mended, NEW w \in works, TakenBack(w) PROVE Mended'
<1>1. w.state = "failed" /\ UNCHANGED <<storage, crossed>> /\ IsWork(w) /\ \A v \in works : IsWork(v)
  BY DEF TakenBack, Mended
<1>2. w.run \in DOMAIN cache => IsInfo(cache[w.run]) BY DEF Mended, CacheWell
<1>3. ASSUME works' = works \ {w}, UNCHANGED <<cache, fetches>>,
             \/ w.kind = "create" \/ w.prev = <<>> \/ w.run \notin DOMAIN cache \/ ~w.held
      PROVE  Mended'
  <2>1. w.kind = "create" \/ w.prev = <<>> => \A i : Undone(i, w) = i BY DEF Undone
  <2> QED BY <1>1, <1>2, <1>3, <2>1, EndedIsMended
<1>4. ASSUME NEW rules, w.run \in DOMAIN cache, cache' = [cache EXCEPT ![w.run].rules = rules],
             works' = works \ {w}, UNCHANGED fetches,
             Ruled(cache[w.run], rules) = Undone(cache[w.run], w)
      PROVE  Mended'
  <2>1. PICK r : r = w.run OBVIOUS
  <2>2. r \in DOMAIN cache /\ cache' = [cache EXCEPT ![r].rules = rules] BY <1>4, <2>1
  <2>3. /\ DOMAIN cache' = DOMAIN cache /\ \A x \in DOMAIN cache : x # r => cache'[x] = cache[x]
        /\ cache'[r] = Ruled(cache[r], rules)
        /\ IsInfo(cache'[r]) /\ cache'[r].at = cache[r].at
    BY <2>2, RulesWritten
  <2> QED BY <1>1, <1>4, <2>1, <2>3, EndedIsMended
<1>5. CASE w.kind = "create" /\ works' = works \ {w} /\ UNCHANGED <<cache, fetches>> BY <1>3, <1>5
<1>6. CASE /\ w.kind = "update" /\ w.prev # <<>> /\ works' = works \ {w} /\ UNCHANGED fetches
           /\ cache' = IF w.held
                       THEN [cache EXCEPT ![w.run].rules = WithText(@, w.rule, w.prev[1].text)] ELSE cache
  <2>1. CASE w.held /\ w.run \in DOMAIN cache
    <3>1. PICK rules : rules = WithText(cache[w.run].rules, w.rule, w.prev[1].text) OBVIOUS
    <3>2. Ruled(cache[w.run], rules) = Undone(cache[w.run], w)
      BY <1>6, <3>1 DEF Undone
    <3>3. cache' = [cache EXCEPT ![w.run].rules = rules] BY <1>6, <2>1, <3>1
    <3> QED BY <1>4, <1>6, <2>1, <3>2, <3>3
  <2>2. CASE w.run \notin DOMAIN cache \/ ~w.held
    <3>1. /\ DOMAIN cache' = DOMAIN cache
          /\ \A x \in DOMAIN cache : cache'[x] = cache[x]
      BY <1>6, <2>2
    <3> QED BY <1>1, <1>2, <1>6, <2>2, <3>1, EndedIsMended
  <2> QED BY <2>1, <2>2
<1>7. CASE /\ w.kind = "delete" /\ w.prev # <<>> /\ works' = works \ {w} /\ UNCHANGED fetches
           /\ cache' = IF w.run \in DOMAIN cache
                       THEN [cache EXCEPT ![w.run].rules = Restored(@, w.prev[1])] ELSE cache
  <2>1. CASE w.run \in DOMAIN cache
    <3>1. PICK rules : rules = Restored(cache[w.run].rules, w.prev[1]) OBVIOUS
    <3>2. Ruled(cache[w.run], rules) = Undone(cache[w.run], w)
      BY <1>7, <3>1 DEF Undone
    <3>3. cache' = [cache EXCEPT ![w.run].rules = rules] BY <1>7, <2>1, <3>1
    <3> QED BY <1>4, <1>7, <2>1, <3>2, <3>3
  <2>2. CASE w.run \notin DOMAIN cache BY <1>3, <1>7, <2>2
  <2> QED BY <2>1, <2>2
<1>8. CASE w.kind # "create" /\ w.prev = <<>> /\ ForcedRefresh(w)
  <2>1. CASE works' = works \ {w} /\ UNCHANGED <<cache, fetches>> BY <1>3, <1>8, <2>1
  <2>2. CASE /\ cache' = Uncached(cache, {w.run})
             /\ works' = Detached(works \ {w}, {w.run})
             /\ fetches' = fetches \union {Fetch(w.run, TRUE)}
    <3>1. StoredWell' /\ StoredWell BY <1>1 DEF Mended, StoredWell, storage
    <3>2. Later(stored, clock, stored', clock') BY <1>1, <3>1, StorageStays DEF StoredWell
    <3>3. FetchesWell' BY <2>2, <3>2, FetchesStay DEF Mended
    <3>4. \A v \in works' : IsWork(v) BY <1>1, <2>2 DEF Detached, IsWork
    <3>5. ASSUME NEW x PROVE CacheWell(x)'
      <4>1. x \in DOMAIN cache' => x \in DOMAIN cache /\ cache'[x] = cache[x] /\ x # w.run
        BY <2>2 DEF Uncached
      <4>2. CASE x # w.run
        <5>1. Own(x)' = Own(x) BY <1>1, <2>2, <4>2 DEF Own, Detached, IsWork
        <5> QED BY <1>1, <3>2, <4>1, <5>1, Untouched DEF Mended
      <4>3. CASE x = w.run
        <5>1. CacheWell(x) BY DEF Mended
        <5>2. x \notin crossed => \A v \in Own(x) : v = w BY <4>3, <5>1 DEF CacheWell, Own
        <5>3. x \notin crossed => Own(x)' = {} BY <1>1, <2>2, <4>3, <5>2 DEF Own, Detached, IsWork
        <5> QED BY <1>1, <4>1, <4>3, <5>3 DEF CacheWell
      <4> QED BY <4>2, <4>3
    <3> QED BY <3>1, <3>3, <3>4, <3>5 DEF Mended
  <2> QED BY <1>8, <2>1, <2>2 DEF ForcedRefresh
<1> QED BY <1>5, <1>6, <1>7, <1>8 DEF TakenBack

\* The answers of RefreshTabs and of sendInit are fetches.
LEMMA Asking ==
    ASSUME NEW opened, NEW known, NEW f \in Wanted(opened, known)
    PROVE  \E r, chat : f = Fetch(r, chat)
BY DEF Wanted

LEMMA ChatsAreMended == ASSUME Mended, ChatNext PROVE Mended'
<1>1. CASE ViewOpens \/ ViewCloses
  <2>1. UNCHANGED <<storage, crossed, cache, works>> BY <1>1 DEF ViewOpens, ViewCloses
  <2>2. \A f \in fetches' : f \in fetches \/ f \in Wanted(tabs, cache)
    BY <1>1 DEF ViewOpens, ViewCloses
  <2> QED BY <2>1, <2>2, Asking, ForgottenIsMended
<1>2. CASE ReorderTabs
  <2>1. UNCHANGED <<storage, crossed, cache, works, fetches>> BY <1>2 DEF ReorderTabs
  <2> QED BY <2>1, ForgottenIsMended
<1>3. CASE \E f \in fetches : InfoReads(f) \/ InfoLands(f) BY <1>3, ReadIsMended, LandedIsMended
<1>4. ASSUME NEW r, CloseTab(r) \/ SwitchTab(r) PROVE Mended'
  <2>1. UNCHANGED <<storage, crossed, cache, works, fetches>> BY <1>4 DEF CloseTab, SwitchTab
  <2> QED BY <2>1, ForgottenIsMended
<1>5. ASSUME NEW r, CloseOtherTabs(r) PROVE Mended'
  <2>1. UNCHANGED <<storage, crossed, cache, works>> BY <1>5 DEF CloseOtherTabs
  <2>2. \E opened : fetches' = fetches \union Wanted(opened, cache) BY <1>5 DEF CloseOtherTabs
  <2> QED BY <2>1, <2>2, Asking, ForgottenIsMended
<1>6. ASSUME NEW r, \/ Submit(r, FirstText)
                    \/ \E id \in Editable(r) : Delete(r, id) \/ \E text \in Texts : Update(r, id, text)
      PROVE  Mended'
  <2>1. \/ Submit(r, FirstText)
        \/ \E id : Delete(r, id) \/ \E text \in Texts : Update(r, id, text)
    BY <1>6, Zenon
  <2> QED BY <2>1, EditsAreMended
<1>7. ASSUME NEW w \in works, RuleCommandEnds(w) \/ HandlerGoesOn(w) PROVE Mended'
  BY <1>7, CommandIsMended, ConfirmedIsMended, TakenBackIsMended DEF HandlerGoesOn
<1> QED BY <1>1, <1>2, <1>3, <1>4, <1>5, <1>6, <1>7 DEF ChatNext

\* A run that is saved, or copied, keeps its rules.
SavedFrom(info, old, time) == \E s : info = [status |-> s, at |-> time, rules |-> old.rules]

LEMMA SavedInfo ==
    ASSUME NEW i, IsInfo(i), NEW s, NEW time
    PROVE  SavedFrom([i EXCEPT !.status = s, !.at = time], i, time)
<1>1. PICK j : j = [i EXCEPT !.status = s, !.at = time] OBVIOUS
<1>2. j = [status |-> s, at |-> time, rules |-> i.rules] BY <1>1 DEF IsInfo
<1> QED BY <1>1, <1>2 DEF SavedFrom

LEMMA SavesAreMended ==
    ASSUME Mended, clock' = clock + 1, UNCHANGED <<cache, fetches, works, crossed>>,
           \A r \in DOMAIN stored' :
               \/ r \in DOMAIN stored /\ stored'[r] = stored[r]
               \/ \E x \in DOMAIN stored : SavedFrom(stored'[r], stored[x], clock')
    PROVE  Mended'
<1>1. StoredWell /\ clock \in Nat /\ clock + 1 \in Nat BY DEF Mended, StoredWell
<1>2. \A r \in DOMAIN stored : \A e \in Range(stored[r].rules) : e.id \in Nat /\ e.id <= clock + 1
  <2> SUFFICES ASSUME NEW r \in DOMAIN stored, NEW e \in Range(stored[r].rules)
               PROVE  e.id \in Nat /\ e.id <= clock + 1
    OBVIOUS
  <2>1. e \in Rules BY <1>1, RulesAre DEF StoredWell
  <2> QED BY <1>1, <2>1 DEF StoredWell, Rules
<1>3. ASSUME NEW r \in DOMAIN stored'
      PROVE  \/ r \in DOMAIN stored /\ stored'[r] = stored[r]
             \/ \E x \in DOMAIN stored : /\ IsInfo(stored'[r]) /\ stored'[r].at = clock + 1
                                         /\ stored'[r].rules = stored[x].rules
  <2>1. ASSUME NEW x \in DOMAIN stored, SavedFrom(stored'[r], stored[x], clock')
        PROVE  /\ IsInfo(stored'[r]) /\ stored'[r].at = clock + 1
               /\ stored'[r].rules = stored[x].rules
    BY <2>1 DEF SavedFrom, IsInfo
  <2> QED BY <2>1
<1>4. ASSUME NEW r \in DOMAIN stored'
      PROVE  /\ IsInfo(stored'[r]) /\ stored'[r].at \in 0 .. clock' /\ IsRules(stored'[r].rules)
             /\ \A e \in Range(stored'[r].rules) : e.id <= clock' + 1
  <2>1. CASE r \in DOMAIN stored /\ stored'[r] = stored[r] BY <1>1, <1>2, <2>1 DEF StoredWell
  <2>2. ASSUME NEW x \in DOMAIN stored, IsInfo(stored'[r]), stored'[r].at = clock + 1,
               stored'[r].rules = stored[x].rules
        PROVE  /\ IsInfo(stored'[r]) /\ stored'[r].at \in 0 .. clock' /\ IsRules(stored'[r].rules)
               /\ \A e \in Range(stored'[r].rules) : e.id <= clock' + 1
    BY <1>1, <1>2, <2>2 DEF StoredWell
  <2> QED BY <1>3, <2>1, <2>2
<1>5. StoredWell' BY <1>1, <1>4 DEF StoredWell
<1>6. Later(stored, clock, stored', clock') BY <1>1, <1>3 DEF Later
<1> QED BY <1>5, <1>6, SavedIsMended

LEMMA SavedIs ==
    ASSUME Mended, NEW r \in DOMAIN stored, NEW s, stored' = Saved(r, s)
    PROVE  \A x \in DOMAIN stored' :
               \/ x \in DOMAIN stored /\ stored'[x] = stored[x]
               \/ \E y \in DOMAIN stored : SavedFrom(stored'[x], stored[y], clock')
<1>1. SavedFrom([stored[r] EXCEPT !.status = s, !.at = clock'], stored[r], clock')
  BY SavedInfo DEF Mended, StoredWell
<1>2. /\ DOMAIN stored' = DOMAIN stored
      /\ stored'[r] = [stored[r] EXCEPT !.status = s, !.at = clock']
      /\ \A x \in DOMAIN stored : x # r => stored'[x] = stored[x]
  BY DEF Saved
<1> QED BY <1>1, <1>2

LEMMA TreeIsMended == ASSUME Mended, Lists \/ Menu PROVE Mended'
<1>1. ASSUME UNCHANGED <<storage, chats>> PROVE Mended'
  <2>1. UNCHANGED <<storage, crossed, cache, works, fetches>> BY <1>1 DEF chats
  <2> QED BY <2>1, ForgottenIsMended
<1>2. ASSUME UNCHANGED <<storage, crossed>>, NEW known, RefreshTabs(page, known),
             UNCHANGED <<cache, works>> \/ \E S : Forget(S)
      PROVE  Mended'
  <2>1. \A f \in fetches' : f \in fetches \/ f \in Wanted(tabs, known) BY <1>2 DEF RefreshTabs
  <2> QED BY <1>2, <2>1, Asking, ForgottenIsMended
<1>3. ASSUME UNCHANGED <<storage, crossed>>, Refreshes PROVE Mended'
  <2>1. RefreshTabs(page, NoInfos) /\ \E S : Forget(S) BY <1>3 DEF Refreshes, Fires
  <2> QED BY <1>2, <1>3, <2>1
<1>4. CASE ListAsks \/ ListReads \/ ListFails \/ BoostEnds
  BY <1>1, <1>4 DEF ListAsks, ListReads, ListFails, BoostEnds
<1>5. CASE TimerFires \/ SetFilter
  <2>1. RefreshTabs(page, cache) /\ UNCHANGED <<storage, crossed, cache, works>>
    BY <1>5 DEF TimerFires, SetFilter, Fires
  <2> QED BY <1>2, <2>1
<1>6. ASSUME NEW l, ListLands(l.rows) PROVE Mended'
  <2>1. (\E S : Forget(S)) /\ UNCHANGED <<storage, crossed, fetches>> BY <1>6 DEF ListLands
  <2> QED BY <2>1, ForgottenIsMended
<1>7. ASSUME NEW r, StatusGetsOld(r) PROVE Mended' BY <1>1, <1>7 DEF StatusGetsOld
<1>8. CASE RefreshRuns BY <1>3, <1>8 DEF RefreshRuns
<1>9. ASSUME NEW r, Expand(r) PROVE Mended'
  <2>1. fetches' = fetches \union {Fetch(r, FALSE)} /\ UNCHANGED <<storage, crossed, cache, works>>
    BY <1>9 DEF Expand
  <2> QED BY <2>1, ForgottenIsMended
<1>10. ASSUME NEW r, OpenChat(r) PROVE Mended'
  <2>1. /\ UNCHANGED <<storage, crossed>>
        /\ fetches' = fetches \/ fetches' = fetches \union {Fetch(r, TRUE)}
        /\ UNCHANGED <<cache, works>> \/ \E S : Forget(S)
    BY <1>10 DEF OpenChat, OpenTab
  <2> QED BY <2>1, ForgottenIsMended
<1>11. ASSUME NEW r, StartRun(r) \/ ResumeRun(r) \/ InspectRun(r) PROVE Mended'
  BY <1>3, <1>11 DEF StartRun, ResumeRun, InspectRun, Overlays, Kicks
<1>12. ASSUME NEW r, CommandAsks(r) PROVE Mended' BY <1>1, <1>12 DEF CommandAsks
<1>13. ASSUME NEW c, CommandFails(c) PROVE Mended' BY <1>1, <1>13 DEF CommandFails
<1>14. ASSUME NEW c, CommandEnds(c) PROVE Mended'
  <2>1. UNCHANGED <<storage, crossed>> /\ Refreshes BY <1>14 DEF CommandEnds, Overlays, Kicks
  <2> QED BY <1>3, <2>1
<1>15. ASSUME NEW c, CommandRuns(c) PROVE Mended'
  <2>1. c.run \in DOMAIN stored /\ UNCHANGED chats BY <1>15 DEF CommandRuns
  <2>2. CASE Attaches(c) BY <1>1, <2>1, <2>2 DEF Attaches
  <2>3. CASE Saves(c)
    <3>1. clock' = clock + 1 /\ UNCHANGED <<cache, fetches, works, crossed>>
      BY <2>1, <2>3 DEF Saves, chats
    <3>2. CASE \E s : stored' = Saved(c.run, s) BY <2>1, <3>1, <3>2, SavedIs, SavesAreMended
    <3>3. CASE Rm(c.run) \/ Clear
      <4>1. \A x \in DOMAIN stored' : x \in DOMAIN stored /\ stored'[x] = stored[x]
        BY <3>3 DEF Rm, Clear
      <4> QED BY <3>1, <4>1, SavesAreMended
    <3>4. CASE Fork(c.run)
      <4>1. SavedFrom([stored[c.run] EXCEPT !.status = "failed", !.at = clock'], stored[c.run], clock')
        BY <2>1, SavedInfo DEF Mended, StoredWell
      <4>2. \A x \in DOMAIN stored' :
               \/ x \in DOMAIN stored /\ stored'[x] = stored[x]
               \/ stored'[x] = [stored[c.run] EXCEPT !.status = "failed", !.at = clock']
        BY <3>4 DEF Fork
      <4>3. \A x \in DOMAIN stored' :
               \/ x \in DOMAIN stored /\ stored'[x] = stored[x]
               \/ \E y \in DOMAIN stored : SavedFrom(stored'[x], stored[y], clock')
        BY <2>1, <4>1, <4>2
      <4> QED BY <3>1, <4>3, SavesAreMended
    <3> QED BY <2>3, <3>2, <3>3, <3>4 DEF Saves, Pause, Stop
  <2> QED BY <1>15, <2>2, <2>3 DEF CommandRuns
<1> QED
  BY <1>4, <1>5, <1>6, <1>7, <1>8, <1>9, <1>10, <1>11, <1>12, <1>13, <1>14, <1>15 DEF Lists, Menu

LEMMA MovesAreMended == ASSUME Mended, NEW r \in DOMAIN stored, RunMoves(r) PROVE Mended'
<1>1. clock' = clock + 1 /\ UNCHANGED <<cache, fetches, works, crossed>>
  BY DEF RunMoves, chats
<1>2. PICK s : stored' = Saved(r, s) BY DEF RunMoves
<1> QED BY <1>1, <1>2, SavedIs, SavesAreMended

\* However rules are sent, changed and taken back, whatever else saves the run
\* meanwhile, and whenever it is fetched or forgotten, an edit that the CLI
\* refused leaves no trace in what is cached, unless something crossed it.
THEOREM RefusedEditsLeaveNoTrace == ViewSpec => []FailedEditsAreUndone
<1>1. ViewInit => Mended BY MendedAtFirst DEF ViewInit
<1>2. Mended /\ [ViewNext]_view => Mended'
  <2> SUFFICES ASSUME Mended, [ViewNext]_view PROVE Mended' OBVIOUS
  <2>1. CASE ChatNext BY <2>1, ChatsAreMended
  <2>2. CASE Lists \/ Menu BY <2>2, TreeIsMended
  <2>3. CASE \E r \in DOMAIN stored : RunMoves(r) BY <2>3, MovesAreMended
  <2>4. CASE UNCHANGED view
    <3>1. UNCHANGED <<storage, crossed, cache, works, fetches>> BY <2>4 DEF view, chats
    <3> QED BY <3>1, ForgottenIsMended
  <2> QED BY <2>1, <2>2, <2>3, <2>4 DEF ViewNext
<1>3. Mended => FailedEditsAreUndone
  <2> SUFFICES ASSUME Mended, NEW r \in DOMAIN cache \intersect DOMAIN stored,
                      cache[r].at = stored[r].at, r \notin crossed, ~\E w \in works : w.run = r
               PROVE  cache[r] = stored[r]
    BY DEF FailedEditsAreUndone
  <2>1. CacheWell(r) /\ Own(r) = {} BY DEF Mended, Own
  <2> QED BY <2>1 DEF CacheWell, FreshIn
<1> QED BY <1>1, <1>2, <1>3, PTL DEF ViewSpec
=============================================================================
