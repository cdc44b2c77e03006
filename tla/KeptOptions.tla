---------------------------- MODULE KeptOptions ----------------------------
(***************************************************************************)
(* What the options of a run promise (comments of resolveOrchestratorOpts  *)
(* and mergeArtifactOntoDefaults, orchestrator/options.ts): what a run was *)
(* first given stays, in every process that goes on with it, until the     *)
(* user says otherwise.  kept is what the run goes by, a function from     *)
(* options to values; said is what the last command said.  Nothing is      *)
(* promised of the options Elsewhere.                                      *)
(***************************************************************************)
CONSTANT Elsewhere
VARIABLES kept, said

Unset == [k \in {} |-> "unset"]

\* An agent on the host has no Leash and no reviewer.
IsForced(k, options) ==
    /\ k \in {"dangerousNoLeash", "reviewerEnabled"}
    /\ options["codingEnvironment"][1] = "local" /\ options[k] = "false"

Init == kept = Unset /\ said = Unset

Say ==
    \A k \in (DOMAIN kept \union DOMAIN said') \ Elsewhere :
        LET due == IF k \in DOMAIN said' THEN said'[k] ELSE kept[k]
        IN  k \in DOMAIN kept' /\ (kept'[k] = due \/ IsForced(k, kept'))

Spec == Init /\ [][Say]_<<kept, said>>
=============================================================================
