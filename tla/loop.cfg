SPECIFICATION FairSpec
CONSTANTS
    phase = phase
    none = none
    N = 3
    Phases = {phase}
    NoPhase = none
    PhaseOf <- TwoOfThree
    Cap <- CapTwo
    Restarts = {3}
    MaxRuns = 2
    Modes = {"staging", "sandbox"}
    Env = {"pause", "stop", "timeout", "crash", "sigint", "storage", "failure", "container"}
    MaxProcs = 2
    MaxCommits = 2
INVARIANTS
    StoredProgressIsWhole
    DeliversWhatWasTested
    CommitsOnce
    AppliedIsOnHost
    BudgetsCount
    CriticHasBase
PROPERTIES
    AgentStartsFromLedger
    EveryProcessEnds
CHECK_DEADLOCK FALSE
