SPECIFICATION Spec
CONSTANTS
    PhaseNames <- Phases
    CriticNames <- Critics
    HostEnv <- Secrets
    Approved = {"S_TOKEN", "OPENAI_API_KEY", "EMPTY_TOKEN"}
    Features <- MCFeatures
    MaxSessions = 3
INVARIANTS
    ContainerInForce
    ScriptsInForce
    EnvInForce
    AcceptedCompiles
    GatedByItsTests
    ReportForetells
CHECK_DEADLOCK FALSE
