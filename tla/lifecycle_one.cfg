SPECIFICATION FairSpec
CONSTANTS
    Procs = {p1}
    Env = {"pause", "restop", "edit", "force", "failure", "timeout", "crash", "sigint", "inspect"}
INVARIANTS
    PausedKeepsSandbox
PROPERTIES
    RequestEndsSession
CHECK_DEADLOCK FALSE
