SPECIFICATION Spec
CONSTANTS
    Procs = {p1, p2}
    Env = {"pause", "edit", "failure", "crash", "inspect"}
SYMMETRY ProcSymmetry
INVARIANTS
    SignalMatchesStatus
    OneOrchestrator
PROPERTIES
    RequestNotLost
    ImplementsOwnership
CHECK_DEADLOCK FALSE
