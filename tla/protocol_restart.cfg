CONSTANTS
    N = 2
    Overrides = {}
    Restarts = {2}
    MaxRuns = 2
    MaxSessions = 1
    Env = {}
SPECIFICATION Spec
INVARIANT FreshContainerMayWork
CHECK_DEADLOCK FALSE
