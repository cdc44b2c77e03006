SPECIFICATION FairSpec
CONSTANTS
    Procs = {p1}
    Env = {}
PROPERTIES
    StopSettles
CHECK_DEADLOCK FALSE
