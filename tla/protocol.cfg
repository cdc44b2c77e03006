CONSTANTS
    N = 3
    Overrides = {2}
    Restarts = {3}
    MaxRuns = 2
    MaxSessions = 3
    Env = {"pause", "stop", "crash"}
SPECIFICATION Spec
INVARIANTS ResultIsOfTheRequest ShellFollowsHost BudgetIsHandedOver
PROPERTIES SessionsEnd InSequence
CHECK_DEADLOCK FALSE
