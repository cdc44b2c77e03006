SPECIFICATION ViewSpec
CONSTANTS
    a = a
    b = b
    Runs = {a, b}
    NoRun = none
    Texts = {"x", "y"}
    Topics <- AllTopics
    MaxWorks = 2
INVARIANTS TabsAgree FailedEditsAreUndone FollowedWhileLive
PROPERTIES ChatsCatchUp
CHECK_DEADLOCK FALSE
