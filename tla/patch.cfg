SPECIFICATION Spec
CONSTANTS
    Paths = {"code", "more", "test", "note", "cache"}
    Place <- MCPlace
    Committed = {"code", "test"}
    Dirty = {}
    Holdout = {"test"}
    Locked = {}
    Strict = TRUE
    Rows = 2
    MaxRuns = 2
    MaxCommits = 1
    MaxEdits = 3
    MaxStarts = 2
INVARIANTS LedgerIsTheTree
PROPERTIES ImmutableTestsStay
CHECK_DEADLOCK FALSE
