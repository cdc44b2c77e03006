SPECIFICATION DeliverySpec
CONSTANTS
    TestRetries = 2
    Composed = {0, 1}
    Run <- TwoCommits
    Base = {"base edit"}
    Mine = {"my edit", "my file", "my config"}
    New = {"file one", "file two", "my file"}
    Config = {"my config"}
    Out = "saifctl/feature"
    Branches = {"main", "saifctl/feature"}
    MaxEdits = 2
    MaxCommands = 2
INVARIANTS
    NothingLeaks
    WorkIsKept
    FailedMergeRestores
    DeliversTheRun
CHECK_DEADLOCK FALSE
