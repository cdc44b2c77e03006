SPECIFICATION Spec
CONSTANTS
    Settings <- MCSettings
    MaxEdits = 1
    MaxCommands = 3
INVARIANTS RowsAgree
PROPERTIES OptionsStick
CHECK_DEADLOCK FALSE
