SPECIFICATION Spec
CONSTANTS
    r1 = r1
    r2 = r2
    Rules <- TwoRules
SYMMETRY Symmetry
INVARIANTS
    ConsumedWasShown
    KeptWhileRunning
PROPERTY ConsumedIsForever
