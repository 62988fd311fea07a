CONSTANTS
    N = 3
    MaxTxn = 3
    MaxTime = 4
    Slots = {j1, j2}
    j1 = j1
    j2 = j2
    Scenarios <- AllScenarios
SYMMETRY Symmetry
SPECIFICATION Spec
CHECK_DEADLOCK FALSE
INVARIANTS
    TypeOK
    RestoresPrefix
    ChainComplete
    RestoredTruthfully
