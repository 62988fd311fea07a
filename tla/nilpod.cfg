SPECIFICATION Spec
CONSTANTS
    N = 3
    Txn = {0}
    Seeds = {0}
    Scenarios <- OfflineScenarios
INVARIANTS
    NoPanic
