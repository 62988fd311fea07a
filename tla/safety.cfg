SPECIFICATION Spec
CONSTANTS
    N = 3
    Txn = {0, 1, 2}
    Seeds = {0}
    Scenarios <- SafetyScenarios
INVARIANTS
    TypeOK
    Durability
    NoFalseErrant
    OnePrimaryLabel
    TopRunnerIsTop
    ComparisonNotStale
    ConclusionSound
PROPERTIES
    SwitchoverLossless
    ImplementsLedger
