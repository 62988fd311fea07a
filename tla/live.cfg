SPECIFICATION RepairSpec
CONSTANTS
    N = 3
    Txn = {0, 1}
    Seeds = {0}
    Scenarios <- LiveScenarios
INVARIANTS
    PrimaryNotErrant
PROPERTIES
    Recovery
    DemoteObeyed
    NoStaleRole
    ErrantExcluded
    ReplicasLocked
    IntermediateLocked
