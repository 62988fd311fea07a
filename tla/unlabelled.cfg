SPECIFICATION RepairSpec
CONSTANTS
    N = 3
    Txn = {0}
    Seeds = {0}
    Scenarios <- LabelScenarios
PROPERTIES
    RolesAdjusted
