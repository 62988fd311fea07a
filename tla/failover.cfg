SPECIFICATION LiveSpec
CONSTANTS
    N = 3
    Txn = {0, 1}
    Seeds = {0}
    Scenarios <- OutageScenarios
PROPERTIES
    FailoverHappens
