SPECIFICATION FairSpec
CONSTANTS
    Slots = {p1, p2}
    NoProcess = NoProcess
    Scenarios <- FailingScenarios
PROPERTIES
    StopEndsProcess
