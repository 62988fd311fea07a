SPECIFICATION HealthySpec
CONSTANTS
    Slots = {p1, p2}
    NoProcess = NoProcess
    Scenarios <- ManagerScenarios
INVARIANTS
    TypeOK
    OneLiveProcess
    ShutdownComplete
PROPERTIES
    StopNotUndone
    StopObeyed
    StartObeyed
    MetricsReported
    ShutdownReturns
