CONSTANTS
    MaxReplicas = 3
    Templates = {1, 2, 3, 9}
    Broken = {9}
    MaxSize = 3
    Scenarios <- AllScenarios
SPECIFICATION Spec
CHECK_DEADLOCK FALSE
INVARIANTS
    TypeOK
    BrokenContained
    VolumesFollowTemplate
PROPERTIES
    OneDownAtATime
    Convergence
