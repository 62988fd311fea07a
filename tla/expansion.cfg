CONSTANTS
    MaxReplicas = 3
    Templates = {1, 2, 3, 9}
    Broken = {9}
    MaxSize = 3
    Scenarios <- ExpansionWhileDown
SPECIFICATION Spec
CHECK_DEADLOCK FALSE
PROPERTIES
    VolumesResized
