SPECIFICATION Spec
CONSTANTS
    MaxQueue = 1
    MaxDemand = 1
    Shapes <- MCShapes
    MaxEvents = 4
    MaxRepairs = 1
    MaxCrashes = 1
    Failures = TRUE
INVARIANTS
    ObservationTypeOK
    HardFramesNeverDropped
    QueueIsBounded
    ContainmentIsAnswered
PROPERTIES
    FramesFenceCommits
    RecoveryIsSlow
    HardFrameIsObserved
CHECK_DEADLOCK FALSE
