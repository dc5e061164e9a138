SPECIFICATION Spec
CONSTANTS
    Setups <- MCSetups
    MaxFaults = 1
INVARIANTS
    GreenMeansExecuted
    ExitTellsFailures
    SurvivorsWereKilled
PROPERTY RunEnds
CHECK_DEADLOCK FALSE
