SPECIFICATION Spec
CONSTANTS
    TopologicalOrder <- MCOrder
    Version = "0.1.0"
    Variants <- MCVariants
    RepoStates <- MCRepoStates
    Runs = {1, 2}
    Commands = {"check", "stage", "build", "inspect", "verify"}
    MaxRevision = 1
    MaxCrashes = 1
INVARIANTS
    StageTypeOK
    PassedIsFresh
    PassedIsDecoupled
    CheckedOrderIsPublishable
CHECK_DEADLOCK FALSE
