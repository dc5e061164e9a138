\* docs/OPERATIONS.md:9 against reconcile_effect.
SPECIFICATION BrokerSpec
CONSTANTS
    Effects = {e1}
    Leases = {l1}
    NoLease = NoLease
    Payloads = {p1}
    NoPayload = NoPayload
    NoId = NoId
    Kinds = {"deterministic"}
    Sources = {kernel}
    Required <- AllKinds
    EpisodeStates = {"bootstrapping"}
    Tasks = {t1, t2}
    Failures = FALSE
    MaxCrashes = 0
    MaxEpoch = 1
    MaxRevision = 1
    MaxTrajectory = 0
    MaxReleases = 1
INVARIANTS
    ReleasedWasNotApplied
