\* One effect and two tasks that overlap in every way, with failures, a restart,
\* a fence and a released attempt.
SPECIFICATION BrokerSpec
CONSTANTS
    Effects = {e1}
    Leases = {l1}
    NoLease = NoLease
    Payloads = {p1}
    NoPayload = NoPayload
    NoId = NoId
    Kinds = {"deterministic", "human"}
    Sources = {kernel}
    Required <- AllKinds
    EpisodeStates = {"bootstrapping"}
    Tasks = {t1, t2}
    Failures = TRUE
    MaxCrashes = 1
    MaxEpoch = 2
    MaxRevision = 1
    MaxTrajectory = 0
    MaxReleases = 1
SYMMETRY TaskSymmetry
INVARIANTS
    BrokerTypeOK
    AppliedOncePerRelease
    CommittedWasApplied
    WithdrawnIsNotApplied
PROPERTIES
    KeepsPromise
