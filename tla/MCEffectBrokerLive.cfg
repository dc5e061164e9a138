\* Liveness: store and registry available, a restart, a fence and a release.
SPECIFICATION FairBrokerSpec
CONSTANTS
    Effects = {e1}
    Leases = {l1}
    NoLease = NoLease
    Payloads = {p1}
    NoPayload = NoPayload
    NoId = NoId
    Kinds = {"deterministic"}
    Sources = {kernel}
    Required <- AllKinds
    EpisodeStates = {"bootstrapping"}
    Tasks = {t1, t2}
    Failures = FALSE
    MaxCrashes = 1
    MaxEpoch = 2
    MaxRevision = 1
    MaxTrajectory = 0
    MaxReleases = 1
PROPERTIES
    InFlightIsResolved
