\* Two tasks evaluate, commit and reconcile an effect that is revised to either
\* payload: an attempt is released and another one made while a task is still to
\* mark the first.
SPECIFICATION BrokerSpec
CONSTANTS
    Effects = {e1}
    Leases = {l1}
    NoLease = NoLease
    Payloads = {p1, p2}
    NoPayload = NoPayload
    NoId = NoId
    Kinds = {"deterministic", "semantic"}
    Sources = {kernel}
    Required <- AllKinds
    EpisodeStates = {"bootstrapping"}
    Tasks = {t1, t2}
    Failures = FALSE
    MaxCrashes = 0
    MaxEpoch = 1
    MaxRevision = 2
    MaxTrajectory = 0
    MaxReleases = 1
SYMMETRY TaskAndPayloadSymmetry
INVARIANTS
    ActuatesWhatWasApproved
