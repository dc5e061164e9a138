\* One effect, two leases, two revisions, two epochs: every transaction order.
SPECIFICATION StoreSpec
CONSTANTS
    Effects = {e1}
    Leases = {l1, l2}
    NoLease = NoLease
    Payloads = {p1, p2}
    NoPayload = NoPayload
    Kinds = {human}
    Sources = {operator}
    Required <- AllKinds
    EpisodeStates = {"bootstrapping", "running"}
    MaxEpoch = 2
    MaxRevision = 2
    MaxTrajectory = 1
    MaxReleases = 1
INVARIANTS
    StoreTypeOK
    RetryNeedsRelease
    FencedEffectsAreStale
    LiveLeasesAreCurrent
    ApprovedAsCommitted
PROPERTIES
    ImplementsHorizon
