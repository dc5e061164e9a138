\* Safety: a failing call and a restart at any point. A terminal controller stops.
SPECIFICATION EpisodeSpec
CONSTANTS
    MaxRepairs = 1
    MaxFailures = 1
    MaxCrashes = 1
    MaxMail = 1
INVARIANTS
    EpisodeTypeOK
    OneWorkerDomain
    NoAuthorityOverOldWorker
    ContainedIsFenced
    EpochsAreBudgeted
CHECK_DEADLOCK FALSE
