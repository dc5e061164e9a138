\* Liveness: a failing call, and two signals waiting while the controller works.
SPECIFICATION FairEpisodeSpec
CONSTANTS
    MaxRepairs = 1
    MaxFailures = 1
    MaxCrashes = 0
    MaxMail = 2
PROPERTIES
    ContainIsHonoured
CHECK_DEADLOCK FALSE
