\* A restart after the end of the episode; no call fails.
SPECIFICATION EpisodeSpec
CONSTANTS
    MaxRepairs = 1
    MaxFailures = 0
    MaxCrashes = 1
    MaxMail = 1
PROPERTIES
    TerminalIsFinal
CHECK_DEADLOCK FALSE
