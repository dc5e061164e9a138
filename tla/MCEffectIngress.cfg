\* Two sockets and an operator share a broker of one place and a pool of three slots.
SPECIFICATION FairIngressSpec
CONSTANTS
    Sources <- MCSources
    Levels = {0, 72, 100}
    Episodes = {e1, e2}
    Direct = {op}
    Pool = 3
    Limit = 1
    MaxRequests = 2
    MaxKills = 1
    MaxTimeouts = 1
    MaxReports = 2
INVARIANTS
    IngressTypeOK
    ActiveCountsTasks
    NeverBelowTarget
PROPERTIES
    RecoveryIsEarned
    EveryoneIsAnswered
    BackpressureIsLifted
