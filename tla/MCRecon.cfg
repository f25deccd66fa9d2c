SPECIFICATION FairSpec
CONSTANTS
    h1 = h1
    h2 = h2
    Host <- MCHost
    MaxWorkers = 2
    SEND_WAIT_TIMEOUT = 1
    FLOODER_CAP = 3
    FLOODER_TIMEOUT = 2
    MaxPackets = 3
    MaxUnanswered = 1
INVARIANTS
    TypeOK
    NoPacketLost
    ReportedOnce
PROPERTIES
    EveryEventIsSent
    FloodersReturn
CHECK_DEADLOCK FALSE
