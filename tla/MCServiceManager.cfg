SPECIFICATION FairSpec
CONSTANTS
    One = One
    Twelve = Twelve
    Service <- MCService
    SharesName <- MCSharesName
    CatchAll <- MCCatchAll
    MaxRevision = 2
    MaxAddress = 2
    MaxFaults = 1
    MaxChanges = 2
INVARIANTS
    TypeOK
    TracksContainers
    RedirectsToTarget
PROPERTIES
    KeepsRunning
    FollowsAssignment
CHECK_DEADLOCK FALSE
