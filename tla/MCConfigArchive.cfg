SPECIFICATION FairSpec
CONSTANTS
    c1 = c1
    c2 = c2
    Client = {c1, c2}
    n1 = n1
    n2 = n2
    Sensor = {n1, n2}
    v1 = v1
    v2 = v2
    Setting = {v1, v2}
    MaxJobs = 2
    MaxFailures = 1
INVARIANTS
    TypeOK
    AvailableIsComplete
    LastJobIsPacked
    ArchiveIsCurrent
PROPERTY
    NeverGoesBack
    EveryJobIsServed
CHECK_DEADLOCK FALSE
