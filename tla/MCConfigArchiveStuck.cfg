SPECIFICATION Spec
CONSTANTS
    c1 = c1
    c2 = c2
    Client = {c1}
    n1 = n1
    n2 = n2
    Sensor = {n1}
    v1 = v1
    v2 = v2
    Setting = {v1}
    MaxJobs = 3
    MaxFailures = 0
INVARIANT
    ReadyIsOffered
CHECK_DEADLOCK FALSE
