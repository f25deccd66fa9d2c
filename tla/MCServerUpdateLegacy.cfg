SPECIFICATION Spec
CONSTANTS
    c1 = c1
    c2 = c2
    Client = {c1, c2}
    u1 = u1
    s1 = s1
    s2 = s2
    User = {u1}
    Secret = {s1, s2}
    Known <- AllFirst
    MaxPosts = 2
    MaxSaves = 0
    MaxFailures = 1
INVARIANT
    NoLegacyMeansNewScheme
CHECK_DEADLOCK FALSE
