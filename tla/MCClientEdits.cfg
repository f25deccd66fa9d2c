SPECIFICATION FairEditsSpec
CONSTANTS
    Table = {sensors}
    Row = {r1}
    Poll = {p1, p2}
    Writer = {w1, e1}
    Edit = {e1}
    MaxTime = 1
    MaxWrites = 1
    MaxEdits = 1
INVARIANTS
    EditsTypeOK
    NothingMissed
    DraftsAreAccountedFor
PROPERTY
    CatchesUp
