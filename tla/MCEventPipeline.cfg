SPECIFICATION FairSpec
CONSTANTS
    EVENT_CACHE_LENGTH = 2
    MaxEvents = 4
    MaxLate = 1
    MaxRestarts = 1
    Malformed <- SecondMalformed
INVARIANTS
    TypeOK
    HeldIsWindow
    FullRingWasOffered
    DuplicatesOnlyUnconfirmed
PROPERTY
    KeepsPromise
    SubmitsHeldEventsWhileAlive
    StopTerminates
