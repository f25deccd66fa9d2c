SPECIFICATION FairSpec
CONSTANTS
    EVENT_CACHE_LENGTH = 2
    MaxEvents = 2
    MaxLate = 1
    MaxRestarts = 0
    Malformed <- NoneMalformed
PROPERTY
    SubmitsHeldEvents
