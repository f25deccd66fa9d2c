SPECIFICATION FairSpec
CONSTANTS
    NetworkSettings = 2
    plain = plain
    other = other
    umlaut = umlaut
    Value = {plain, other, umlaut}
    Unencodable = {umlaut}
    Factory <- AllPlain
    Registered <- PlainOrMoved
    Broken = Broken
    Blank = Blank
    MaxChanges = 1
    MaxQueue = 1
INVARIANTS
    TypeOK
    AppliedIsConfigured
    ArchiveIsOneConfiguration
    ArchiveIsCurrent
PROPERTY
    TakesOverConfiguration
    RepeatsFirmwareUpdate
