SPECIFICATION Spec
CONSTANTS
    NetworkSettings = 2
    plain = plain
    other = other
    umlaut = umlaut
    Value = {plain, other}
    Unencodable = {}
    Factory <- AllPlain
    Registered <- PlainOrMoved
    Broken = Broken
    Blank = Blank
    MaxChanges = 1
    MaxQueue = 1
INVARIANT
    ConfigurationSurvivesUpdate
