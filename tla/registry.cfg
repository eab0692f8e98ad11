SPECIFICATION FairSpec
CONSTANTS
    Clients = {c1, c2}
    plain = plain
    colon = colon
    dash = dash
    sanitiseKey <- MCSanitiseKey
    NoMeter = NoMeter
    NoKey = NoKey
    NoDef = NoDef
    Keys = {plain, colon, dash}
    Defs = {d1}
INVARIANTS TypeOK RegistryAgreement
PROPERTIES RegisteredMeterKept StoredMeterWatched
