SPECIFICATION Spec
CONSTANTS
    Clients = {c1, c2}
    plain = plain
    colon = colon
    dash = dash
    sanitiseKey <- MCSanitiseKey
    NoMeter = NoMeter
    NoKey = NoKey
    NoDef = NoDef
    Keys = {plain}
    Defs = {d1, d2}
PROPERTY SecondCreateRefused
