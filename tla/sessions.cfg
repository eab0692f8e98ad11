SPECIFICATION Spec
CONSTANTS
    Keys = {s1, s2}
    Data = {s1, s2}
    NoData = NoData
    Browsers = {b1, b2}
    Requests = {r1, r2}
    Fleeting = {s1}
    MaxDropping = 2
SYMMETRY Symmetry
INVARIANTS TypeOK CookieBacked
PROPERTIES ImplementsExpiringMap ImplementsPlainMap
