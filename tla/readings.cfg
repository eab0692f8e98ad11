SPECIFICATION Spec
CONSTANTS
    s1 = s1
    s2 = s2
    Numbers <- MCNumbers
    Strings = {s1, s2}
    NoValue = NoValue
    NoReading = NoReading
    MaxEvents = 4
INVARIANTS TypeOK ReadingIsAggregate ExtremeIsAttained
CHECK_DEADLOCK FALSE
