SPECIFICATION FairSpec
CONSTANTS
    Token <- Tokens
    dashed <- Dashes
    Meters <- SomeMeters
    Events <- ThreeEvents
    Clients = {c1}
    NoEvent = NoEvent
    MaxStored = 2
INVARIANTS TypeOK AcceptedIdIsStored RetryCountsOnce ReadingsApart
PROPERTIES EveryMeterReached
