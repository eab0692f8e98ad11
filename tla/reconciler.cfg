SPECIFICATION FairSpec
CONSTANTS
    NoDef = NoDef
    NoMeter = NoMeter
    NoWorker = NoWorker
    Meters = {m1, m2}
    Defs = {d1, d2}
    Workers = {w1, w2}
INVARIANTS TypeOK RemovedMeterSilenced OneTrackedConsumer HandedOverIsServed
PROPERTIES ImplementsConsumerLife MeterConsumed RemovalHeard LoopReturns
