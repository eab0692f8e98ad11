SPECIFICATION FairSpec
CONSTANT Procs = {p1, p2}
INVARIANTS TypeOK ServesWithBuckets EarlyErrorEndsProcess
PROPERTIES EachCallDecides StartDecides
