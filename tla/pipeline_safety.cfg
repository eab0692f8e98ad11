SPECIFICATION Spec
CONSTANTS
    m1 = m1
    m2 = m2
    id1 = id1
    id2 = id2
    main = main
    g1 = g1
    NoMsg = NoMsg
    NoTarget = NoTarget
    Msgs = {m1, m2}
    Ids = {id1, id2}
    idOf <- MCIdOf
    Main = main
    Groups = {g1}
    fate <- MCFate
    Workers = {w1, w2}
    MaxFaults = 1
    MaxApplied = 2
SYMMETRY Symmetry
INVARIANTS TypeOK ExactlyOnce
PROPERTY ImplementsMetering
CHECK_DEADLOCK FALSE
