SPECIFICATION Spec
CONSTANTS
    a = a
    b = b
    t1 = t1
    t2 = t2
    r1 = r1
    r2 = r2
    r3 = r3
    g1 = g1
    g2 = g2
    l1 = l1
    l2 = l2
    l3 = l3
    Rows = {r1, r2, r3}
    MaxRefusals = 1
    MaxEnds = 1
    MaxStanding = 2
INVARIANTS
    WrittenMeansOnDisk
    CablesAndRowsSettle
    DesksTellWhatTheyHold
PROPERTIES
    TheDiskNeverGoesBack
    WhatIsOwedComes
CHECK_DEADLOCK FALSE
