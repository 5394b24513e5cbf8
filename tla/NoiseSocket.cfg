SPECIFICATION Spec
CONSTANTS
    w1 = w1  w2 = w2  w3 = w3  k1 = k1
    Writes = {w1, w2, w3, k1}
    Keepalives = {k1}
    NoWrite = none
    CounterMax = 2
    BadFrames = 1
SYMMETRY WriteSymmetry
INVARIANTS CounterInv ReuseOnlyAfterCut
PROPERTIES ReadsInStep
CHECK_DEADLOCK FALSE
