SPECIFICATION Spec
CONSTANTS
    u1 = u1  u2 = u2
    Uploads = {u1, u2}
    NoKey = none
    MinPrekeyCount = 2
    Sequential = FALSE
    Failures = 2
SYMMETRY UploadSymmetry
INVARIANTS KeyInv KeyUsedOnce
PROPERTIES LossExplained
CHECK_DEADLOCK FALSE
