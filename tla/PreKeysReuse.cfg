SPECIFICATION Spec
CONSTANTS
    u1 = u1  u2 = u2
    Uploads = {u1, u2}
    NoKey = none
    MinPrekeyCount = 2
    Sequential = TRUE
    Failures = 0
PROPERTIES StoredKeysDecrypt
CHECK_DEADLOCK FALSE
