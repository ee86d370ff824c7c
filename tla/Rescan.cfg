SPECIFICATION Spec
CONSTANTS
    Key = {k1, k2}
    Value = {v1, v2}
    NoValue = NoValue
    MaxScans = 2
    Modulus = 16
    LockTables = FALSE
INVARIANTS RescanStartsOver
CHECK_DEADLOCK FALSE
