SPECIFICATION Spec
CONSTANTS
    Key = {k1, k2, k3}
    Value = {v1, v2}
    NoValue = NoValue
    MaxScans = 2
    Modulus = 16
    LockTables = TRUE
INVARIANTS TypeOK ScanExact AheadUntouched PositionsNameRows RowHereIsCached UnlockedHasTransaction
CHECK_DEADLOCK FALSE
