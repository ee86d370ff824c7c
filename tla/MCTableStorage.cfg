CONSTANTS
    Key = {k1, k2, k3}
    Value = {v1, v2}
    NoValue = NoValue
    MaxBlock = 2
    MaxBatch = 2
SPECIFICATION Spec
INVARIANTS
    TypeOK
    ScanExact
PROPERTIES
    ImplementsStore
