CONSTANTS
    Session = {s1, s2}
    Table = {t1}
    Key = {k1, k2}
    Value = {v1}
    NoValue = NoValue
    MaxStatements = 2
    MaxOpen = 2
    NetworkFails = TRUE
SYMMETRY Symmetry
SPECIFICATION Spec
INVARIANTS
    TypeOK
    CacheIsReplay
    BatchIsTail
    PrefixApplied
    CommittedKeys
    BufferedIsRegistered
