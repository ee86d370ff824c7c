CONSTANTS
    Session = {s1, s2}
    Table = {t1, t2}
    Key = {k1}
    Value = {v1, v2}
    NoValue = NoValue
    MaxStatements = 4
    MaxOpen = 2
    NetworkFails = TRUE
SPECIFICATION FairSpec
CONSTRAINT Room
INVARIANTS
    BatchIsTail
    PrefixApplied
    CommittedKeys
PROPERTIES
    CommitEnds
