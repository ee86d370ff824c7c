CONSTANTS
    Session = {s1}
    Table = {t1}
    Key = {k1}
    Value = {v1, v2}
    NoValue = NoValue
    MaxStatements = 2
    MaxOpen = 1
    NetworkFails = FALSE
SPECIFICATION Spec
INVARIANT
    CommittedRows
