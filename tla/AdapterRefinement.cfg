SPECIFICATION Spec
CONSTANTS
    Session = {s1, s2}
    Table = {t1}
    Key = {k1, k2}
    Modulus = 16
    Deployed = 0
    MaxCalls = 2
    Faults = {"connection", "answer", "timeout", "revert"}
SYMMETRY Symmetry
INVARIANTS TypeOK ZeroMeansDone OnlyStoredLeave
PROPERTIES ImplementsInterface
CHECK_DEADLOCK FALSE
