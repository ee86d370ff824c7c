SPECIFICATION Spec
CONSTANTS
    Session = {s1, s2}
    Table = {t1, t2}
    Key = {k1}
    Modulus = 16
    Deployed = 1
    MaxCalls = 2
    Faults = {}

INVARIANTS AddedNotReplaced
CHECK_DEADLOCK FALSE
