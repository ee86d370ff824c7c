SPECIFICATION LiveSpec
CONSTANTS
    Session = {s1}
    Table = {t1, t2}
    Key = {k1, k2}
    Modulus = 16
    Deployed = 0
    MaxCalls = 2
    Faults = {"timeout", "crash", "revert"}
INVARIANTS NoncesFollowCount DropLeavesFailed
PROPERTIES CallEnds
CHECK_DEADLOCK FALSE
