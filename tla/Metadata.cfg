SPECIFICATION Spec
CONSTANTS
    Table = {t1, t2}
    Address = {a1, a2}
    Joinable = {}
    NoTable = NoTable
    NoFile = NoFile
    Nobody = Nobody
    Empty = Empty
    Absent = Absent
    Blank = Blank
    MaxFiles = 3
    Faults = {"crash", "node", "reject", "silent"}
SYMMETRY Symmetry
INVARIANTS TypeOK OwnContract MetadataNamesContract
CHECK_DEADLOCK FALSE
