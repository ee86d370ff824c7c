SPECIFICATION RowsSpec
CONSTANTS
    W = 4
    Byte = {35, 50, 65}
    MaxLong = 5
    MaxShort = 2
    CharBytes = {1, 3, 4}
    Chars = {1, 11}
    ShortMax = 7
    NumberSize = 2
    Text <- MCText
INVARIANTS TypeOK ScanExactlyIfClean ScanKeepsKeys OneRowExact ShortBatchExact KeyTypeOK LookupExact MisledExact NoWrongRow
CHECK_DEADLOCK FALSE
