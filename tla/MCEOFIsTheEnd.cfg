SPECIFICATION Spec
CONSTANTS
    Length = 4
    MaxByteCount = 6
    MaxGaps = 3
    FinWithData = TRUE
INVARIANT EOFIsTheEnd
CHECK_DEADLOCK FALSE
