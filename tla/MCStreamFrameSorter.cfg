SPECIFICATION FairSpec
CONSTANTS
    Length = 6
    MaxByteCount = 8
    MaxGaps = 3
    FinWithData = FALSE
INVARIANTS TypeOK NoBug GapsAreWhatIsMissing ReadsTheHead NothingIsStuck
PROPERTY StreamIsRead
CHECK_DEADLOCK FALSE
