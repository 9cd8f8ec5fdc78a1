SPECIFICATION FairSpec
CONSTANTS
    MaxWrites = 3
    MaxReplies = 2
INVARIANTS
    RunsWhatItHolds
    NothingOutlives
    InOrder
    OneWriteAtATime
PROPERTIES
    EndIsReported
    WaitsEnd
CHECK_DEADLOCK FALSE
