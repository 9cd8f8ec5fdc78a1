SPECIFICATION Spec
CONSTANTS
    Owners = {u1}
    MaxPipeline = 3
    MaxWrites = 3
    MaxTrouble = 1
INVARIANT
    RejectedWasRefused
CHECK_DEADLOCK FALSE
