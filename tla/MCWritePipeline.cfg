SPECIFICATION LiveSpec
CONSTANTS
    Owners = {u1, u2}
    MaxPipeline = 2
    MaxWrites = 3
    MaxTrouble = 2
INVARIANTS
    TypeOK
    AnswersTheFirst
    SettledByServer
    LastWriteStands
    IdleOnlyWhenEmpty
    OpenInQueue
PROPERTIES
    ImplementsLifecycle
    ImplementsOutbox
    WriteResolves
CHECK_DEADLOCK FALSE
