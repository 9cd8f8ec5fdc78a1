SPECIFICATION FairSpec
CONSTANTS
    Users = {u1}
    None = None
    MaxNotices = 2
    MaxCloses = 1
    MaxTasks = 2
INVARIANTS
    StreamOfEngineUser
    ResumeIsExpected
    WriteOfItsCaller
PROPERTIES
    ImplementsLifecycle
    TokenOfTheUser
    WritesReachAStream
CHECK_DEADLOCK FALSE
