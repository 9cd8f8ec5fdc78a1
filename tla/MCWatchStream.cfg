SPECIFICATION FairSpec
CONSTANTS
    Targets = {t1, t2, t3}
    kMaxWatchStreamFailures = 2
    MaxRestarts = 2
INVARIANTS
    TimerWhileTrying
    IdleMeansUnused
    WatchesItsTargets
PROPERTIES
    ImplementsLifecycle
    OnlineStateSettles
