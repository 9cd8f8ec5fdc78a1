SPECIFICATION SilentSpec
CONSTANTS
    Targets = {t1}
    kMaxWatchStreamFailures = 1
    MaxRestarts = 0
PROPERTY
    OnlineStateSettles
