SPECIFICATION ControllerSpec
CONSTANTS
    CreateTimeout = 3
    RetryDelay = 1
    MaxSaveFaults = 0
    FaultsForever = FALSE
    ProviderLag = 2
    MachineLost = FALSE
    MaxErrors = 0
    TTL = 0
    Desktop = FALSE
    MaxCrashes = 0
INVARIANT NoOrphan
