SPECIFICATION FairController
CONSTANTS
    CreateTimeout = 2
    RetryDelay = 1
    MaxSaveFaults = 1
    FaultsForever = TRUE
    ProviderLag = 0
    MachineLost = FALSE
    MaxErrors = 1
    TTL = 1
    Desktop = TRUE
    MaxCrashes = 0
INVARIANTS BridgeRevoked NoLostWakeup
PROPERTY ExpiredBridgeRevoked
