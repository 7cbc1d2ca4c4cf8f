SPECIFICATION ControllerSpec
CONSTANTS
    CreateTimeout = 3
    RetryDelay = 1
    MaxSaveFaults = 2
    FaultsForever = FALSE
    ProviderLag = 2
    MachineLost = TRUE
    MaxErrors = 2
    TTL = 0
    Desktop = FALSE
    MaxCrashes = 2
INVARIANTS NoKnownOrphan LateCreateAwaited IdentityIsDurable ReleaseIsRecorded AcknowledgedIsDurable CommandsAreCurrent
