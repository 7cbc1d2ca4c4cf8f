SPECIFICATION FairController
CONSTANTS
    CreateTimeout = 2
    RetryDelay = 1
    MaxSaveFaults = 1
    FaultsForever = FALSE
    ProviderLag = 1
    MachineLost = TRUE
    MaxErrors = 1
    TTL = 0
    Desktop = TRUE
    MaxCrashes = 1
PROPERTIES StoppingSettles ProvisioningSettles

