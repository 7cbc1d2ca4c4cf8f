CONSTANTS
    k1 = k1
    q1 = q1
    q2 = q2
    e1 = e1
    e2 = e2
    w1 = w1
    w2 = w2
    run1 = run1
    None = None
    Keys = {k1}
    CriticalKeys = {k1}
    Requests = {q1, q2}
    Owners = {w1}
    Runs = {run1}
    ProviderRun = run1
    Executors = {e1}
    OldExecutors = {}
    SignerConfigured = TRUE
    RecoveryCASMaxAttempts = 3
    MaxAttempts = 2
    MaxFaults = 1
    MaxGeneration = 2
    MaxVersion = 99
    MaxEpoch = 1
SPECIFICATION FabricSpec
INVARIANTS AtMostOneEffect SettledTruthfully RepliesTruthful LookupsBounded
