CONSTANTS
    k1 = k1
    q1 = q1
    q2 = q2
    e1 = e1
    e2 = e2
    a1 = a1
    a2 = a2
    run1 = run1
    None = None
    Keys = {k1}
    CriticalKeys = {}
    Requests = {q1, q2}
    Owners = {}
    Runs = {run1}
    ProviderRun = run1
    Executors = {e1, e2}
    OldExecutors = {}
    SignerConfigured = TRUE
    RecoveryCASMaxAttempts = 1
    MaxAttempts = 1
    MaxFaults = 0
    MaxGeneration = 2
    MaxVersion = 99
    MaxEpoch = 1
    Admins = {a1, a2}
    MaxIssued = 2
SPECIFICATION ServiceSpec
INVARIANTS IssueNeverCollides ExecutedUnderLiveAuthority OneAuthorityPerKey ConclusionsTruthful
SYMMETRY ServiceSymmetry
CHECK_DEADLOCK FALSE
