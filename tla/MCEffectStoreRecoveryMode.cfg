CONSTANTS
    k1 = k1
    r1 = r1
    w1 = w1
    run1 = run1
    run2 = run2
    None = None
    Keys = {k1}
    CriticalKeys = {k1}
    Requests = {r1}
    Owners = {w1}
    Runs = {run1, run2}
    MaxGeneration = 2
    MaxVersion = 7
    MaxEpoch = 2
SPECIFICATION StoreSpec
PROPERTIES RecoveryModeAdmitsNothing
CHECK_DEADLOCK FALSE
