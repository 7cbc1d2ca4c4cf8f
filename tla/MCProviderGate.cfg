CONSTANTS
    c1 = c1
    c2 = c2
    c3 = c3
    CallIds = {c1, c2, c3}
    MaxConcurrent = 2
    OpenAfter = 2
    MaxWedged = 2
SPECIFICATION GateSpec
INVARIANTS SlotsExact HangingIsCounted
PROPERTIES ProbeEnds
CHECK_DEADLOCK FALSE
