CONSTANTS
    a1 = a1
    a2 = a2
    b1 = b1
    ga = ga
    gb = gb
    Inventory <- TwoGroups
    Runs <- TwoRuns
    GroupOf <- GroupOfTwo
    Outcomes = {"Failed", "Succeeded"}
    Opaque = {b1}
    Capacity = 1
    RunsPerGroup = 1
    FanoutCap = 1
    Interval = 1
    Overlap = 0
    MaxLate = 0
    MaxDelay = 0
    Refusing = {"summary", "list", "groups"}
    Faults = {"abort", "emit", "restart"}
SPECIFICATION Spec
INVARIANTS TypeOK ClaimedIsCounted CountedUnderItsOutcome CountInv
