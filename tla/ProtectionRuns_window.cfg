CONSTANTS
    a1 = a1
    a2 = a2
    b1 = b1
    ga = ga
    gb = gb
    Inventory <- TwoGroups
    Runs <- ThreeRuns
    GroupOf <- GroupOfThree
    Outcomes = {"Failed"}
    Opaque = {}
    Capacity = 3
    RunsPerGroup = 2
    FanoutCap = 2
    Interval = 2
    Overlap = 2
    MaxLate = 1
    MaxDelay = 1
    Refusing = {"summary", "list"}
    Faults = {}
SPECIFICATION Spec
INVARIANTS NothingMissed
PROPERTIES CountsRunsOnce
