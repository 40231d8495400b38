CONSTANTS
    east = east
    west = west
    north = north
    gone = gone
    NoText = NoText
    Null = Null
    Configurations <- Steady
    MissingFiles = {gone}
    TickEvery = 4
    Tolerance = 1
    Jitter = 1
    MaxQuery = 1
SPECIFICATION Spec
INVARIANTS OthersStillRun
