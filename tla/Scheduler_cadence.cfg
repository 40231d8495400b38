CONSTANTS
    east = east
    west = west
    north = north
    gone = gone
    NoText = NoText
    Null = Null
    Configurations <- Edits
    MissingFiles = {gone}
    TickEvery = 4
    Tolerance = 1
    Jitter = 1
    MaxQuery = 3
SPECIFICATION Spec
INVARIANTS TypeOK PolledOnTime ForgottenWhole PolledOncePerQuery
PROPERTIES EditsTouchNoOther
