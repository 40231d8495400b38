CONSTANTS
    c1 = c1
    c2 = c2
    w1 = w1
    u1 = u1
    i1 = i1
    Ids <- FiveAlerts
    SeverityOf <- Severities
    Capacity = 3
    Floor = "warning"
    MaxAlerts = 2
    Filters = {"v2"}
SPECIFICATION AlertSpec
INVARIANTS UnmappedNeverFiltered
