CONSTANTS
    va = va
    vb = vb
    vc = vc
    sq = sq
    Inventories <- Listings
    VMware <- VMwareGroups
    MaxRunFanoutGroups = 2
    GroupsPerPoll = 5
    ObjectCap = 2
    Answers <- SomeAnswers
    Firmware <- SomeFirmware
SPECIFICATION Spec
INVARIANTS TypeOK SweptWhileSteady JoinableOnly TruncationIsTold SuspicionIsTold ProbedOnce
PROPERTIES ImplementsRotation
