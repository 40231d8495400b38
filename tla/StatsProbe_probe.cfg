CONSTANTS
    Calls <- ThreeCalls
    Moods <- SomeMoods
    Budget = 12
SPECIFICATION FairSpec
INVARIANTS TypeOK WinnersHaveData
PROPERTIES NoEndpointStarves Recovers
