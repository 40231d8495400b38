CONSTANTS
    Calls <- ThreeCalls
    Moods <- SomeMoods
    Budget = 12
SPECIFICATION Spec
INVARIANTS AnswersWhole
