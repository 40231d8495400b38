CONSTANTS
    Sections <- ThreeSections
    Parts <- RequestsEach
    Refusing = {"views"}
    Faults = {"send", "restart"}
SPECIFICATION FairSpec
INVARIANTS TypeOK EverySectionHeard FactsLeaveOnce FailuresLeave
PROPERTIES Recovers
