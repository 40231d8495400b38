CONSTANTS
    Sections <- ThreeSections
    Parts <- RequestsEach
    Refusing = {"views"}
    Faults = {}
SPECIFICATION Spec
INVARIANTS SuccessMeansAnswered
