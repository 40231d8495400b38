--------------------------- MODULE MCProtectionRuns ---------------------------
(***************************************************************************)
(* ProtectionRuns on two groups, with one run each or two in the first.    *)
(***************************************************************************)
EXTENDS ProtectionRuns

CONSTANTS a1, a2, b1, ga, gb

TwoGroups == <<ga, gb>>
TwoRuns == {a1, b1}
ThreeRuns == {a1, a2, b1}

GroupOfTwo == [r \in TwoRuns |-> IF r = a1 THEN ga ELSE gb]
GroupOfThree == [r \in ThreeRuns |-> IF r \in {a1, a2} THEN ga ELSE gb]

==============================================================================
