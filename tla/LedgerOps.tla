------------------------------ MODULE LedgerOps ------------------------------
(***************************************************************************)
(* What domain.RunLedger does to its OrderedDict, as operators on the      *)
(* sequence of its keys, oldest first.  The ledger of protection runs and  *)
(* the ledger of alert occurrences are both instances of that class.       *)
(* No operator here is RECURSIVE, so the modules that use them can be      *)
(* reasoned about with TLAPS.                                              *)
(***************************************************************************)
EXTENDS Naturals, Sequences

Held(ledger) == {ledger[i] : i \in 1..Len(ledger)}

\* No id occurs twice: what makes a sequence stand for the keys of an OrderedDict.
Distinct(ledger) ==
    \A i, j \in 1..Len(ledger) : ledger[i] = ledger[j] => i = j

\* The ids offered after the one at position i.
After(ledger, i) == {ledger[j] : j \in (i + 1)..Len(ledger)}

PositionOf(ledger, id) == CHOOSE i \in 1..Len(ledger) : ledger[i] = id

DropAt(ledger, k) ==
    [i \in 1..(Len(ledger) - 1) |-> IF i < k THEN ledger[i] ELSE ledger[i + 1]]

\* OrderedDict.move_to_end: a known id becomes the most recent one.
MoveToEnd(ledger, id) == Append(DropAt(ledger, PositionOf(ledger, id)), id)

\* A mistake: the popitem loop stops one id late.
EvictLate(ledger, capacity) ==
    IF Len(ledger) <= capacity + 1
    THEN ledger
    ELSE [i \in 1..capacity |-> ledger[i + (Len(ledger) - capacity)]]

\* A mistake: it evicts one id too many.
EvictEarly(ledger, capacity) ==
    IF Len(ledger) < capacity
    THEN ledger
    ELSE [i \in 1..(capacity - 1) |-> ledger[i + (Len(ledger) - (capacity - 1))]]

\* The popitem(last=False) loop: the newest `capacity` ids stay.
EvictOldest(ledger, capacity) ==
    IF Len(ledger) <= capacity
    THEN ledger
    ELSE [i \in 1..capacity |-> ledger[i + (Len(ledger) - capacity)]]

\* A mistake: only the newest id is compared.
IsFreshAgainstNewest(ledger, id) == Len(ledger) = 0 \/ ledger[Len(ledger)] # id

\* The answer of claim(): is this id to be counted now?
IsFresh(ledger, id) == id \notin Held(ledger)

\* A mistake: a known id keeps its place instead of becoming the most recent one.
ClaimWithoutRefresh(ledger, id, capacity) ==
    IF IsFresh(ledger, id)
    THEN EvictOldest(Append(ledger, id), capacity)
    ELSE ledger

\* The ledger claim() leaves behind.
Claim(ledger, id, capacity) ==
    IF IsFresh(ledger, id)
    THEN EvictOldest(Append(ledger, id), capacity)
    ELSE MoveToEnd(ledger, id)

==============================================================================
