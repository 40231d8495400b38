------------------------------ MODULE RunLedger ------------------------------
(***************************************************************************)
(* The dedup ledger of src/cohesity_storage/domain.py on its own: run ids  *)
(* are offered in any order, any number of times, and each offer is one    *)
(* call of RunLedger.claim.                                                *)
(*                                                                         *)
(* `seen` is the ledger.  The other variables are history, read by no      *)
(* guard: which ids claim() has answered True for, which of those it       *)
(* answered True for again, and which other ids were offered since an id   *)
(* was last offered.                                                       *)
(***************************************************************************)
EXTENDS LedgerOps, FiniteSets

CONSTANTS
    Ids,        \* the run ids the cluster can report
    Capacity    \* RUN_LEDGER_CAPACITY, at least 1 by max(1, capacity)

ASSUME CapacityAssumption == Capacity \in Nat \ {0}
ASSUME IdsAssumption == IsFiniteSet(Ids)

VARIABLES seen, counted, recounted, since

vars == <<seen, counted, recounted, since>>

\* Types.
TypeOK ==
    /\ seen \in Seq(Ids)
    /\ counted \subseteq Ids
    /\ recounted \subseteq counted
    /\ since \in [Ids -> SUBSET Ids]

Init ==
    /\ seen = <<>>
    /\ counted = {}
    /\ recounted = {}
    /\ since = [id \in Ids |-> {}]

\* One call of claim(id).
Offer(id) ==
    /\ seen' = Claim(seen, id, Capacity)
    /\ since' = [other \in Ids |-> IF other = id THEN {} ELSE since[other] \cup {id}]
    /\ IF IsFresh(seen, id)
       THEN /\ counted' = counted \cup {id}
            /\ recounted' = recounted \cup (counted \cap {id})
       ELSE UNCHANGED <<counted, recounted>>

Next == \E id \in Ids : Offer(id)

Spec == Init /\ [][Next]_vars

------------------------------------------------------------------------------

\* The ledger never outgrows its capacity and never holds an id twice, whatever is offered:
\* the bound that keeps a process running for months from leaking.
Bounded ==
    /\ Len(seen) <= Capacity
    /\ Distinct(seen)

\* What the ledger remembers is exact: an id that has been counted is still held precisely
\* while fewer than Capacity other ids were offered after its own last offer.  Re-offering
\* refreshes, so a long-running job that keeps appearing is not pushed out.
HoldsMostRecent ==
    \A id \in counted : id \in Held(seen) <=> Cardinality(since[id]) < Capacity

\* While the ids the cluster has reported so far fit the ledger, none of them was counted twice.
OnceWhileTheyFit == Cardinality(counted) <= Capacity => recounted = {}

\* The strengthening that is inductive: a held id's younger offers are exactly the ids behind
\* it in the ledger, and an id no longer held has seen a full turnover since its last offer.
HeldIsCounted == Held(seen) \subseteq counted

HeldAreInOfferOrder == \A i \in 1..Len(seen) : since[seen[i]] = After(seen, i)

DroppedAfterTurnover ==
    \A id \in counted \ Held(seen) : Capacity <= Cardinality(since[id])

\* The inductive invariant of the ledger: what claim() relies on between any two offers.
LedgerInv ==
    /\ TypeOK
    /\ Bounded
    /\ HeldIsCounted
    /\ HeldAreInOfferOrder
    /\ DroppedAfterTurnover

==============================================================================
