--------------------------- MODULE AlertFeed_proofs ---------------------------
(***************************************************************************)
(* The ledger of RunLedger, proved for every finite set of ids and every   *)
(* capacity, and then the alert feed that extends it, for any finite set   *)
(* of occurrences, any floor, and any maxAlerts of which two fit the       *)
(* ledger but for one.                                                     *)
(***************************************************************************)
EXTENDS AlertFeed, LedgerOps_proofs

------------------------------------------------------------------------------
(* The ledger. *)

\* What was offered since an id can be counted.
LEMMA SinceIsFinite ==
    ASSUME TypeOK, NEW id \in Ids
    PROVE  IsFiniteSet(since[id]) /\ Cardinality(since[id]) \in Nat
<1>1. since[id] \in SUBSET Ids
    BY DEF TypeOK
<1> QED BY <1>1, IdsAssumption, FS_Subset, FS_CardinalityType

\* The invariant holds of the empty ledger of a new client.
LEMMA InitLedgerInv == Init => LedgerInv
<1> SUFFICES ASSUME Init PROVE LedgerInv
    OBVIOUS
<1>1. Len(seen) = 0 /\ Held(seen) = {}
    BY DEF Init, Held
<1>2. TypeOK
    BY DEF Init, TypeOK
<1>3. Bounded
    BY <1>1, CapacityAssumption DEF Bounded, Distinct
<1>4. HeldIsCounted /\ HeldAreInOfferOrder /\ DroppedAfterTurnover
    BY <1>1 DEF Init, HeldIsCounted, HeldAreInOfferOrder, DroppedAfterTurnover
<1> QED BY <1>2, <1>3, <1>4 DEF LedgerInv

\* Offering an id that is held only moves it to the recent end.
LEMMA ReofferKeepsLedgerInv ==
    ASSUME LedgerInv, NEW id \in Ids, Offer(id), ~IsFresh(seen, id)
    PROVE  LedgerInv'
<1>1. /\ seen \in Seq(Ids)
      /\ since \in [Ids -> SUBSET Ids]
      /\ Distinct(seen)
      /\ Len(seen) <= Capacity
    BY DEF LedgerInv, TypeOK, Bounded
<1>2. PICK k \in 1..Len(seen) : seen[k] = id
    BY DEF IsFresh, Held
<1>3. /\ seen' = MoveToEnd(seen, id)
      /\ UNCHANGED <<counted, recounted>>
      /\ since' = [other \in Ids |-> IF other = id THEN {} ELSE since[other] \cup {id}]
    BY DEF Offer, Claim
<1>4. /\ seen' \in Seq(Ids)
      /\ Len(seen') = Len(seen)
      /\ \A i \in 1..Len(seen) :
            seen'[i] = IF i < k THEN seen[i]
                       ELSE IF i < Len(seen) THEN seen[i + 1] ELSE seen[k]
      /\ Distinct(seen')
      /\ Held(seen') = Held(seen)
    BY <1>1, <1>2, <1>3, MoveToEndFacts
<1>5. TypeOK'
    BY <1>1, <1>3, <1>4 DEF LedgerInv, TypeOK
<1>6. Bounded'
    BY <1>1, <1>4 DEF Bounded
<1>7. HeldIsCounted'
    BY <1>3, <1>4 DEF LedgerInv, HeldIsCounted
<1>8. HeldAreInOfferOrder'
  <2> SUFFICES ASSUME NEW i \in 1..Len(seen')
               PROVE  since'[seen'[i]] = After(seen', i)
      BY DEF HeldAreInOfferOrder
  <2>1. \A p \in 1..Len(seen) : since[seen[p]] = After(seen, p) /\ seen[p] \in Ids
      BY <1>1 DEF LedgerInv, HeldAreInOfferOrder
  <2>2. CASE i < k
    <3>1. seen'[i] = seen[i] /\ seen[i] # id
        BY <1>1, <1>2, <1>4, <2>2 DEF Distinct
    <3>2. since'[seen'[i]] = After(seen, i) \cup {id}
        BY <1>3, <1>4, <2>1, <3>1
    <3>3. After(seen, i) \cup {id} = After(seen', i)
      <4>1. \A x \in After(seen', i) : x \in After(seen, i) \cup {id}
          BY <1>2, <1>4, <2>2 DEF After
      <4>2. \A p \in (i + 1)..Len(seen) : seen[p] \in After(seen', i)
        <5> TAKE p \in (i + 1)..Len(seen)
        <5>1. CASE p < k
            BY <1>2, <1>4, <2>2, <5>1 DEF After
        <5>2. CASE p = k
          <6>1. Len(seen) \in (i + 1)..Len(seen') /\ seen'[Len(seen)] = seen[p]
              BY <1>2, <1>4, <2>2, <5>2
          <6> QED BY <6>1 DEF After
        <5>3. CASE p > k
          <6>1. p - 1 \in (i + 1)..Len(seen') /\ seen'[p - 1] = seen[p]
              BY <1>2, <1>4, <2>2, <5>3
          <6> QED BY <6>1 DEF After
        <5> QED BY <5>1, <5>2, <5>3
      <4>3. id \in After(seen', i)
          BY <1>2, <2>2, <4>2
      <4> QED BY <4>1, <4>2, <4>3 DEF After
    <3> QED BY <3>2, <3>3
  <2>3. CASE i >= k /\ i < Len(seen)
    <3>1. seen'[i] = seen[i + 1] /\ seen[i + 1] # id /\ i + 1 \in 1..Len(seen)
        BY <1>1, <1>2, <1>4, <2>3 DEF Distinct
    <3>2. since'[seen'[i]] = After(seen, i + 1) \cup {id}
        BY <1>3, <1>4, <2>1, <3>1
    <3>3. After(seen, i + 1) \cup {id} = After(seen', i)
      <4>1. \A x \in After(seen', i) : x \in After(seen, i + 1) \cup {id}
          BY <1>2, <1>4, <2>3 DEF After
      <4>2. \A p \in (i + 2)..Len(seen) : seen[p] \in After(seen', i)
        <5> TAKE p \in (i + 2)..Len(seen)
        <5>1. p - 1 \in (i + 1)..Len(seen') /\ seen'[p - 1] = seen[p]
            BY <1>2, <1>4, <2>3
        <5> QED BY <5>1 DEF After
      <4>3. id \in After(seen', i)
        <5>1. Len(seen) \in (i + 1)..Len(seen') /\ seen'[Len(seen)] = id
            BY <1>2, <1>4, <2>3
        <5> QED BY <5>1 DEF After
      <4>4. After(seen, i + 1) = {seen[p] : p \in (i + 2)..Len(seen)}
          BY <2>3 DEF After
      <4> QED BY <4>1, <4>2, <4>3, <4>4
    <3> QED BY <3>2, <3>3
  <2>4. CASE i = Len(seen)
    <3>1. seen'[i] = id
        BY <1>2, <1>4, <2>4
    <3>2. After(seen', i) = {}
        BY <1>4, <2>4 DEF After
    <3> QED BY <1>3, <3>1, <3>2
  <2> QED BY <1>2, <1>4, <2>2, <2>3, <2>4
<1>9. DroppedAfterTurnover'
  <2> SUFFICES ASSUME NEW x \in counted \ Held(seen)
               PROVE  Capacity <= Cardinality(since'[x])
      BY <1>3, <1>4 DEF DroppedAfterTurnover
  <2>1. x \in Ids /\ x # id
      BY <1>2 DEF LedgerInv, TypeOK, Held
  <2>2. since'[x] = since[x] \cup {id}
      BY <1>3, <2>1
  <2>3. Capacity <= Cardinality(since[x])
      BY DEF LedgerInv, DroppedAfterTurnover
  <2>4. IsFiniteSet(since[x])
      BY <2>1, SinceIsFinite DEF LedgerInv
  <2>5. /\ Cardinality(since[x]) \in Nat
        /\ Cardinality(since[x] \cup {id}) \in Nat
        /\ Cardinality(since[x]) <= Cardinality(since[x] \cup {id})
      BY <2>4, CardinalityGrows
  <2> QED BY <2>2, <2>3, <2>5, CapacityAssumption
<1> QED BY <1>5, <1>6, <1>7, <1>8, <1>9 DEF LedgerInv

\* Offering an unknown id appends it and, at capacity, drops the oldest.
LEMMA FreshKeepsLedgerInv ==
    ASSUME LedgerInv, NEW id \in Ids, Offer(id), IsFresh(seen, id)
    PROVE  LedgerInv'
<1>0. PICK grown : grown = Append(seen, id)
    OBVIOUS
<1>1. /\ seen \in Seq(Ids)
      /\ since \in [Ids -> SUBSET Ids]
      /\ Distinct(seen)
      /\ Len(seen) <= Capacity
      /\ id \notin Held(seen)
    BY DEF LedgerInv, TypeOK, Bounded, IsFresh
<1>2. /\ seen' = EvictOldest(grown, Capacity)
      /\ counted' = counted \cup {id}
      /\ recounted' = recounted \cup (counted \cap {id})
      /\ since' = [other \in Ids |-> IF other = id THEN {} ELSE since[other] \cup {id}]
    BY <1>0 DEF Offer, Claim
<1>3. /\ grown \in Seq(Ids)
      /\ Len(grown) = Len(seen) + 1
      /\ \A i \in 1..Len(seen) : grown[i] = seen[i]
      /\ grown[Len(seen) + 1] = id
      /\ Distinct(grown)
      /\ Held(grown) = Held(seen) \cup {id}
  <2>1. grown \in Seq(Ids) /\ ExtendedBy(grown, seen, id)
      BY <1>0, <1>1, AppendFacts
  <2> QED BY <2>1 DEF ExtendedBy
<1>4. /\ seen' \in Seq(Ids)
      /\ Len(seen') = IF Len(grown) <= Capacity THEN Len(grown) ELSE Capacity
      /\ \A i \in 1..Len(seen') : seen'[i] = grown[i + (Len(grown) - Len(seen'))]
      /\ Distinct(seen')
      /\ Held(seen') \subseteq Held(grown)
      /\ Len(grown) <= Capacity => seen' = grown
  <2>1. seen' \in Seq(Ids) /\ NewestOf(seen', grown, Capacity)
      BY <1>2, <1>3, CapacityAssumption, EvictOldestFacts
  <2> QED BY <2>1 DEF NewestOf
<1>5. TypeOK'
    BY <1>1, <1>2, <1>4 DEF LedgerInv, TypeOK
<1>6. Bounded'
    BY <1>3, <1>4, CapacityAssumption DEF Bounded
<1>7. HeldIsCounted'
    BY <1>2, <1>3, <1>4 DEF LedgerInv, HeldIsCounted
<1>8. \A p \in 1..Len(grown) : since'[grown[p]] = After(grown, p)
  <2> TAKE p \in 1..Len(grown)
  <2>1. CASE p <= Len(seen)
    <3>1. grown[p] = seen[p] /\ seen[p] # id /\ seen[p] \in Ids
        BY <1>1, <1>3, <2>1 DEF Held
    <3>2. since'[grown[p]] = After(seen, p) \cup {id}
        BY <1>2, <2>1, <3>1 DEF LedgerInv, HeldAreInOfferOrder
    <3>3. After(seen, p) \cup {id} = After(grown, p)
      <4>1. \A x \in After(grown, p) : x \in After(seen, p) \cup {id}
          BY <1>3, <2>1 DEF After
      <4>2. \A q \in (p + 1)..Len(seen) : seen[q] \in After(grown, p)
          BY <1>3, <2>1 DEF After
      <4>3. id \in After(grown, p)
        <5>1. Len(grown) \in (p + 1)..Len(grown) /\ grown[Len(grown)] = id
            BY <1>3, <2>1
        <5> QED BY <5>1 DEF After
      <4> QED BY <4>1, <4>2, <4>3 DEF After
    <3> QED BY <3>2, <3>3
  <2>2. CASE p = Len(seen) + 1
    <3>1. grown[p] = id /\ After(grown, p) = {}
        BY <1>3, <2>2 DEF After
    <3> QED BY <1>2, <3>1
  <2> QED BY <1>3, <2>1, <2>2
<1>9. HeldAreInOfferOrder'
  <2> SUFFICES ASSUME NEW i \in 1..Len(seen')
               PROVE  since'[seen'[i]] = After(seen', i)
      BY DEF HeldAreInOfferOrder
  <2> DEFINE shift == Len(grown) - Len(seen')
  <2>0. Len(grown) \in Nat /\ Len(seen') \in Nat /\ Len(seen') <= Len(grown)
    <3>1. Len(grown) \in Nat /\ Len(seen') \in Nat
        BY <1>3, <1>4
    <3> QED BY <1>4, <3>1, CapacityAssumption
  <2>a. \A q \in 1..Len(seen') : seen'[q] = grown[q + shift]
      BY <1>4
  <2>1. /\ shift \in Nat
        /\ Len(seen') + shift = Len(grown)
        /\ \A q \in 1..Len(seen') : q + shift \in 1..Len(grown) /\ seen'[q] = grown[q + shift]
      BY <2>0, <2>a
  <2> HIDE DEF shift
  <2>2. since'[seen'[i]] = After(grown, i + shift)
      BY <1>8, <2>1
  <2>3. After(grown, i + shift) = After(seen', i)
    <3>1. \A q \in (i + 1)..Len(seen') : seen'[q] \in After(grown, i + shift)
      <4> TAKE q \in (i + 1)..Len(seen')
      <4>1. q + shift \in (i + shift + 1)..Len(grown) /\ seen'[q] = grown[q + shift]
          BY <1>4, <2>1
      <4> QED BY <4>1 DEF After
    <3>2. \A p \in (i + shift + 1)..Len(grown) : grown[p] \in After(seen', i)
      <4> TAKE p \in (i + shift + 1)..Len(grown)
      <4>1. p - shift \in (i + 1)..Len(seen')
          BY <1>3, <1>4, <2>1
      <4>2. (p - shift) + shift = p
          BY <1>3, <2>1
      <4>3. seen'[p - shift] = grown[p]
          BY <1>4, <2>1, <4>1, <4>2
      <4> QED BY <4>1, <4>3 DEF After
    <3> QED BY <3>1, <3>2 DEF After
  <2> QED BY <2>2, <2>3
<1>10. DroppedAfterTurnover'
  <2> SUFFICES ASSUME NEW x \in counted', x \notin Held(seen')
               PROVE  Capacity <= Cardinality(since'[x])
      BY DEF DroppedAfterTurnover
  <2>1. x \in Ids
      BY <1>2 DEF LedgerInv, TypeOK
  <2>2. CASE x \in Held(grown)
    <3>1. PICK p \in 1..Len(grown) : grown[p] = x
        BY <2>2 DEF Held
    <3>2. Len(grown) = Capacity + 1 /\ Len(seen') = Capacity
        BY <1>1, <1>3, <1>4, <2>2, CapacityAssumption
    <3>3. p = 1
      <4>1. SUFFICES ASSUME p # 1 PROVE FALSE
          OBVIOUS
      <4>2. p - 1 \in 1..Len(seen') /\ (p - 1) + (Len(grown) - Len(seen')) = p
          BY <3>2, <4>1, CapacityAssumption
      <4>3. seen'[p - 1] = x
          BY <1>4, <3>1, <4>2
      <4> QED BY <2>2, <4>2, <4>3 DEF Held
    <3>4. since'[x] = After(grown, 1)
        BY <1>8, <3>1, <3>3
    <3>5. Cardinality(After(grown, 1)) = Len(grown) - 1
        BY <1>3, AfterCardinality
    <3> QED BY <3>2, <3>4, <3>5, CapacityAssumption
  <2>3. CASE x \notin Held(grown)
    <3>1. x # id /\ x \in counted \ Held(seen)
        BY <1>2, <1>3, <2>3
    <3>2. since'[x] = since[x] \cup {id}
        BY <1>2, <2>1, <3>1
    <3>3. Capacity <= Cardinality(since[x])
        BY <3>1 DEF LedgerInv, DroppedAfterTurnover
    <3>4. IsFiniteSet(since[x])
        BY <2>1, SinceIsFinite DEF LedgerInv
    <3>5. /\ Cardinality(since[x]) \in Nat
          /\ Cardinality(since[x] \cup {id}) \in Nat
          /\ Cardinality(since[x]) <= Cardinality(since[x] \cup {id})
        BY <3>4, CardinalityGrows
    <3> QED BY <3>2, <3>3, <3>5, CapacityAssumption
  <2> QED BY <2>2, <2>3
<1> QED BY <1>5, <1>6, <1>7, <1>9, <1>10 DEF LedgerInv

\* The ledger's inductive invariant, for every sequence of offers.
THEOREM LedgerInvariant == Spec => []LedgerInv
<1>1. LedgerInv /\ [Next]_vars => LedgerInv'
  <2> SUFFICES ASSUME LedgerInv, [Next]_vars
               PROVE  LedgerInv'
      OBVIOUS
  <2>1. ASSUME NEW id \in Ids, Offer(id)
        PROVE  LedgerInv'
      BY <2>1, ReofferKeepsLedgerInv, FreshKeepsLedgerInv
  <2>2. CASE UNCHANGED vars
      BY <2>2 DEF vars, LedgerInv, TypeOK, Bounded, HeldIsCounted, HeldAreInOfferOrder,
                  DroppedAfterTurnover
  <2> QED BY <2>1, <2>2 DEF Next
<1> QED BY InitLedgerInv, <1>1, PTL DEF Spec

\* RunLedger holds at most `capacity` keys, each once: the bound on a process that runs for
\* months, whatever ids the cluster reports.
THEOREM LedgerIsBounded == Spec => []Bounded
<1>1. LedgerInv => Bounded
    BY DEF LedgerInv
<1> QED BY <1>1, LedgerInvariant, PTL

\* What the invariant says of memory: a counted id is held while fewer than Capacity other ids
\* were offered since.
LEMMA LedgerInvRemembers ==
    ASSUME LedgerInv
    PROVE  HoldsMostRecent
<1> SUFFICES ASSUME NEW id \in counted
             PROVE  id \in Held(seen) <=> Cardinality(since[id]) < Capacity
    BY DEF HoldsMostRecent
<1>1. /\ seen \in Seq(Ids)
      /\ Distinct(seen)
      /\ Len(seen) <= Capacity
      /\ id \in Ids
    BY DEF LedgerInv, TypeOK, Bounded
<1>2. Cardinality(since[id]) \in Nat
    BY <1>1, SinceIsFinite DEF LedgerInv
<1>3. CASE id \in Held(seen)
  <2>1. PICK i \in 1..Len(seen) : seen[i] = id
      BY <1>3 DEF Held
  <2>2. since[id] = After(seen, i)
      BY <2>1 DEF LedgerInv, HeldAreInOfferOrder
  <2>3. Cardinality(After(seen, i)) = Len(seen) - i
      BY <1>1, <2>1, AfterCardinality
  <2> QED BY <1>1, <1>3, <2>1, <2>2, <2>3, CapacityAssumption
<1>4. CASE id \notin Held(seen)
  <2>1. Capacity <= Cardinality(since[id])
      BY <1>4 DEF LedgerInv, DroppedAfterTurnover
  <2> QED BY <1>2, <1>4, <2>1, CapacityAssumption
<1> QED BY <1>3, <1>4

\* claim() forgets an id exactly when Capacity other ids have been offered since it was last
\* offered; until then a re-read of it is recognised.
THEOREM LedgerHoldsMostRecent == Spec => []HoldsMostRecent
<1>1. LedgerInv => HoldsMostRecent
    BY LedgerInvRemembers
<1> QED BY <1>1, LedgerInvariant, PTL

\* The ids offered since an id was last offered are other ids, and were counted once.
SinceIsCounted == \A id \in Ids : since[id] \subseteq counted \ {id}

\* While the ids counted so far fit the ledger none of them has been dropped from it.
LEMMA FittingIdsStayHeld ==
    ASSUME LedgerInv, SinceIsCounted, Cardinality(counted) <= Capacity,
           NEW id \in counted
    PROVE  id \in Held(seen)
<1>1. SUFFICES ASSUME id \notin Held(seen) PROVE FALSE
    OBVIOUS
<1>2. id \in Ids /\ counted \subseteq Ids /\ since[id] \in SUBSET (counted \ {id})
    BY DEF LedgerInv, TypeOK, SinceIsCounted
<1>3. IsFiniteSet(counted)
    BY <1>2, IdsAssumption, FS_Subset
<1>4. /\ IsFiniteSet(counted \ {id})
      /\ Cardinality(counted \ {id}) = Cardinality(counted) - 1
    BY <1>3, FS_RemoveElement
<1>5. Cardinality(since[id]) <= Cardinality(counted \ {id})
    BY <1>2, <1>4, FS_Subset
<1>6. Capacity <= Cardinality(since[id])
    BY <1>1 DEF LedgerInv, DroppedAfterTurnover
<1>7. Cardinality(counted) \in Nat /\ Cardinality(since[id]) \in Nat
    BY <1>2, <1>3, FS_CardinalityType, SinceIsFinite DEF LedgerInv
<1> QED BY <1>4, <1>5, <1>6, <1>7, CapacityAssumption

\* One offer keeps "one count per id while they fit".
LEMMA OfferCountsOnce ==
    ASSUME LedgerInv, LedgerInv', SinceIsCounted, OnceWhileTheyFit,
           NEW id \in Ids, Offer(id)
    PROVE  SinceIsCounted' /\ OnceWhileTheyFit'
<1>1. counted \subseteq counted' /\ id \in counted'
    BY DEF Offer, IsFresh, LedgerInv, HeldIsCounted
<1>2. SinceIsCounted'
  <2> SUFFICES ASSUME NEW other \in Ids
               PROVE  since'[other] \subseteq counted' \ {other}
      BY DEF SinceIsCounted
  <2>1. since'[other] = IF other = id THEN {} ELSE since[other] \cup {id}
      BY DEF Offer
  <2>2. since[other] \subseteq counted \ {other}
      BY DEF SinceIsCounted
  <2> QED BY <1>1, <2>1, <2>2
<1>3. ASSUME Cardinality(counted') <= Capacity
      PROVE  recounted' = {}
  <2>1. IsFiniteSet(counted')
      BY IdsAssumption, FS_Subset DEF LedgerInv, TypeOK
  <2>2. /\ Cardinality(counted) <= Cardinality(counted')
        /\ Cardinality(counted) \in Nat /\ Cardinality(counted') \in Nat
      BY <1>1, <2>1, FS_Subset, FS_CardinalityType
  <2>3. Cardinality(counted) <= Capacity
      BY <1>3, <2>2, CapacityAssumption
  <2>4. recounted = {}
      BY <2>3 DEF OnceWhileTheyFit
  <2>5. CASE IsFresh(seen, id)
    <3>1. id \notin counted
        BY <2>3, <2>5, FittingIdsStayHeld DEF IsFresh
    <3> QED BY <2>4, <2>5, <3>1 DEF Offer
  <2>6. CASE ~IsFresh(seen, id)
      BY <2>4, <2>6 DEF Offer
  <2> QED BY <2>5, <2>6
<1> QED BY <1>2, <1>3 DEF OnceWhileTheyFit

\* "One count per run" holds for a cluster as long as the runs it has reported fit the ledger.
THEOREM LedgerCountsOnce == Spec => []OnceWhileTheyFit
<1> DEFINE Inv == SinceIsCounted /\ OnceWhileTheyFit
<1>1. Init => Inv
    BY DEF Init, SinceIsCounted, OnceWhileTheyFit
<1>2. LedgerInv /\ LedgerInv' /\ Inv /\ [Next]_vars => Inv'
  <2> SUFFICES ASSUME LedgerInv, LedgerInv', Inv, [Next]_vars
               PROVE  Inv'
      OBVIOUS
  <2>1. ASSUME NEW id \in Ids, Offer(id)
        PROVE  Inv'
      BY <2>1, OfferCountsOnce
  <2>2. CASE UNCHANGED vars
      BY <2>2 DEF vars, SinceIsCounted, OnceWhileTheyFit
  <2> QED BY <2>1, <2>2 DEF Next
<1>3. Inv => OnceWhileTheyFit
    OBVIOUS
<1> HIDE DEF Inv
<1> QED BY <1>1, <1>2, <1>3, LedgerInvariant, PTL DEF Spec

------------------------------------------------------------------------------
(* The feed. *)

\* An answer is a list of distinct occurrences, no longer than maxAlerts.
LEMMA AnswerFacts ==
    ASSUME NEW open \in SUBSET Ids, NEW source,
           NEW page \in Returned(Eligible(source, open)),
           NEW list \in Orderings(Kept(page))
    PROVE  /\ list \in Seq(Ids)
           /\ Distinct(list)
           /\ Len(list) \in Nat /\ Len(list) <= MaxAlerts
           /\ Kept(page) \subseteq open
<1>1. page \in SUBSET open /\ Kept(page) \in SUBSET page
    BY DEF Returned, Eligible, Kept
<1>2. IsFiniteSet(page) /\ IsFiniteSet(Kept(page))
  <2>1. page \in SUBSET Ids /\ Kept(page) \in SUBSET Ids
      BY <1>1
  <2> QED BY <2>1, IdsAssumption, FS_Subset
<1>3. /\ Cardinality(Kept(page)) \in Nat /\ Cardinality(page) \in Nat
      /\ Cardinality(Kept(page)) <= Cardinality(page)
    BY <1>1, <1>2, FS_Subset, FS_CardinalityType
<1>4. Cardinality(page) <= MaxAlerts
    BY <1>3, MaxAlertsAssumption DEF Returned
<1>5. list \in [1..Cardinality(Kept(page)) -> Ids] /\ Distinct(list)
    BY <1>1 DEF Orderings
<1>6. list \in Seq(Ids) /\ Len(list) = Cardinality(Kept(page))
    BY <1>3, <1>5
<1> QED BY <1>1, <1>3, <1>4, <1>5, <1>6, MaxAlertsAssumption

\* It holds when the client is built.
LEMMA InitFeedInv == AlertInit => LedgerInv /\ FeedInv
<1> SUFFICES ASSUME AlertInit PROVE LedgerInv /\ FeedInv
    OBVIOUS
<1>1. LedgerInv
    BY InitLedgerInv DEF AlertInit
<1>2. /\ toAsk = <<>> /\ answer = <<>> /\ position = 0 /\ fresh = {} /\ phase = "idle"
      /\ counted = {} /\ alertSource = "" /\ handed = {} /\ repeated = {} /\ listed = {}
    BY DEF AlertInit, Init
<1>3. Len(answer) = 0 /\ answer \in Seq(Ids) /\ toAsk \in Seq(Sources) /\ position = 0
  <2>1. answer = <<>> /\ toAsk = <<>> /\ position = 0
      BY <1>2
  <2> QED BY <2>1
<1>4. AnswerOK
  <2>1. 1..Len(answer) = {}
      BY <1>3
  <2>2. Distinct(answer)
      BY <2>1 DEF Distinct
  <2> QED BY <1>3, <2>2, MaxAlertsAssumption DEF AnswerOK
<1>5. SourcesOK
    BY <1>2, <1>3 DEF SourcesOK
<1>6. AlertTypeOK
    BY <1>1, <1>2, <1>4, <1>5 DEF AlertTypeOK, LedgerInv
<1>7. AnswerBehindIt /\ ClaimedSoFar /\ RepeatedIsRecent
  <2>1. phase = "idle" /\ repeated = {}
      BY <1>2
  <2>2. 1..Len(answer) = {}
      BY <1>3
  <2> QED BY <2>1, <2>2 DEF AnswerBehindIt, ClaimedSoFar, RepeatedIsRecent
<1> QED BY <1>1, <1>2, <1>6, <1>7 DEF FeedInv

\* The occurrence that ClaimNext offers.
LEMMA NextOffered ==
    ASSUME AlertTypeOK, ClaimNext
    PROVE  /\ position \in Nat /\ position + 1 \in 1..Len(answer)
           /\ answer[position + 1] \in Ids
           /\ Offer(answer[position + 1])
<1>1. answer \in Seq(Ids) /\ position \in 0..Len(answer) /\ position < Len(answer)
    BY DEF AlertTypeOK, AnswerOK, ClaimNext
<1>2. position \in Nat /\ position + 1 \in 1..Len(answer)
    BY <1>1
<1>3. Offer(answer[position + 1])
    BY DEF ClaimNext
<1> QED BY <1>1, <1>2, <1>3

\* To the ledger a poll is a number of offers, and a restart is a new ledger.
LEMMA StepKeepsLedgerInv ==
    ASSUME LedgerInv, AlertTypeOK, [AlertNext]_alertVars
    PROVE  LedgerInv'
<1>1. CASE UNCHANGED memory
    BY <1>1 DEF memory, LedgerInv, TypeOK, Bounded, HeldIsCounted, HeldAreInOfferOrder,
                DroppedAfterTurnover
<1>2. CASE ClaimNext
    BY <1>2, NextOffered, ReofferKeepsLedgerInv, FreshKeepsLedgerInv
<1>3. CASE Restart
  <2>1. Init'
      BY <1>3 DEF Restart, Init
  <2> QED BY <2>1, InitLedgerInv, PTL
<1> QED BY <1>1, <1>2, <1>3
        DEF AlertNext, Poll, alertVars, BeginPoll, SourceAnswers, SourceRefuses, ClaimedAll, SendEvents

\* What an offer does to the bookkeeping of the ledger.
LEMMA OfferFacts ==
    ASSUME LedgerInv, NEW id \in Ids, Offer(id)
    PROVE  /\ counted' = counted \cup {id}
           /\ since'[id] = {}
           /\ \A other \in Ids \ {id} :
                 /\ since'[other] = since[other] \cup {id}
                 /\ Cardinality(since'[other]) \in Nat
                 /\ Cardinality(since'[other]) <= Cardinality(since[other]) + 1
<1>1. counted' = counted \cup {id}
    BY DEF Offer, IsFresh, LedgerInv, HeldIsCounted
<1>2. since'[id] = {}
    BY DEF Offer
<1>3. ASSUME NEW other \in Ids \ {id}
      PROVE  /\ since'[other] = since[other] \cup {id}
             /\ Cardinality(since'[other]) \in Nat
             /\ Cardinality(since'[other]) <= Cardinality(since[other]) + 1
  <2>1. since'[other] = since[other] \cup {id}
      BY <1>3 DEF Offer
  <2>2. IsFiniteSet(since[other]) /\ Cardinality(since[other]) \in Nat
      BY <1>3, SinceIsFinite DEF LedgerInv
  <2>3. Cardinality(since[other] \cup {id}) =
            IF id \in since[other] THEN Cardinality(since[other]) ELSE Cardinality(since[other]) + 1
      BY <2>2, FS_AddElement
  <2> QED BY <2>1, <2>2, <2>3
<1> QED BY <1>1, <1>2, <1>3

\* A claim: the part that is claimed grows by one, and what is still to come sees one more.
LEMMA ClaimKeepsFeedInv ==
    ASSUME LedgerInv, LedgerInv', FeedInv, ClaimNext
    PROVE  FeedInv'
<1>0. AlertTypeOK /\ AnswerOK /\ SourcesOK
    BY DEF FeedInv, AlertTypeOK
<1>1. /\ answer \in Seq(Ids) /\ Distinct(answer) /\ Len(answer) \in Nat /\ Len(answer) <= MaxAlerts
      /\ position \in Nat /\ position + 1 \in 1..Len(answer)
  <2>1. position \in Nat /\ position + 1 \in 1..Len(answer)
      BY <1>0, NextOffered
  <2> QED BY <1>0, <2>1 DEF AnswerOK
<1>2. PICK id \in Ids : id = answer[position + 1] /\ Offer(id)
    BY <1>0, NextOffered
<1>3. /\ phase = "claim" /\ phase' = "claim" /\ position' = position + 1
      /\ answer' = answer /\ repeated' = repeated /\ listed' = listed /\ handed' = handed
      /\ alertSource' = alertSource /\ toAsk' = toAsk
      /\ fresh' = IF IsFresh(seen, id) THEN fresh \cup {id} ELSE fresh
    BY <1>2 DEF ClaimNext, history
<1>4. /\ counted' = counted \cup {id}
      /\ since'[id] = {}
      /\ \A other \in Ids \ {id} :
            /\ since'[other] = since[other] \cup {id}
            /\ Cardinality(since'[other]) \in Nat
            /\ Cardinality(since'[other]) <= Cardinality(since[other]) + 1
    BY <1>2, OfferFacts
<1>5. \A i \in 1..Len(answer) : i # position + 1 => answer[i] \in Ids \ {id}
    BY <1>1, <1>2 DEF Distinct
<1>6. counted \subseteq handed \cup fresh /\ fresh \subseteq counted /\ handed \subseteq counted
    BY DEF FeedInv, AlertTypeOK
<1>7. counted' \subseteq handed' \cup fresh' /\ fresh' \subseteq counted' /\ handed' \subseteq counted'
  <2>1. CASE IsFresh(seen, id)
      BY <1>3, <1>4, <1>6, <2>1
  <2>2. CASE ~IsFresh(seen, id)
    <3>1. id \in counted
        BY <2>2 DEF IsFresh, LedgerInv, HeldIsCounted
    <3> QED BY <1>3, <1>4, <1>6, <2>2, <3>1
  <2> QED BY <2>1, <2>2
<1>8. AlertTypeOK'
  <2>1. AnswerOK'
      BY <1>1, <1>3 DEF AnswerOK
  <2>2. SourcesOK'
      BY <1>0, <1>3 DEF SourcesOK
  <2> QED BY <1>0, <1>3, <1>7, <2>1, <2>2 DEF AlertTypeOK, LedgerInv
<1>9. ClaimedSoFar'
  <2> SUFFICES ASSUME NEW i \in 1..(position + 1)
               PROVE  /\ answer[i] \in counted'
                      /\ since'[answer[i]] \subseteq {answer[j] : j \in (i + 1)..(position + 1)}
      BY <1>3 DEF ClaimedSoFar
  <2>1. CASE i = position + 1
      BY <1>2, <1>4, <2>1
  <2>2. CASE i # position + 1
    <3>1. i \in 1..position
        BY <1>1, <2>2
    <3>2. answer[i] \in counted /\ since[answer[i]] \subseteq {answer[j] : j \in (i + 1)..position}
        BY <1>3, <3>1 DEF FeedInv, ClaimedSoFar
    <3>3. since'[answer[i]] = since[answer[i]] \cup {id}
        BY <1>1, <1>4, <1>5, <2>2, <3>1
    <3>4. /\ {answer[j] : j \in (i + 1)..position} \subseteq {answer[j] : j \in (i + 1)..(position + 1)}
          /\ id \in {answer[j] : j \in (i + 1)..(position + 1)}
        BY <1>1, <1>2, <3>1
    <3> QED BY <1>4, <3>2, <3>3, <3>4
  <2> QED BY <2>1, <2>2
<1>10. RepeatedIsRecent'
  <2> SUFFICES ASSUME NEW i \in (position + 2)..Len(answer), answer[i] \in repeated
               PROVE  /\ answer[i] \in counted'
                      /\ Cardinality(since'[answer[i]]) <= (MaxAlerts - 1) + (position + 1)
    <3>1. (position + 1) + 1 = position + 2
        BY <1>1
    <3> QED BY <1>3, <3>1 DEF RepeatedIsRecent
  <2>1. i \in (position + 1)..Len(answer) /\ i \in 1..Len(answer) /\ i # position + 1
      BY <1>1
  <2>2. answer[i] \in counted /\ Cardinality(since[answer[i]]) <= (MaxAlerts - 1) + position
      BY <1>3, <2>1 DEF FeedInv, RepeatedIsRecent
  <2>3. answer[i] \in Ids \ {id}
      BY <1>5, <2>1
  <2>4. Cardinality(since[answer[i]]) \in Nat
      BY <2>3, SinceIsFinite DEF LedgerInv
  <2>5. /\ Cardinality(since'[answer[i]]) \in Nat
        /\ Cardinality(since'[answer[i]]) <= Cardinality(since[answer[i]]) + 1
      BY <1>4, <2>3
  <2> QED BY <1>1, <1>4, <2>2, <2>4, <2>5, MaxAlertsAssumption
<1>11. AnswerBehindIt'
    BY <1>3 DEF AnswerBehindIt
<1> QED BY <1>3, <1>7, <1>8, <1>9, <1>10, <1>11 DEF FeedInv

\* An answer: what it repeats of the one before has at most the rest of that one behind it.
LEMMA AnswerKeepsFeedInv ==
    ASSUME LedgerInv, LedgerInv', FeedInv, SourceAnswers
    PROVE  FeedInv'
<1>0. PICK open \in SUBSET Ids :
          /\ listed' = open
          /\ \E page \in Returned(Eligible(Head(toAsk), open)) :
                /\ answer' \in Orderings(Kept(page))
                /\ repeated' = Held(answer) \cap Kept(page)
    BY DEF SourceAnswers
<1>1. PICK page \in Returned(Eligible(Head(toAsk), open)) :
          /\ answer' \in Orderings(Kept(page))
          /\ repeated' = Held(answer) \cap Kept(page)
    BY <1>0
<1>2. /\ phase = "ask" /\ phase' = "claim" /\ position = 0 /\ position' = 0
      /\ fresh = {} /\ fresh' = fresh /\ handed' = handed
      /\ counted' = counted /\ since' = since /\ toAsk' = <<>>
      /\ toAsk # <<>> /\ alertSource' = Head(toAsk)
    BY DEF SourceAnswers, memory, FeedInv
<1>3. /\ answer' \in Seq(Ids) /\ Distinct(answer')
      /\ Len(answer') \in Nat /\ Len(answer') <= MaxAlerts
      /\ Kept(page) \subseteq open
    BY <1>1, AnswerFacts
<1>4. AlertTypeOK'
  <2>1. AlertTypeOK /\ SourcesOK
      BY DEF FeedInv, AlertTypeOK
  <2>2. toAsk \in Seq(Sources)
      BY <2>1 DEF SourcesOK
  <2>3. Head(toAsk) \in Sources /\ <<>> \in Seq(Sources)
      BY <1>2, <2>2
  <2>4. SourcesOK'
      BY <1>2, <2>3 DEF SourcesOK
  <2>5. AnswerOK'
      BY <1>2, <1>3 DEF AnswerOK
  <2>6. repeated' \subseteq listed' /\ listed' \subseteq Ids
      BY <1>0, <1>1, <1>3
  <2> QED BY <1>2, <2>1, <2>4, <2>5, <2>6 DEF AlertTypeOK, LedgerInv
<1>5. RepeatedIsRecent'
  <2> SUFFICES ASSUME NEW i \in 1..Len(answer'), answer'[i] \in repeated'
               PROVE  /\ answer'[i] \in counted
                      /\ Cardinality(since[answer'[i]]) <= (MaxAlerts - 1) + 0
      BY <1>2 DEF RepeatedIsRecent
  <2>1. /\ answer \in Seq(Ids) /\ Distinct(answer) /\ Len(answer) \in Nat /\ Len(answer) <= MaxAlerts
    BY DEF FeedInv, AlertTypeOK, AnswerOK
  <2>2. PICK k \in 1..Len(answer) : answer[k] = answer'[i]
      BY <1>1 DEF Held
  <2>3. answer[k] \in counted /\ since[answer[k]] \in SUBSET After(answer, k)
      BY <1>2 DEF FeedInv, AnswerBehindIt
  <2>4. IsFiniteSet(After(answer, k)) /\ Cardinality(After(answer, k)) = Len(answer) - k
      BY <2>1, AfterCardinality
  <2>5. /\ Cardinality(since[answer[k]]) <= Len(answer) - k
        /\ Cardinality(since[answer[k]]) \in Nat
      BY <2>3, <2>4, FS_Subset, FS_CardinalityType
  <2> QED BY <2>1, <2>2, <2>3, <2>5, MaxAlertsAssumption
<1>6. ClaimedSoFar' /\ AnswerBehindIt'
    BY <1>2 DEF ClaimedSoFar, AnswerBehindIt
<1> QED BY <1>2, <1>4, <1>5, <1>6 DEF FeedInv

\* The steps that leave the ledger and the answer alone.
LEMMA QuietStepKeepsFeedInv ==
    ASSUME LedgerInv, LedgerInv', FeedInv,
           BeginPoll \/ SourceRefuses \/ ClaimedAll \/ SendEvents \/ UNCHANGED alertVars
    PROVE  FeedInv'
<1>0. TypeOK /\ SourcesOK /\ AnswerOK
    BY DEF FeedInv, AlertTypeOK
<1>1. /\ AlertTypeOK /\ AnswerBehindIt /\ ClaimedSoFar /\ RepeatedIsRecent
      /\ phase = "ask" => position = 0
      /\ phase \in {"idle", "ask"} => fresh = {}
      /\ counted \subseteq handed \cup fresh
    BY DEF FeedInv
<1>2. CASE BeginPoll
  <2>1. /\ phase = "idle" /\ phase' = "ask" /\ position' = 0 /\ toAsk' = SourcesFromWinner
        /\ UNCHANGED <<seen, counted, recounted, since, alertSource, answer, fresh, handed>>
        /\ repeated' = {} /\ listed' = {}
      BY <1>2 DEF BeginPoll, memory
  <2>2. SourcesFromWinner \in Seq(Sources)
    <3>1. "v1" \in Sources /\ "v2" \in Sources
        BY DEF Sources
    <3>2. <<"v1", "v2">> \in Seq(Sources) /\ <<"v2", "v1">> \in Seq(Sources)
        BY <3>1
    <3> QED BY <3>2 DEF SourcesFromWinner, AlertSources
  <2>3. SourcesOK' /\ AnswerOK'
    <3>1. SourcesOK'
        BY <1>0, <2>1, <2>2 DEF SourcesOK
    <3>2. 0 \in 0..Len(answer)
        BY <1>0 DEF AnswerOK
    <3> QED BY <1>0, <2>1, <3>1, <3>2 DEF AnswerOK
  <2>4. AlertTypeOK'
      BY <1>1, <2>1, <2>3 DEF AlertTypeOK, LedgerInv
  <2> QED BY <1>1, <2>1, <2>4 DEF FeedInv, AnswerBehindIt, ClaimedSoFar, RepeatedIsRecent
<1>3. CASE SourceRefuses
  <2>1. /\ phase = "ask" /\ phase' \in {"idle", "ask"} /\ toAsk # <<>> /\ toAsk' = Tail(toAsk)
        /\ UNCHANGED <<seen, counted, recounted, since, alertSource, answer, position, fresh,
                       handed, repeated, listed>>
      BY <1>3 DEF SourceRefuses, memory, history
  <2>2. Tail(toAsk) \in Seq(Sources)
    <3>1. toAsk \in Seq(Sources) /\ toAsk # <<>>
        BY <1>0, <2>1 DEF SourcesOK
    <3> QED BY <3>1
  <2>3. SourcesOK' /\ AnswerOK'
      BY <1>0, <2>1, <2>2 DEF SourcesOK, AnswerOK
  <2>4. AlertTypeOK'
      BY <1>1, <2>1, <2>3 DEF AlertTypeOK, LedgerInv
  <2> QED BY <1>1, <2>1, <2>4 DEF FeedInv, AnswerBehindIt, ClaimedSoFar, RepeatedIsRecent
<1>4. CASE ClaimedAll
  <2>1. /\ phase = "claim" /\ phase' \in {"idle", "send"} /\ position = Len(answer)
        /\ phase' = "idle" => fresh = {}
        /\ UNCHANGED <<seen, counted, recounted, since, alertSource, toAsk, answer, position,
                       fresh, handed, repeated, listed>>
      BY <1>4 DEF ClaimedAll, memory, history
  <2>2. SourcesOK' /\ AnswerOK'
      BY <1>0, <2>1 DEF SourcesOK, AnswerOK
  <2>3. AlertTypeOK'
      BY <1>1, <2>1, <2>2 DEF AlertTypeOK, LedgerInv
  <2>4. AnswerBehindIt'
    <3>1. \A i \in 1..Len(answer) :
              answer[i] \in counted
              /\ since[answer[i]] \subseteq {answer[j] : j \in (i + 1)..Len(answer)}
        BY <1>1, <2>1 DEF ClaimedSoFar
    <3> QED BY <2>1, <3>1 DEF AnswerBehindIt, After
  <2> QED BY <1>1, <2>1, <2>3, <2>4 DEF FeedInv, ClaimedSoFar, RepeatedIsRecent
<1>5. CASE SendEvents
  <2>1. /\ phase = "send" /\ phase' = "idle" /\ handed' = handed \cup fresh /\ fresh' = {}
        /\ UNCHANGED <<seen, counted, recounted, since, alertSource, toAsk, answer, position,
                       repeated, listed>>
      BY <1>5 DEF SendEvents, memory
  <2>2. SourcesOK' /\ AnswerOK'
      BY <1>0, <2>1 DEF SourcesOK, AnswerOK
  <2>3. AlertTypeOK'
      BY <1>1, <2>1, <2>2 DEF AlertTypeOK, LedgerInv
  <2>4. AnswerBehindIt'
      BY <1>1, <2>1 DEF AnswerBehindIt, ClaimedSoFar, After
  <2>5. ClaimedSoFar' /\ RepeatedIsRecent'
      BY <2>1 DEF ClaimedSoFar, RepeatedIsRecent
  <2> QED BY <1>1, <2>1, <2>3, <2>4, <2>5 DEF FeedInv
<1>6. CASE UNCHANGED alertVars
  <2>1. UNCHANGED <<seen, counted, recounted, since, alertSource, toAsk, answer, position, fresh,
                    phase, handed, repeated, listed>>
      BY <1>6 DEF alertVars, memory, history
  <2>2. SourcesOK' /\ AnswerOK'
      BY <1>0, <2>1 DEF SourcesOK, AnswerOK
  <2>3. AlertTypeOK'
      BY <1>1, <2>1, <2>2 DEF AlertTypeOK, LedgerInv
  <2>4. AnswerBehindIt'
    <3> SUFFICES ASSUME phase' # "claim", NEW i \in 1..Len(answer')
                 PROVE  answer'[i] \in counted' /\ since'[answer'[i]] \subseteq After(answer, i)
        BY <2>1 DEF AnswerBehindIt, After
    <3>1. phase # "claim" /\ i \in 1..Len(answer)
        BY <2>1
    <3>2. answer[i] \in counted /\ since[answer[i]] \subseteq After(answer, i)
        BY <1>1, <3>1 DEF AnswerBehindIt
    <3> QED BY <2>1, <3>2
  <2>5. ClaimedSoFar'
      BY <1>1, <2>1 DEF ClaimedSoFar
  <2>6. RepeatedIsRecent'
      BY <1>1, <2>1 DEF RepeatedIsRecent
  <2> QED BY <1>1, <2>1, <2>3, <2>4, <2>5, <2>6 DEF FeedInv
<1> QED BY <1>2, <1>3, <1>4, <1>5, <1>6

\* The invariant of the ledger and of the feed that uses it.
THEOREM FeedInvariant == AlertSpec => [](LedgerInv /\ FeedInv)
<1>1. LedgerInv /\ FeedInv /\ [AlertNext]_alertVars => LedgerInv' /\ FeedInv'
  <2> SUFFICES ASSUME LedgerInv, FeedInv, [AlertNext]_alertVars
               PROVE  LedgerInv' /\ FeedInv'
      OBVIOUS
  <2>1. LedgerInv'
      BY StepKeepsLedgerInv DEF FeedInv
  <2>2. CASE ClaimNext
      BY <2>1, <2>2, ClaimKeepsFeedInv
  <2>3. CASE SourceAnswers
      BY <2>1, <2>3, AnswerKeepsFeedInv
  <2>4. CASE BeginPoll \/ SourceRefuses \/ ClaimedAll \/ SendEvents \/ UNCHANGED alertVars
      BY <2>1, <2>4, QuietStepKeepsFeedInv
  <2>5. CASE Restart
    <3>1. AlertInit'
        BY <2>5 DEF Restart, AlertInit, Init
    <3> QED BY <3>1, InitFeedInv, PTL
  <2> QED BY <2>1, <2>2, <2>3, <2>4, <2>5 DEF AlertNext, Poll
<1> QED BY InitFeedInv, <1>1, PTL DEF AlertSpec

\* new_alerts remembers exactly the most recent occurrences, also across polls and restarts.
THEOREM FeedHoldsMostRecent == AlertSpec => []HoldsMostRecent
<1>1. LedgerInv => HoldsMostRecent
    BY LedgerInvRemembers
<1> QED BY <1>1, FeedInvariant, PTL

\* Between polls every claimed occurrence has been handed over.
THEOREM FeedHandsOver == AlertSpec => []ClaimedIsHanded
<1>1. FeedInv => ClaimedIsHanded
    BY DEF FeedInv, ClaimedIsHanded
<1> QED BY <1>1, FeedInvariant, PTL

\* An alert that stays in the answers is sent once, whatever maxAlerts is configured, because
\* two answers fit the ledger.
THEOREM FeedSendsOnce == AlertSpec => []NotResentWhileListed
<1>1. LedgerInv /\ FeedInv => NotResentWhileListed
  <2> SUFFICES ASSUME LedgerInv, FeedInv, phase = "claim",
                      NEW i \in (position + 1)..Len(answer), answer[i] \in repeated
               PROVE  ~IsFresh(seen, answer[i])
      BY DEF NotResentWhileListed
  <2>0. answer \in Seq(Ids) /\ Len(answer) <= MaxAlerts /\ position \in 0..Len(answer)
      BY DEF FeedInv, AlertTypeOK, AnswerOK
  <2>1. i \in 1..Len(answer) /\ position + 1 <= Len(answer) /\ answer[i] \in Ids
      BY <2>0
  <2>2. answer[i] \in counted /\ Cardinality(since[answer[i]]) <= (MaxAlerts - 1) + position
      BY DEF FeedInv, RepeatedIsRecent
  <2>3. Cardinality(since[answer[i]]) \in Nat
      BY <2>1, SinceIsFinite DEF LedgerInv
  <2>4. Cardinality(since[answer[i]]) < Capacity
      BY <2>0, <2>1, <2>2, <2>3, MaxAlertsAssumption, AnswersFitAssumption, CapacityAssumption
  <2>5. answer[i] \in Held(seen)
      BY <2>2, <2>4, LedgerInvRemembers DEF HoldsMostRecent
  <2> QED BY <2>5 DEF IsFresh
<1> QED BY <1>1, FeedInvariant, PTL


\* The types, and that what is sent or was sent has been claimed.
THEOREM AlertTypeCorrect == AlertSpec => []AlertTypeOK
<1>1. FeedInv => AlertTypeOK
    BY DEF FeedInv
<1> QED BY <1>1, FeedInvariant, PTL

\* A floor above "info" does leave a severity out, so it is asked for by its severities.
LEMMA FloorIsAskedFor ==
    ASSUME AlertFloor(Floor) # "info"
    PROVE  AsksForSeverities
<1>1. /\ SeverityOrder \in Seq({"info", "warning", "critical"}) /\ Len(SeverityOrder) = 3
      /\ DOMAIN SeverityOrder = 1..3
      /\ SeverityOrder[1] = "info" /\ SeverityOrder[2] = "warning" /\ SeverityOrder[3] = "critical"
    BY DEF SeverityOrder
<1>2. MappedSeverities = {SeverityOrder[i] : i \in 1..3}
    BY <1>1 DEF MappedSeverities, Held
<1>3. AlertFloor(Floor) \in MappedSeverities
    BY <1>1, <1>2 DEF AlertFloor
<1> DEFINE rank == CHOOSE i \in DOMAIN SeverityOrder : SeverityOrder[i] = AlertFloor(Floor)
<1>4. rank \in 1..3 /\ SeverityOrder[rank] = AlertFloor(Floor)
    BY <1>1, <1>2, <1>3
<1>5. rank \in 2..3
    BY <1>1, <1>4
<1>6. AtOrAbove(Floor) = {SeverityOrder[i] : i \in rank..3}
    BY <1>1 DEF AtOrAbove
<1> HIDE DEF rank
<1>7. "info" \notin AtOrAbove(Floor)
  <2>1. ASSUME NEW i \in rank..3 PROVE SeverityOrder[i] # "info"
    <3>1. i = 2 \/ i = 3
        BY <1>5
    <3> QED BY <1>1, <3>1
  <2> QED BY <1>6, <2>1
<1>8. "info" \in MappedSeverities
    BY <1>1, <1>2
<1> QED BY <1>7, <1>8 DEF AsksForSeverities

\* An order of a finite set leaves none of it out.
LEMMA OrderingsLeaveNothingOut ==
    ASSUME NEW set, IsFiniteSet(set), NEW list \in Orderings(set)
    PROVE  set \subseteq Held(list)
<1>1. Cardinality(set) \in Nat
    BY FS_CardinalityType
<1>2. list \in [1..Cardinality(set) -> set] /\ Distinct(list)
    BY DEF Orderings
<1>3. Len(list) = Cardinality(set)
    BY <1>1, <1>2
<1>4. list \in Injection(1..Cardinality(set), set)
    BY <1>2, <1>3 DEF Injection, IsInjective, Distinct
<1>5. Cardinality(1..Cardinality(set)) = Cardinality(set)
    BY <1>1, FS_Interval
<1>6. list \in Surjection(1..Cardinality(set), set)
    BY <1>4, <1>5, FS_Injection
<1> QED BY <1>3, <1>6 DEF Surjection, Held

\* What the floor is for, of the answer itself: it holds every wanted occurrence.
WantedAnswered ==
    alertSource \in Filters /\ AlertFloor(Floor) # "info" /\ Cardinality(Wanted) <= MaxAlerts
        => Wanted \subseteq Held(answer)

\* The endpoint chooses among the wanted occurrences only, and returns them all.
LEMMA AnswerHoldsWanted ==
    ASSUME FeedInv, SourceAnswers
    PROVE  WantedAnswered'
<1>1. PICK open \in SUBSET Ids :
          /\ listed' = open
          /\ \E page \in Returned(Eligible(Head(toAsk), open)) : answer' \in Orderings(Kept(page))
    BY DEF SourceAnswers
<1>2. PICK page \in Returned(Eligible(Head(toAsk), open)) : answer' \in Orderings(Kept(page))
    BY <1>1
<1>3. alertSource' = Head(toAsk)
    BY DEF SourceAnswers
<1> DEFINE wanted == {o \in open : SeverityOf[o] \in AtOrAbove(Floor)}
<1> SUFFICES ASSUME Head(toAsk) \in Filters, AlertFloor(Floor) # "info",
                    Cardinality(wanted) <= MaxAlerts
             PROVE  wanted \subseteq Held(answer')
    BY <1>1, <1>3 DEF WantedAnswered, Wanted
<1>4. Eligible(Head(toAsk), open) = wanted
    BY FloorIsAskedFor DEF Eligible
<1>5. IsFiniteSet(wanted) /\ Cardinality(wanted) \in Nat
  <2>1. wanted \in SUBSET Ids
      OBVIOUS
  <2> QED BY <2>1, IdsAssumption, FS_Subset, FS_CardinalityType
<1>6. page \in SUBSET wanted /\ (Cardinality(page) = MaxAlerts \/ page = wanted)
    BY <1>4 DEF Returned
<1>7. page = wanted
  <2>1. /\ Cardinality(page) \in Nat /\ Cardinality(page) <= Cardinality(wanted)
        /\ Cardinality(page) = Cardinality(wanted) => page = wanted
      BY <1>5, <1>6, FS_Subset, FS_CardinalityType
  <2> QED BY <1>5, <1>6, <2>1, MaxAlertsAssumption
<1>8. Kept(page) = wanted
    BY <1>7 DEF Kept, MeetsFloor
<1> QED BY <1>2, <1>5, <1>8, OrderingsLeaveNothingOut

\* However many alerts below the floor are open, one at or above it is not crowded out of an
\* answer by them: for any floor, any maxAlerts and any set of occurrences.
THEOREM SevereIsNotCrowdedOut == AlertSpec => []SevereNotCrowdedOut
<1>1. AlertInit => WantedAnswered
    BY DEF AlertInit, WantedAnswered, Wanted
<1>2. FeedInv /\ WantedAnswered /\ [AlertNext]_alertVars => WantedAnswered'
  <2> SUFFICES ASSUME FeedInv, WantedAnswered, [AlertNext]_alertVars
               PROVE  WantedAnswered'
      OBVIOUS
  <2>1. CASE SourceAnswers
      BY <2>1, AnswerHoldsWanted
  <2>2. CASE listed' = {}
      BY <2>2 DEF WantedAnswered, Wanted
  <2>3. CASE UNCHANGED <<listed, alertSource, answer>>
      BY <2>3 DEF WantedAnswered, Wanted
  <2>4. BeginPoll \/ Restart => listed' = {}
      BY DEF BeginPoll, Restart
  <2>5. SourceRefuses \/ ClaimNext \/ ClaimedAll \/ SendEvents \/ UNCHANGED alertVars
            => UNCHANGED <<listed, alertSource, answer>>
      BY DEF SourceRefuses, ClaimNext, ClaimedAll, SendEvents, alertVars, history
  <2> QED BY <2>1, <2>2, <2>3, <2>4, <2>5 DEF AlertNext, Poll
<1>3. FeedInv /\ WantedAnswered => SevereNotCrowdedOut
  <2> SUFFICES ASSUME FeedInv, phase = "idle", NEW o \in Held(answer)
               PROVE  o \in handed
      BY DEF SevereNotCrowdedOut, WantedAnswered
  <2>1. PICK i \in 1..Len(answer) : o = answer[i]
      BY DEF Held
  <2>2. answer[i] \in counted
      BY DEF FeedInv, AnswerBehindIt
  <2> QED BY <2>1, <2>2 DEF FeedInv
<1> QED BY <1>1, <1>2, <1>3, FeedInvariant, PTL DEF AlertSpec

==============================================================================
