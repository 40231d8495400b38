--------------------------- MODULE LedgerOps_proofs ---------------------------
(***************************************************************************)
(* Facts about the operators of LedgerOps, for every set of ids and every  *)
(* capacity.  The proofs about RunLedger and ProtectionRuns cite them.     *)
(***************************************************************************)
EXTENDS LedgerOps, FiniteSetTheorems, TLAPS

\* Adding an element never lowers a cardinality.
LEMMA CardinalityGrows ==
    ASSUME NEW S, IsFiniteSet(S), NEW x
    PROVE  /\ IsFiniteSet(S \cup {x})
           /\ Cardinality(S) \in Nat
           /\ Cardinality(S \cup {x}) \in Nat
           /\ Cardinality(S) <= Cardinality(S \cup {x})
<1>1. IsFiniteSet(S \cup {x})
    BY FS_AddElement
<1>2. S \in SUBSET (S \cup {x})
    OBVIOUS
<1>3. Cardinality(S) <= Cardinality(S \cup {x})
    BY <1>1, <1>2, FS_Subset
<1>4. Cardinality(S) \in Nat /\ Cardinality(S \cup {x}) \in Nat
    BY <1>1, FS_CardinalityType
<1> QED BY <1>1, <1>3, <1>4

\* move_to_end keeps the ids and their number, and only shifts those behind the id forward.
LEMMA MoveToEndFacts ==
    ASSUME NEW S, NEW ledger \in Seq(S), Distinct(ledger),
           NEW k \in 1..Len(ledger),
           NEW moved, moved = MoveToEnd(ledger, ledger[k])
    PROVE  /\ moved \in Seq(S)
           /\ Len(moved) = Len(ledger)
           /\ \A i \in 1..Len(ledger) :
                 moved[i] = IF i < k THEN ledger[i]
                            ELSE IF i < Len(ledger) THEN ledger[i + 1] ELSE ledger[k]
           /\ Distinct(moved)
           /\ Held(moved) = Held(ledger)
<1> DEFINE n == Len(ledger)
           dropped == DropAt(ledger, k)
<1>1. n \in Nat /\ n > 0
    OBVIOUS
<1>2. PositionOf(ledger, ledger[k]) = k
    BY DEF PositionOf, Distinct
<1>3. dropped \in Seq(S) /\ Len(dropped) = n - 1
    BY <1>1 DEF DropAt
<1>4. moved = Append(dropped, ledger[k])
    BY <1>2 DEF MoveToEnd
<1>5. /\ moved \in Seq(S)
      /\ Len(moved) = n
    BY <1>1, <1>3, <1>4
<1>6. \A i \in 1..n : moved[i] = IF i < k THEN ledger[i]
                                 ELSE IF i < n THEN ledger[i + 1] ELSE ledger[k]
  <2> TAKE i \in 1..n
  <2>1. CASE i < n
    <3>1. moved[i] = dropped[i]
        BY <1>1, <1>3, <1>4, <2>1
    <3>2. dropped[i] = IF i < k THEN ledger[i] ELSE ledger[i + 1]
        BY <1>1, <2>1 DEF DropAt
    <3> QED BY <3>1, <3>2, <2>1
  <2>2. CASE i = n
    <3>1. moved[i] = ledger[k]
        BY <1>1, <1>3, <1>4, <2>2
    <3> QED BY <3>1, <2>2
  <2> QED BY <2>1, <2>2
<1>7. Distinct(moved)
  <2> DEFINE origin(i) == IF i < k THEN i ELSE IF i < n THEN i + 1 ELSE k
  <2>1. \A i \in 1..n : origin(i) \in 1..n /\ moved[i] = ledger[origin(i)]
      BY <1>1, <1>6
  <2>2. \A i, j \in 1..n : origin(i) = origin(j) => i = j
      BY <1>1
  <2>3. \A i, j \in 1..n : moved[i] = moved[j] => origin(i) = origin(j)
    <3> SUFFICES ASSUME NEW i \in 1..n, NEW j \in 1..n, moved[i] = moved[j]
                 PROVE  origin(i) = origin(j)
        OBVIOUS
    <3>1. \A p, q \in 1..n : ledger[p] = ledger[q] => p = q
        BY DEF Distinct
    <3>2. /\ origin(i) \in 1..n
          /\ origin(j) \in 1..n
          /\ ledger[origin(i)] = ledger[origin(j)]
        BY <2>1
    <3> HIDE DEF origin
    <3> QED BY <3>1, <3>2
  <2> QED BY <1>5, <2>2, <2>3 DEF Distinct
<1>8. Held(moved) = Held(ledger)
  <2>1. \A i \in 1..n : moved[i] \in Held(ledger)
      BY <1>1, <1>6 DEF Held
  <2>2. \A i \in 1..n : ledger[i] \in Held(moved)
    <3> TAKE i \in 1..n
    <3>1. CASE i < k
        BY <1>1, <1>5, <1>6, <3>1 DEF Held
    <3>2. CASE i = k
        BY <1>1, <1>5, <1>6, <3>2 DEF Held
    <3>3. CASE i > k
      <4>1. i - 1 \in 1..n /\ moved[i - 1] = ledger[i]
          BY <1>1, <1>6, <3>3
      <4> QED BY <1>5, <4>1 DEF Held
    <3> QED BY <3>1, <3>2, <3>3
  <2> QED BY <1>5, <2>1, <2>2 DEF Held
<1> QED BY <1>5, <1>6, <1>7, <1>8

ExtendedBy(grown, ledger, id) ==
    /\ Len(grown) = Len(ledger) + 1
    /\ \A i \in 1..Len(ledger) : grown[i] = ledger[i]
    /\ grown[Len(ledger) + 1] = id
    /\ Distinct(grown)
    /\ Held(grown) = Held(ledger) \cup {id}

\* An unknown id that does not overflow the ledger is appended.
LEMMA AppendFacts ==
    ASSUME NEW S, NEW ledger \in Seq(S), Distinct(ledger),
           NEW id \in S, id \notin Held(ledger),
           NEW grown, grown = Append(ledger, id)
    PROVE  grown \in Seq(S) /\ ExtendedBy(grown, ledger, id)
<1>1. /\ grown \in Seq(S)
      /\ Len(grown) = Len(ledger) + 1
      /\ \A i \in 1..Len(ledger) : grown[i] = ledger[i]
      /\ grown[Len(ledger) + 1] = id
    OBVIOUS
<1>2. \A i \in 1..Len(grown) : i \in 1..Len(ledger) \/ i = Len(ledger) + 1
    BY <1>1
<1>3. Distinct(grown)
    BY <1>1, <1>2 DEF Distinct, Held
<1>4. Held(grown) = Held(ledger) \cup {id}
  <2>1. \A x \in Held(grown) : x \in Held(ledger) \cup {id}
      BY <1>1, <1>2 DEF Held
  <2>2. \A x \in Held(ledger) \cup {id} : x \in Held(grown)
      BY <1>1 DEF Held
  <2> QED BY <2>1, <2>2
<1> QED BY <1>1, <1>3, <1>4 DEF ExtendedBy

NewestOf(kept, ledger, capacity) ==
    /\ Len(kept) = IF Len(ledger) <= capacity THEN Len(ledger) ELSE capacity
    /\ \A i \in 1..Len(kept) : kept[i] = ledger[i + (Len(ledger) - Len(kept))]
    /\ Distinct(kept)
    /\ Held(kept) \subseteq Held(ledger)
    /\ Len(ledger) <= capacity => kept = ledger

\* The popitem loop keeps the newest ids in their order; it drops none while they fit.
LEMMA EvictOldestFacts ==
    ASSUME NEW S, NEW ledger \in Seq(S), Distinct(ledger),
           NEW capacity \in Nat \ {0},
           NEW kept, kept = EvictOldest(ledger, capacity)
    PROVE  kept \in Seq(S) /\ NewestOf(kept, ledger, capacity)
<1>1. CASE Len(ledger) <= capacity
  <2>1. kept = ledger
      BY <1>1 DEF EvictOldest
  <2> QED BY <1>1, <2>1 DEF NewestOf
<1>2. CASE ~(Len(ledger) <= capacity)
  <2> DEFINE shift == Len(ledger) - capacity
  <2>1. kept = [i \in 1..capacity |-> ledger[i + shift]]
      BY <1>2 DEF EvictOldest
  <2>2. \A i \in 1..capacity : i + shift \in 1..Len(ledger)
      BY <1>2
  <2>3. \A i \in 1..capacity : ledger[i + shift] \in S
      BY <2>2
  <2>4. kept \in Seq(S) /\ Len(kept) = capacity
    <3> HIDE DEF shift
    <3> QED BY <2>1, <2>3
  <2>5. \A i \in 1..Len(kept) : kept[i] = ledger[i + shift]
      BY <2>1, <2>4
  <2>6. Distinct(kept)
    <3> SUFFICES ASSUME NEW i \in 1..Len(kept), NEW j \in 1..Len(kept), kept[i] = kept[j]
                 PROVE  i = j
        BY DEF Distinct
    <3>1. \A p, q \in 1..Len(ledger) : ledger[p] = ledger[q] => p = q
        BY DEF Distinct
    <3>2. /\ i + shift \in 1..Len(ledger)
          /\ j + shift \in 1..Len(ledger)
          /\ ledger[i + shift] = ledger[j + shift]
      <4> HIDE DEF shift
      <4> QED BY <2>2, <2>4, <2>5
    <3>3. i + shift = j + shift
      <4> HIDE DEF shift
      <4> QED BY <3>1, <3>2
    <3> QED BY <3>3, <2>4
  <2>7. Held(kept) \subseteq Held(ledger)
      BY <2>2, <2>4, <2>5 DEF Held
  <2> QED BY <1>2, <2>4, <2>5, <2>6, <2>7 DEF NewestOf
<1> QED BY <1>1, <1>2

\* Counting the newest part of a ledger.
LEMMA AfterCardinality ==
    ASSUME NEW S, NEW ledger \in Seq(S), Distinct(ledger), NEW i \in 0..Len(ledger)
    PROVE  /\ IsFiniteSet(After(ledger, i))
           /\ Cardinality(After(ledger, i)) = Len(ledger) - i
<1> DEFINE places == (i + 1)..Len(ledger)
           f == [p \in places |-> ledger[p]]
<1>1. IsFiniteSet(places) /\ Cardinality(places) = Len(ledger) - i
  <2>1. i + 1 \in Int /\ Len(ledger) \in Int
      OBVIOUS
  <2>2. /\ IsFiniteSet(places)
        /\ Cardinality(places) = IF i + 1 > Len(ledger) THEN 0 ELSE Len(ledger) - (i + 1) + 1
      BY <2>1, FS_Interval
  <2> QED BY <2>2
<1>2. f \in [places -> After(ledger, i)]
    BY DEF After
<1>3. \A x \in After(ledger, i) : \E p \in places : f[p] = x
    BY DEF After
<1>4. \A p, q \in places : f[p] = f[q] => p = q
    BY DEF Distinct
<1>5. f \in Surjection(places, After(ledger, i))
    BY <1>2, <1>3 DEF Surjection
<1>6. f \in Injection(places, After(ledger, i))
    BY <1>2, <1>4 DEF Injection, IsInjective
<1> HIDE DEF places, f
<1> QED BY <1>1, <1>5, <1>6, FS_Surjection

ClaimedFrom(claimed, ledger, id, capacity) ==
    /\ Len(claimed) <= capacity
    /\ Distinct(claimed)
    /\ id \in Held(claimed)
    /\ Held(claimed) \subseteq Held(ledger) \cup {id}

\* claim() leaves a bounded ledger that holds the id it was offered and nothing new besides.
LEMMA ClaimFacts ==
    ASSUME NEW S, NEW ledger \in Seq(S), Distinct(ledger),
           NEW capacity \in Nat \ {0}, Len(ledger) <= capacity,
           NEW id \in S,
           NEW claimed, claimed = Claim(ledger, id, capacity)
    PROVE  claimed \in Seq(S) /\ ClaimedFrom(claimed, ledger, id, capacity)
<1>1. CASE IsFresh(ledger, id)
  <2>1. PICK grown : grown = Append(ledger, id)
      OBVIOUS
  <2>2. grown \in Seq(S) /\ ExtendedBy(grown, ledger, id)
      BY <1>1, <2>1, AppendFacts DEF IsFresh
  <2>3. claimed = EvictOldest(grown, capacity)
      BY <1>1, <2>1 DEF Claim
  <2>4. Distinct(grown)
      BY <2>2 DEF ExtendedBy
  <2>5. claimed \in Seq(S) /\ NewestOf(claimed, grown, capacity)
      BY <2>2, <2>3, <2>4, EvictOldestFacts
  <2>6. Len(claimed) <= capacity
      BY <2>2, <2>5 DEF NewestOf
  <2>7. id \in Held(claimed)
    <3>1. /\ Len(claimed) \in Nat /\ Len(grown) \in Nat
          /\ Len(grown) = Len(ledger) + 1 /\ grown[Len(grown)] = id
        BY <2>2, <2>5 DEF ExtendedBy
    <3>2. Len(claimed) >= 1
        BY <2>5, <3>1 DEF NewestOf
    <3>3. Len(claimed) \in 1..Len(claimed) /\ claimed[Len(claimed)] = grown[Len(grown)]
      <4>1. Len(claimed) \in 1..Len(claimed)
          BY <3>1, <3>2
      <4>2. claimed[Len(claimed)] = grown[Len(claimed) + (Len(grown) - Len(claimed))]
          BY <2>5, <4>1 DEF NewestOf
      <4>3. Len(claimed) + (Len(grown) - Len(claimed)) = Len(grown)
          BY <3>1
      <4> QED BY <4>1, <4>2, <4>3
    <3> QED BY <3>1, <3>3 DEF Held
  <2>8. Held(claimed) \subseteq Held(ledger) \cup {id}
      BY <2>2, <2>5 DEF NewestOf, ExtendedBy
  <2> QED BY <2>5, <2>6, <2>7, <2>8 DEF ClaimedFrom, NewestOf
<1>2. CASE ~IsFresh(ledger, id)
  <2>1. PICK k \in 1..Len(ledger) : ledger[k] = id
      BY <1>2 DEF IsFresh, Held
  <2>2. claimed = MoveToEnd(ledger, ledger[k])
      BY <1>2, <2>1 DEF Claim
  <2>3. /\ claimed \in Seq(S)
        /\ Len(claimed) = Len(ledger)
        /\ Distinct(claimed)
        /\ Held(claimed) = Held(ledger)
      BY <2>2, MoveToEndFacts
  <2>4. id \in Held(ledger)
      BY <1>2 DEF IsFresh
  <2> QED BY <2>3, <2>4 DEF ClaimedFrom
<1> QED BY <1>1, <1>2

\* While every id there is fits the ledger, claim() forgets none.
LEMMA FittingClaimKeeps ==
    ASSUME NEW S, IsFiniteSet(S), NEW ledger \in Seq(S), Distinct(ledger),
           NEW capacity \in Nat \ {0}, Cardinality(S) <= capacity,
           NEW id \in S,
           NEW claimed, claimed = Claim(ledger, id, capacity)
    PROVE  Held(claimed) = Held(ledger) \cup {id}
<1>1. CASE IsFresh(ledger, id)
  <2>1. PICK grown : grown = Append(ledger, id)
      OBVIOUS
  <2>2. grown \in Seq(S) /\ ExtendedBy(grown, ledger, id)
      BY <1>1, <2>1, AppendFacts DEF IsFresh
  <2>3. claimed = EvictOldest(grown, capacity)
      BY <1>1, <2>1 DEF Claim
  <2>4. Distinct(grown)
      BY <2>2 DEF ExtendedBy
  <2>5. Len(grown) <= capacity
    <3>1. Len(grown) \in Nat /\ 0 \in 0..Len(grown)
        BY <2>2
    <3>2. Cardinality(After(grown, 0)) = Len(grown) - 0
        BY <2>2, <2>4, <3>1, AfterCardinality
    <3>3. After(grown, 0) \in SUBSET S
        BY <2>2 DEF After
    <3>4. Cardinality(After(grown, 0)) <= Cardinality(S)
        BY <3>3, FS_Subset
    <3>5. Cardinality(S) \in Nat
        BY FS_CardinalityType
    <3> QED BY <3>1, <3>2, <3>4, <3>5
  <2>6. claimed = grown
      BY <2>3, <2>5 DEF EvictOldest
  <2> QED BY <2>2, <2>6 DEF ExtendedBy
<1>2. CASE ~IsFresh(ledger, id)
  <2>1. PICK k \in 1..Len(ledger) : ledger[k] = id
      BY <1>2 DEF IsFresh, Held
  <2>2. claimed = MoveToEnd(ledger, ledger[k])
      BY <1>2, <2>1 DEF Claim
  <2>3. Held(claimed) = Held(ledger)
      BY <2>2, MoveToEndFacts
  <2> QED BY <1>2, <2>3 DEF IsFresh
<1> QED BY <1>1, <1>2

==============================================================================
