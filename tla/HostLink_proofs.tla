---------------------------- MODULE HostLink_proofs ----------------------------
(***************************************************************************)
(* Proofs about HostLink, for any listings, answers and settings: the      *)
(* fan-out of the host-link collection implements the rotation of          *)
(* FanoutRotation over the VMware groups alone, and reaches every one of   *)
(* them within ceil(total / budget) polls; the probe costs one request;    *)
(* what is published can be joined; and what is kept back or doubted is    *)
(* told.                                                                   *)
(*                                                                         *)
(* The argument for the sweep is a group's distance ahead of the cursor: a *)
(* poll that does not select the group brings the cursor one whole budget  *)
(* nearer to it, so the distance and the polls it has waited for, times    *)
(* the budget, never add up to more than the list.                         *)
(***************************************************************************)
EXTENDS HostLink, FiniteSetTheorems, WellFoundedInduction, TLAPS

\* The position in the rotation and the distance of each place ahead of it.
Rate == LinkRotation!AtLeastOne(Budget)

Start == cursor % Len(vmware)

\* How many places ahead of place `start`, in a ring of `n` places, place `p` is; places count from 0.
Distance(start, p, n) == IF start <= p THEN p - start ELSE (p + n) - start

Ahead(i) == Distance(Start, i - 1, Len(vmware))

Near == \A i \in 1..Len(vmware) : Ahead(i) + steady[i] * Rate < Len(vmware)

RotationInv == LinkRotation!TypeOK /\ Near

ListingInv == inventory \in Inventories

------------------------------------------------------------------------------
(* The rotation. *)

\* _rotate is one and the same, by whatever name.
LEMMA RotateAlike ==
    /\ Rotated(vmware, cursor, Budget) = LinkRotation!Rotated(vmware, cursor, Budget)
    /\ NextCursor(vmware, cursor, Budget) = LinkRotation!NextCursor(vmware, cursor, Budget)
  BY DEF Rotated, LinkRotation!Rotated, NextCursor, LinkRotation!NextCursor,
         RotationCount, LinkRotation!RotationCount, AtLeastOne, LinkRotation!AtLeastOne

LEMMA InitMaps == Init => ListingInv /\ LinkRotation!Init
  BY InventoriesAssumption
     DEF Init, ListingInv, ClientStarts, LinkRotation!Init, vmware

LEMMA ListingIsAnOrder ==
    ASSUME ListingInv
    PROVE  LinkRotation!IsOrder(vmware)
  BY InventoriesAssumption DEF ListingInv, vmware

\* Selected, as the client says it and as the rotation says it.
LEMMA SelectedAlike ==
    ASSUME ListingInv, NEW g
    PROVE  g \in ToSet(Rotated(vmware, cursor, Budget))
             <=> \E j \in 1..Len(Rotated(vmware, cursor, Budget)) :
                     Rotated(vmware, cursor, Budget)[j] = g
<1> DEFINE count == RotationCount(Len(vmware), Budget)
           selected == Rotated(vmware, cursor, Budget)
<1>1. vmware \in Seq(VMware)
  BY ListingIsAnOrder DEF LinkRotation!IsOrder
<1>2. Len(vmware) \in Nat
  BY <1>1
<1>3. count \in Nat
  BY <1>2, LinkRotationAssumption
     DEF LinkRotation!RotationAssumption, RotationCount, AtLeastOne
<1>4. DOMAIN selected = 1..count /\ Len(selected) = count
  BY <1>3 DEF Rotated
<1> QED
  BY <1>4 DEF ToSet

LEMMA TurnIsAsk ==
    ASSUME ListingInv, vmware # <<>>, UNCHANGED inventory, Turn
    PROVE  LinkRotation!Ask
<1> DEFINE selected == Rotated(vmware, cursor, Budget)
<1>1. steady' = [i \in 1..Len(vmware) |->
                    IF \E j \in 1..Len(selected) : selected[j] = vmware[i] THEN 0
                    ELSE steady[i] + 1]
  <2>1. \A i \in 1..Len(vmware) :
            vmware[i] \in ToSet(selected)
              <=> \E j \in 1..Len(selected) : selected[j] = vmware[i]
    BY SelectedAlike
  <2>2. steady' = [i \in 1..Len(vmware) |->
                    IF vmware[i] \in ToSet(selected) THEN 0 ELSE steady[i] + 1]
    BY DEF Turn
  <2> HIDE DEF selected
  <2> QED
    BY <2>1, <2>2
<1>2. vmware' = vmware
  BY DEF vmware
<1> QED
  BY <1>1, <1>2, RotateAlike DEF Turn, LinkRotation!Ask

\* What the cluster, a poll or a new client does is a step of the rotation, or none.
LEMMA StepMaps ==
    ASSUME ListingInv, [Next]_vars
    PROVE  ListingInv' /\ [LinkRotation!Next]_(LinkRotation!vars)
<1>1. ASSUME NEW list \in Inventories, Relist(list)
      PROVE  ListingInv' /\ [LinkRotation!Next]_(LinkRotation!vars)
  <2>1. inventory' = list /\ vmware' = OnlyVMware(list) /\ cursor' = cursor
    BY <1>1 DEF Relist, vmware
  <2>2. ListingInv' /\ LinkRotation!IsOrder(vmware')
    BY <2>1, InventoriesAssumption DEF ListingInv
  <2>3. CASE vmware' = vmware
    BY <1>1, <2>1, <2>2, <2>3 DEF Relist, LinkRotation!vars
  <2>4. CASE vmware' # vmware
    BY <1>1, <2>1, <2>2, <2>4 DEF Relist, LinkRotation!Next, LinkRotation!Relist
  <2> QED
    BY <2>3, <2>4
<1>2. ASSUME PollAsks \/ PollRaises
      PROVE  ListingInv' /\ [LinkRotation!Next]_(LinkRotation!vars)
  <2>1. vmware # <<>> /\ UNCHANGED inventory /\ Turn
    BY <1>2 DEF PollAsks, PollRaises
  <2> QED
    BY <2>1, TurnIsAsk DEF ListingInv, LinkRotation!Next
<1>3. ASSUME PollFindsNone \/ PollWithoutLinks \/ UNCHANGED vars
      PROVE  ListingInv' /\ [LinkRotation!Next]_(LinkRotation!vars)
  <2>1. UNCHANGED <<inventory, cursor, steady>>
    BY <1>3 DEF PollFindsNone, PollWithoutLinks, vars
  <2> QED
    BY <2>1 DEF ListingInv, LinkRotation!vars, vmware
<1>4. ASSUME Restart
      PROVE  ListingInv' /\ [LinkRotation!Next]_(LinkRotation!vars)
  <2>1. /\ inventory' = inventory /\ vmware' = vmware
        /\ cursor' = 0 /\ steady' = LinkRotation!Fresh(vmware)
    BY <1>4 DEF Restart, vmware
  <2> QED
    BY <2>1 DEF ListingInv, LinkRotation!Next, LinkRotation!Restart
<1> QED
  BY <1>1, <1>2, <1>3, <1>4 DEF Next, Poll

\* The host-link fan-out is the rotation over the VMware groups: what it selects, and where it goes
\* on, is what FanoutRotation says, whatever the groups of other environments do, whatever is
\* answered, refused or cut off, and for any settings.
THEOREM HostLinkImplementsRotation == Spec => ImplementsRotation
<1>1. Init => ListingInv /\ LinkRotation!Init
  BY InitMaps
<1>2. ListingInv /\ [Next]_vars => ListingInv' /\ [LinkRotation!Next]_(LinkRotation!vars)
  BY StepMaps
<1> QED
  BY <1>1, <1>2, PTL DEF Spec, ImplementsRotation, LinkRotation!Spec

------------------------------------------------------------------------------
(* Arithmetic. *)

LEMMA RemainderRange ==
    ASSUME NEW n \in Nat \ {0}, NEW x \in Nat
    PROVE  x % n \in 0..(n - 1)
  OBVIOUS

\* What a remainder of less than two rounds is.
LEMMA RemainderOnce ==
    ASSUME NEW n \in Nat \ {0}, NEW x \in 0..(n - 1)
    PROVE  x % n = x
  OBVIOUS

LEMMA RemainderTwice ==
    ASSUME NEW n \in Nat \ {0}, NEW x \in n..(2 * n - 1)
    PROVE  x % n = x - n
  OBVIOUS

LEMMA RateIsPositive == Rate \in Nat \ {0}
  BY LinkRotationAssumption DEF LinkRotation!RotationAssumption, Rate, LinkRotation!AtLeastOne

\* The ceiling of a quotient exceeds whatever fits below the dividend.
LEMMA BelowCeiling ==
    ASSUME NEW k \in Nat \ {0}, NEW n \in Nat, NEW s \in Nat, s * k < n
    PROVE  s < (n + k - 1) \div k
<1> DEFINE q == (n + k - 1) \div k
<1>1. q \in Nat /\ n + k - 1 < k * q + k
  OBVIOUS
<1>2. SUFFICES ASSUME q <= s PROVE FALSE
  BY <1>1
<1>3. k * q <= k * s
  BY <1>1, <1>2
<1> QED
  BY <1>1, <1>3

\* Walking the distance leads to the place.
LEMMA DistanceLeads ==
    ASSUME NEW n \in Nat \ {0}, NEW s \in 0..(n - 1), NEW p \in 0..(n - 1)
    PROVE  /\ Distance(s, p, n) \in 0..(n - 1)
           /\ (s + Distance(s, p, n)) % n = p
<1>1. CASE s <= p
  <2>1. Distance(s, p, n) = p - s
    BY <1>1 DEF Distance
  <2>2. s + (p - s) = p
    OBVIOUS
  <2> QED
    BY <1>1, <2>1, <2>2, RemainderOnce
<1>2. CASE ~(s <= p)
  <2>1. Distance(s, p, n) = (p + n) - s
    BY <1>2 DEF Distance
  <2>2. s + ((p + n) - s) = p + n /\ p + n \in n..(2 * n - 1) /\ (p + n) - n = p
    OBVIOUS
  <2>3. (p + n) % n = p
    BY <2>2, RemainderTwice
  <2> QED
    BY <1>2, <2>1, <2>2, <2>3
<1> QED
  BY <1>1, <1>2

\* A start that moves on by no more than the distance gets nearer by as much.
LEMMA DistanceShrinks ==
    ASSUME NEW n \in Nat \ {0}, NEW s \in 0..(n - 1), NEW p \in 0..(n - 1),
           NEW c \in 0..(n - 1), c <= Distance(s, p, n)
    PROVE  Distance((s + c) % n, p, n) = Distance(s, p, n) - c
<1>1. CASE s + c < n
  <2>1. (s + c) % n = s + c
    BY <1>1, RemainderOnce
  <2> QED
    BY <1>1, <2>1 DEF Distance
<1>2. CASE ~(s + c < n)
  <2>1. (s + c) % n = (s + c) - n
    <3>1. s + c \in n..(2 * n - 1)
      BY <1>2
    <3> QED
      BY <3>1, RemainderTwice
  <2> QED
    BY <1>2, <2>1 DEF Distance
<1> QED
  BY <1>1, <1>2

------------------------------------------------------------------------------
(* The invariant. *)

LEMMA StartRange ==
    ASSUME LinkRotation!TypeOK, vmware # <<>>
    PROVE  Len(vmware) \in Nat \ {0} /\ Start \in 0..(Len(vmware) - 1)
<1>1. vmware \in Seq(VMware) /\ cursor \in Nat
  BY LinkRotationAssumption
     DEF LinkRotation!TypeOK, LinkRotation!IsOrder, LinkRotation!RotationAssumption
<1>2. Len(vmware) \in Nat \ {0}
  BY <1>1
<1> QED
  BY <1>1, <1>2, RemainderRange DEF Start

\* A fresh order: nobody has waited yet, and nothing is a whole round ahead.
LEMMA FreshIsNear ==
    ASSUME NEW list, LinkRotation!IsOrder(list), NEW position \in Nat,
           NEW i \in 1..Len(list)
    PROVE  /\ LinkRotation!Fresh(list) \in [1..Len(list) -> Nat]
           /\ Distance(position % Len(list), i - 1, Len(list)) + LinkRotation!Fresh(list)[i] * Rate
                 < Len(list)
<1>1. list \in Seq(VMware)
  BY DEF LinkRotation!IsOrder
<1>2. Len(list) \in Nat \ {0} /\ i - 1 \in 0..(Len(list) - 1)
  BY <1>1
<1>3. position % Len(list) \in 0..(Len(list) - 1)
  BY <1>2, RemainderRange
<1>4. Distance(position % Len(list), i - 1, Len(list)) \in 0..(Len(list) - 1)
  BY <1>2, <1>3, DistanceLeads
<1>5. LinkRotation!Fresh(list) \in [1..Len(list) -> Nat] /\ LinkRotation!Fresh(list)[i] = 0
  BY DEF LinkRotation!Fresh
<1>6. LinkRotation!Fresh(list)[i] * Rate = 0
  BY <1>5, RateIsPositive
<1> QED
  BY <1>2, <1>4, <1>5, <1>6

LEMMA InitIsNear ==
    ASSUME LinkRotation!Init
    PROVE  RotationInv
<1>1. LinkRotation!IsOrder(vmware) /\ steady = LinkRotation!Fresh(vmware) /\ cursor = 0
  BY DEF LinkRotation!Init
<1>2. steady \in [1..Len(vmware) -> Nat] /\ 0 \in 0..Largest /\ 0 \in Nat
  BY <1>1, LinkRotationAssumption DEF LinkRotation!Fresh, LinkRotation!RotationAssumption
<1>3. LinkRotation!TypeOK
  BY <1>1, <1>2 DEF LinkRotation!TypeOK
<1>4. Near
  <2> SUFFICES ASSUME NEW i \in 1..Len(vmware)
               PROVE  Ahead(i) + steady[i] * Rate < Len(vmware)
    BY DEF Near
  <2> QED
    BY <1>1, <1>2, FreshIsNear DEF Ahead, Start
<1> QED
  BY <1>3, <1>4 DEF RotationInv

LEMMA RelistStaysNear ==
    ASSUME RotationInv, LinkRotation!Relist
    PROVE  RotationInv'
<1>1. LinkRotation!IsOrder(vmware') /\ steady' = LinkRotation!Fresh(vmware') /\ cursor' = cursor
  BY DEF LinkRotation!Relist
<1>2. cursor \in 0..Largest /\ cursor \in Nat
  BY LinkRotationAssumption DEF RotationInv, LinkRotation!TypeOK, LinkRotation!RotationAssumption
<1>3. steady' \in [1..Len(vmware') -> Nat]
  BY <1>1 DEF LinkRotation!Fresh
<1>4. LinkRotation!TypeOK'
  BY <1>1, <1>2, <1>3 DEF LinkRotation!TypeOK, LinkRotation!IsOrder
<1>5. Near'
  <2> SUFFICES ASSUME NEW i \in 1..Len(vmware')
               PROVE  Ahead(i)' + steady'[i] * Rate < Len(vmware')
    BY DEF Near, Rate
  <2> QED
    BY <1>1, <1>2, FreshIsNear DEF Ahead, Start
<1> QED
  BY <1>4, <1>5 DEF RotationInv

LEMMA RestartStaysNear ==
    ASSUME RotationInv, LinkRotation!Restart
    PROVE  RotationInv'
<1>1. vmware' = vmware /\ steady' = LinkRotation!Fresh(vmware) /\ cursor' = 0 /\ LinkRotation!IsOrder(vmware)
  BY DEF LinkRotation!Restart, RotationInv, LinkRotation!TypeOK
<1>2. steady' \in [1..Len(vmware) -> Nat] /\ 0 \in 0..Largest /\ 0 \in Nat
  BY <1>1, LinkRotationAssumption DEF LinkRotation!Fresh, LinkRotation!RotationAssumption
<1>3. LinkRotation!TypeOK'
  BY <1>1, <1>2 DEF LinkRotation!TypeOK, LinkRotation!IsOrder
<1>4. Near'
  <2> SUFFICES ASSUME NEW i \in 1..Len(vmware)
               PROVE  Ahead(i)' + steady'[i] * Rate < Len(vmware)
    BY <1>1 DEF Near, Rate
  <2> QED
    BY <1>1, <1>2, FreshIsNear DEF Ahead, Start
<1> QED
  BY <1>3, <1>4 DEF RotationInv

\* The place a poll leaves the cursor at.
LEMMA AskMovesOn ==
    ASSUME RotationInv, LinkRotation!Ask
    PROVE  /\ Len(vmware) \in Nat \ {0} /\ Start \in 0..(Len(vmware) - 1)
           /\ vmware' = vmware
           /\ LinkRotation!RotationCount(Len(vmware), Budget) \in 1..Len(vmware)
           /\ cursor' = (Start + LinkRotation!RotationCount(Len(vmware), Budget)) % Len(vmware)
           /\ cursor' \in 0..(Len(vmware) - 1)
           /\ Start' = cursor'
<1>1. vmware # <<>> /\ vmware' = vmware /\ cursor' = LinkRotation!NextCursor(vmware, cursor, Budget)
  BY DEF LinkRotation!Ask
<1>2. Len(vmware) \in Nat \ {0} /\ Start \in 0..(Len(vmware) - 1)
  BY <1>1, StartRange DEF RotationInv
<1>3. LinkRotation!RotationCount(Len(vmware), Budget) \in 1..Len(vmware)
  BY <1>2, RateIsPositive DEF LinkRotation!RotationCount, Rate
<1>4. cursor' = (Start + LinkRotation!RotationCount(Len(vmware), Budget)) % Len(vmware)
  BY <1>1 DEF LinkRotation!NextCursor, Start
<1>5. cursor' \in 0..(Len(vmware) - 1)
  <2>1. Start + LinkRotation!RotationCount(Len(vmware), Budget) \in Nat
    BY <1>2, <1>3
  <2> QED
    BY <1>2, <1>4, <2>1, RemainderRange
<1>6. Start' = cursor'
  <2>1. Start' = cursor' % Len(vmware)
    BY <1>1 DEF Start
  <2> QED
    BY <1>2, <1>5, <2>1, RemainderOnce
<1> QED
  BY <1>1, <1>2, <1>3, <1>4, <1>5, <1>6

\* A position within the cap is selected.
LEMMA NearIsSelected ==
    ASSUME RotationInv, LinkRotation!Ask, NEW i \in 1..Len(vmware),
           Ahead(i) < LinkRotation!RotationCount(Len(vmware), Budget)
    PROVE  steady'[i] = 0
<1> DEFINE n == Len(vmware)
           c == LinkRotation!RotationCount(n, Budget)
           selected == LinkRotation!Rotated(vmware, cursor, Budget)
<1>1. n \in Nat \ {0} /\ Start \in 0..(n - 1) /\ c \in 1..n
  BY AskMovesOn
<1>2. i - 1 \in 0..(n - 1)
  BY <1>1
<1>3. Ahead(i) \in 0..(n - 1) /\ (Start + Ahead(i)) % n = i - 1
  BY <1>1, <1>2, DistanceLeads DEF Ahead
<1>4. Ahead(i) + 1 \in 1..c /\ (Ahead(i) + 1) - 1 = Ahead(i)
  BY <1>1, <1>3
<1>5. selected[Ahead(i) + 1] = vmware[((Start + ((Ahead(i) + 1) - 1)) % n) + 1]
  BY <1>4 DEF LinkRotation!Rotated, Start
<1>6. selected[Ahead(i) + 1] = vmware[i]
  <2>1. (i - 1) + 1 = i
    BY <1>1
  <2> QED
    BY <1>3, <1>4, <1>5, <2>1
<1>7. DOMAIN selected = 1..c /\ Len(selected) = c
  BY <1>1 DEF LinkRotation!Rotated
<1>8. \E j \in 1..Len(selected) : selected[j] = vmware[i]
  BY <1>4, <1>6, <1>7
<1> QED
  BY <1>8 DEF LinkRotation!Ask

LEMMA AskStaysNear ==
    ASSUME RotationInv, LinkRotation!Ask
    PROVE  RotationInv'
<1> DEFINE n == Len(vmware)
           c == LinkRotation!RotationCount(n, Budget)
<1>1. /\ n \in Nat \ {0} /\ Start \in 0..(n - 1) /\ vmware' = vmware /\ c \in 1..n
      /\ cursor' = (Start + c) % n /\ cursor' \in 0..(n - 1) /\ Start' = cursor'
  BY AskMovesOn
<1>2. LinkRotation!TypeOK /\ LinkRotation!IsOrder(vmware) /\ n <= Largest
  BY DEF RotationInv, LinkRotation!TypeOK, LinkRotation!IsOrder
<1>3. steady \in [1..n -> Nat]
  BY <1>2 DEF LinkRotation!TypeOK
<1>4. /\ steady' \in [1..n -> Nat]
      /\ \A i \in 1..n : steady'[i] \in {0, steady[i] + 1}
  BY <1>3 DEF LinkRotation!Ask
<1>5. LinkRotation!TypeOK'
  <2>1. cursor' \in 0..Largest
    BY <1>1, <1>2, LinkRotationAssumption DEF LinkRotation!RotationAssumption
  <2> QED
    BY <1>1, <1>2, <1>4, <2>1 DEF LinkRotation!TypeOK, LinkRotation!IsOrder
<1>6. Near'
  <2> SUFFICES ASSUME NEW i \in 1..n
               PROVE  Distance(cursor', i - 1, n) + steady'[i] * Rate < n
    BY <1>1 DEF Near, Ahead, Rate
  <2>1. i - 1 \in 0..(n - 1) /\ Rate \in Nat \ {0}
    BY <1>1, RateIsPositive
  <2>2. Distance(cursor', i - 1, n) \in 0..(n - 1) /\ Ahead(i) \in 0..(n - 1)
    BY <1>1, <2>1, DistanceLeads DEF Ahead
  <2>3. Ahead(i) + steady[i] * Rate < n
    BY DEF RotationInv, Near
  <2>4. CASE steady'[i] = 0
    BY <1>1, <2>1, <2>2, <2>4
  <2>5. CASE steady'[i] # 0
    <3>1. ~(Ahead(i) < c)
      BY <2>5, NearIsSelected
    <3>2. c < n /\ c = Rate /\ c <= Ahead(i)
      <4>1. c <= Ahead(i) /\ c < n
        BY <1>1, <2>2, <3>1
      <4>2. c = IF Rate < n THEN Rate ELSE n
        BY DEF LinkRotation!RotationCount, Rate
      <4> QED
        BY <1>1, <2>1, <4>1, <4>2
    <3>3. c \in 0..(n - 1)
      BY <1>1, <3>2
    <3>4. Distance(cursor', i - 1, n) = Ahead(i) - Rate
      BY <1>1, <2>1, <3>2, <3>3, DistanceShrinks DEF Ahead
    <3>5. steady'[i] = steady[i] + 1 /\ steady[i] \in Nat
      BY <1>3, <1>4, <2>5
    <3>6. steady'[i] * Rate = steady[i] * Rate + Rate
      BY <2>1, <3>5
    <3>7. steady[i] * Rate \in Nat
      BY <2>1, <3>5
    <3> QED
      BY <1>1, <2>1, <2>2, <2>3, <3>4, <3>6, <3>7
  <2> QED
    BY <2>4, <2>5
<1> QED
  BY <1>5, <1>6 DEF RotationInv

LEMMA StepStaysNear ==
    ASSUME RotationInv, [LinkRotation!Next]_(LinkRotation!vars)
    PROVE  RotationInv'
<1>1. CASE LinkRotation!Relist
  BY <1>1, RelistStaysNear
<1>2. CASE LinkRotation!Ask
  BY <1>2, AskStaysNear
<1>3. CASE LinkRotation!Restart
  BY <1>3, RestartStaysNear
<1>4. CASE UNCHANGED LinkRotation!vars
  BY <1>4
     DEF LinkRotation!vars, RotationInv, LinkRotation!TypeOK, LinkRotation!IsOrder, Near, Ahead,
         Start, Rate
<1> QED
  BY <1>1, <1>2, <1>3, <1>4 DEF LinkRotation!Next

LEMMA NearIsSwept ==
    ASSUME RotationInv
    PROVE  LinkRotation!SweptWhileSteady
<1> SUFFICES ASSUME NEW i \in 1..Len(vmware)
             PROVE  steady[i] < LinkRotation!Sweep(Len(vmware))
  BY DEF LinkRotation!SweptWhileSteady
<1> DEFINE n == Len(vmware)
<1>1. vmware # <<>> /\ steady[i] \in Nat
  BY DEF RotationInv, LinkRotation!TypeOK, LinkRotation!IsOrder
<1>2. n \in Nat \ {0} /\ Start \in 0..(n - 1) /\ Rate \in Nat \ {0}
  BY <1>1, StartRange, RateIsPositive DEF RotationInv
<1>3. i - 1 \in 0..(n - 1)
  BY <1>2
<1>4. Ahead(i) \in 0..(n - 1)
  BY <1>2, <1>3, DistanceLeads DEF Ahead
<1>5. steady[i] * Rate < n
  <2>1. Ahead(i) + steady[i] * Rate < n
    BY DEF RotationInv, Near
  <2>2. steady[i] * Rate \in Nat
    BY <1>1, <1>2
  <2> QED
    BY <1>2, <1>4, <2>1, <2>2
<1>6. steady[i] < (n + Rate - 1) \div Rate
  BY <1>1, <1>2, <1>5, BelowCeiling
<1> QED
  BY <1>6 DEF LinkRotation!Sweep, Rate

LEMMA RotationStaysNear == Spec => []RotationInv
<1>1. LinkRotation!Spec => []RotationInv
  BY InitIsNear, StepStaysNear, PTL DEF LinkRotation!Spec
<1> QED
  BY <1>1, HostLinkImplementsRotation DEF ImplementsRotation

\* A capped fan-out is a rate and not a filter: while the order of the VMware groups stands every
\* one of them is asked again within ceil(total / budget) polls, for any number of groups, any
\* budget and any cursor that a longer list left behind.
THEOREM EveryVMwareGroupIsSwept == Spec => []SweptWhileSteady
<1>1. RotationInv => LinkRotation!SweptWhileSteady
  BY NearIsSwept
<1> QED
  BY <1>1, RotationStaysNear, PTL DEF SweptWhileSteady

\* And the position and the counts of the sweep are the rotation's.
LEMMA RotationTypes == Spec => []LinkRotation!TypeOK
<1>1. RotationInv => LinkRotation!TypeOK
  BY DEF RotationInv
<1> QED
  BY <1>1, RotationStaysNear, PTL

------------------------------------------------------------------------------
(* The probe. *)

ProbeInv ==
    /\ probed \in BOOLEAN
    /\ probes \in {0, 1}
    /\ probes = 1 => probed

\* What has been asked once has nothing more to report.
LEMMA ProbeKeepsCount ==
    ASSUME ProbeInv, NEW events \in ProbeEvents, Probe(events)
    PROVE  ProbeInv'
<1>1. probed' = TRUE
  BY DEF Probe
<1>2. CASE probed
  <2>1. events = {}
    BY <1>2 DEF ProbeEvents
  <2>2. probes' = probes
    BY <2>1 DEF Probe
  <2> QED
    BY <1>1, <2>2 DEF ProbeInv
<1>3. CASE ~probed
  <2>1. probes = 0
    BY <1>3 DEF ProbeInv
  <2>2. probes' \in {0, 1}
    BY <2>1 DEF Probe
  <2> QED
    BY <1>1, <2>2 DEF ProbeInv
<1> QED
  BY <1>2, <1>3

LEMMA StepKeepsCount ==
    ASSUME ProbeInv, [Next]_vars
    PROVE  ProbeInv'
<1>1. CASE PollAsks
  BY <1>1, ProbeKeepsCount DEF PollAsks
<1>2. CASE PollRaises
  BY <1>2, ProbeKeepsCount DEF PollRaises
<1>3. CASE PollFindsNone
  BY <1>3, ProbeKeepsCount DEF PollFindsNone
<1>4. CASE PollWithoutLinks
  BY <1>4, ProbeKeepsCount DEF PollWithoutLinks
<1>5. CASE Restart
  <2>1. probed' = FALSE /\ probes' = 0
    BY <1>5 DEF Restart
  <2>2. probes' \in {0, 1} /\ probes' # 1
    BY <2>1
  <2> QED
    BY <2>1, <2>2 DEF ProbeInv
<1>6. CASE (\E list \in Inventories : Relist(list)) \/ UNCHANGED vars
  <2>1. UNCHANGED <<probed, probes>>
    BY <1>6 DEF Relist, vars
  <2> QED
    BY <2>1 DEF ProbeInv
<1> QED
  BY <1>1, <1>2, <1>3, <1>4, <1>5, <1>6 DEF Next, Poll

LEMMA InitHasNotProbed == Init => ProbeInv
<1>1. Init => probed = FALSE /\ probes = 0
  BY DEF Init, ClientStarts
<1>2. probes = 0 => probes \in {0, 1} /\ probes # 1
  OBVIOUS
<1> QED
  BY <1>1, <1>2 DEF ProbeInv

\* A client asks about object details in one request of its life, whether the request is answered,
\* refused or comes back empty, however many polls follow and under any listing.
THEOREM TheProbeIsMadeOnce == Spec => []ProbedOnce
<1>1. Init => ProbeInv
  BY InitHasNotProbed
<1>2. ProbeInv /\ [Next]_vars => ProbeInv'
  BY StepKeepsCount
<1>3. ProbeInv => ProbedOnce
  BY DEF ProbeInv, ProbedOnce
<1> QED
  BY <1>1, <1>2, <1>3, PTL DEF Spec

------------------------------------------------------------------------------
(* What an answer yields. *)

LEMMA FirstNumber ==
    ASSUME NEW numbers \in SUBSET Nat, numbers # {}
    PROVE  \E n \in numbers : \A other \in numbers : n <= other
<1> DEFINE Less == OpToRel(<, Nat)
<1>1. IsWellFoundedOn(Less, Nat)
  BY NatLessThanWellFounded
<1>2. \A m, n \in Nat : <<m, n>> \in Less <=> m < n
  BY DEF OpToRel
<1> HIDE DEF Less
<1>3. PICK n \in numbers : \A m \in numbers : <<m, n>> \notin Less
  BY <1>1, WFMin
<1>4. ASSUME NEW other \in numbers PROVE n <= other
  <2>1. n \in Nat /\ other \in Nat
    OBVIOUS
  <2>2. ~(other < n)
    BY <1>2, <1>3, <2>1
  <2> QED
    BY <2>1, <2>2
<1> QED
  BY <1>4

LEMMA ImageIsFinite ==
    ASSUME NEW S, IsFiniteSet(S), NEW f, DOMAIN f = S
    PROVE  IsFiniteSet({f[x] : x \in S})
<1> DEFINE T == {f[x] : x \in S}
           g == [x \in S |-> f[x]]
<1>1. g \in Surjection(S, T)
  BY DEF Surjection
<1> QED
  BY <1>1, FS_Surjection

LEMMA SequenceDomain ==
    ASSUME NEW S, NEW list \in Seq(S)
    PROVE  DOMAIN list = 1..Len(list) /\ Len(list) \in Nat /\ IsFiniteSet(DOMAIN list)
<1>1. DOMAIN list = 1..Len(list) /\ Len(list) \in Nat
  OBVIOUS
<1>2. IsFiniteSet(1..Len(list))
  BY <1>1, FS_Interval
<1> QED
  BY <1>1, <1>2

LEMMA UnionIsFinite ==
    ASSUME NEW S, IsFiniteSet(S), NEW f, DOMAIN f = S, \A x \in S : IsFiniteSet(f[x])
    PROVE  IsFiniteSet(UNION {f[x] : x \in S})
<1> DEFINE T == {f[x] : x \in S}
<1>1. IsFiniteSet(T) /\ \A t \in T : IsFiniteSet(t)
  BY ImageIsFinite
<1> HIDE DEF T
<1>2. IsFiniteSet(UNION T)
  BY <1>1, FS_UNION
<1> QED
  BY <1>2 DEF T

\* A uuid that is taken for a VM's BIOS uuid stands in one of the fields of that meaning.
LEMMA BiosUuidIsAField ==
    ASSUME NEW object, BiosUuid(object) # NoUuid
    PROVE  \E label \in DOMAIN object :
               /\ BiosUuid(object) = Normalised(object[label])
               /\ label[2] \notin ToSet(InstanceUuidFields)
<1> DEFINE places == Usable(object, BiosUuidFields)
           labels == Labels(BiosUuidFields)
<1>1. Len(BiosUuidFields) = 7 /\ Len(Blocks) = 6
  BY DEF BiosUuidFields, Blocks
<1>2. DOMAIN labels = 1..42
  BY <1>1 DEF Labels
<1>3. places \in SUBSET Nat
  BY <1>2 DEF Usable, Present
<1>4. places # {} /\ BiosUuid(object) = Normalised(object[labels[Min(places)]])
  BY DEF BiosUuid, UuidFrom, FirstLabel
<1> HIDE DEF places
<1>5. Min(places) \in places
  BY <1>3, <1>4, FirstNumber DEF Min
<1> USE DEF places
<1>6. PICK i \in 1..42 : i = Min(places) /\ labels[i] \in DOMAIN object
  BY <1>2, <1>5 DEF Usable, Present
<1>7. labels[i][2] = BiosUuidFields[((i - 1) \div 6) + 1]
  BY <1>1 DEF Labels
<1>8. ((i - 1) \div 6) + 1 \in 1..7
  OBVIOUS
<1>9. \A n \in 1..7 : BiosUuidFields[n] \notin ToSet(InstanceUuidFields)
  BY DEF BiosUuidFields, InstanceUuidFields, ToSet
<1> QED
  BY <1>4, <1>6, <1>7, <1>8, <1>9

LEMMA PlacesFacts ==
    ASSUME NEW g \in Groups, NEW answer \in Answers[g]
    PROVE  /\ IsFiniteSet(ObjectsOf(answer, g))
           /\ \A p \in ObjectsOf(answer, g) : \A label \in DOMAIN ObjectAt(answer, p) :
                 Normalised(ObjectAt(answer, p)[label]) \in Nat
<1> DEFINE runs == {r \in DOMAIN answer : answer[r].group \in {"", g}}
           Places(r) == {<<r, o>> : o \in DOMAIN answer[r].objects}
<1>1. answer \in Seq(ToSet(answer)) /\ DOMAIN answer = 1..Len(answer) /\ Len(answer) \in Nat
  BY AnswersAssumption
<1>2. ASSUME NEW r \in DOMAIN answer
      PROVE  /\ answer[r].objects \in Seq(ToSet(answer[r].objects))
             /\ \A o \in DOMAIN answer[r].objects : \A label \in DOMAIN answer[r].objects[o] :
                   /\ answer[r].objects[o][label].as \in Spellings
                   /\ answer[r].objects[o][label].of \in Nat
  <2>1. answer[r] \in ToSet(answer)
    BY DEF ToSet
  <2>2. \A o \in DOMAIN answer[r].objects : answer[r].objects[o] \in ToSet(answer[r].objects)
    BY DEF ToSet
  <2> QED
    BY <2>1, <2>2, AnswersAssumption
<1>3. IsFiniteSet(runs)
  <2>1. IsFiniteSet(DOMAIN answer)
    BY <1>1, SequenceDomain
  <2> QED
    BY <2>1, FS_Subset
<1>4. ASSUME NEW r \in runs PROVE IsFiniteSet(Places(r))
  <2> DEFINE f == [o \in DOMAIN answer[r].objects |-> <<r, o>>]
  <2>1. answer[r].objects \in Seq(ToSet(answer[r].objects))
    BY <1>2
  <2>2. IsFiniteSet(DOMAIN answer[r].objects)
    BY <2>1, SequenceDomain
  <2>3. IsFiniteSet({f[o] : o \in DOMAIN answer[r].objects})
    BY <2>2, ImageIsFinite
  <2> QED
    BY <2>3
<1>5. ObjectsOf(answer, g) = UNION {Places(r) : r \in runs}
  BY DEF ObjectsOf
<1>6. IsFiniteSet(UNION {Places(r) : r \in runs})
  <2> DEFINE f == [r \in runs |-> Places(r)]
  <2> HIDE DEF runs, Places
  <2>1. DOMAIN f = runs /\ \A r \in runs : f[r] = Places(r)
    OBVIOUS
  <2> HIDE DEF f
  <2>2. IsFiniteSet(UNION {f[r] : r \in runs})
    BY <1>3, <1>4, <2>1, UnionIsFinite
  <2> QED
    BY <2>1, <2>2
<1>7. IsFiniteSet(ObjectsOf(answer, g))
  BY <1>5, <1>6
<1>9. ASSUME NEW p \in ObjectsOf(answer, g), NEW label \in DOMAIN ObjectAt(answer, p)
      PROVE  Normalised(ObjectAt(answer, p)[label]) \in Nat
  <2>1. PICK r \in runs : p \in Places(r)
    BY <1>5
  <2>2. PICK o \in DOMAIN answer[r].objects : p = <<r, o>>
    BY <2>1
  <2>3. ObjectAt(answer, p) = answer[r].objects[o] /\ r \in DOMAIN answer
    BY <2>1, <2>2 DEF ObjectAt
  <2>4. ObjectAt(answer, p)[label].of \in Nat
    BY <1>2, <2>2, <2>3
  <2> QED
    BY <2>4 DEF Normalised, NoUuid
<1> QED
  BY <1>7, <1>9

\* What _host_link_for_group says of an answer.
LEMMA ParsedFacts ==
    ASSUME NEW g \in Groups, NEW answer \in Answers[g], NEW parsed, parsed = ParsedLinks(answer, g)
    PROVE  /\ IsFiniteSet(parsed.uuids) /\ parsed.uuids \subseteq Nat \cap Firmware[g]
           /\ \A u \in parsed.uuids : LooksLikeInstanceUuid(u) => parsed.instanceShaped # {}
<1> DEFINE Uuid(p) == BiosUuid(ObjectAt(answer, p))
           joinable == {p \in ObjectsOf(answer, g) : Uuid(p) # NoUuid}
<1>1. /\ parsed.uuids = {Uuid(p) : p \in joinable}
      /\ parsed.instanceShaped = {p \in joinable : LooksLikeInstanceUuid(Uuid(p))}
  BY DEF ParsedLinks
<1>2. IsFiniteSet(joinable)
  BY PlacesFacts, FS_Subset
<1>3. ASSUME NEW p \in joinable PROVE Uuid(p) \in Nat \cap Firmware[g]
  <2>1. PICK label \in DOMAIN ObjectAt(answer, p) :
          /\ Uuid(p) = Normalised(ObjectAt(answer, p)[label])
          /\ label[2] \notin ToSet(InstanceUuidFields)
    BY BiosUuidIsAField
  <2>2. Normalised(ObjectAt(answer, p)[label]) \in Firmware[g] \cup {NoUuid}
    BY <2>1, FieldsAssumption
  <2> QED
    BY <2>1, <2>2, PlacesFacts
<1> HIDE DEF Uuid
<1>4. IsFiniteSet({Uuid(p) : p \in joinable})
  <2> DEFINE f == [p \in joinable |-> Uuid(p)]
  <2> HIDE DEF joinable
  <2>1. IsFiniteSet({f[p] : p \in joinable})
    BY <1>2, ImageIsFinite
  <2> QED
    BY <2>1
<1> QED
  BY <1>1, <1>3, <1>4

------------------------------------------------------------------------------
(* What a fan-out adds up to. *)

LinkTypes == LinkRotation!TypeOK

LEMMA SelectedFacts ==
    ASSUME ListingInv, LinkTypes, vmware # <<>>
    PROVE  /\ DOMAIN Rotated(vmware, cursor, Budget)
                  = 1..RotationCount(Len(vmware), Budget)
           /\ RotationCount(Len(vmware), Budget) \in Nat
           /\ \A i \in DOMAIN Rotated(vmware, cursor, Budget) :
                 /\ Rotated(vmware, cursor, Budget)[i] \in VMware
                 /\ Rotated(vmware, cursor, Budget)[i] \in ToSet(Rotated(vmware, cursor, Budget))
<1> DEFINE total == Len(vmware)
           count == RotationCount(total, Budget)
           selected == Rotated(vmware, cursor, Budget)
<1>1. vmware \in Seq(VMware) /\ cursor \in Nat
  BY ListingIsAnOrder, LinkRotationAssumption
     DEF LinkTypes, LinkRotation!TypeOK, LinkRotation!IsOrder, LinkRotation!RotationAssumption
<1>2. total \in Nat \ {0}
  BY <1>1
<1>3. count \in Nat
  BY <1>2, LinkRotationAssumption
     DEF LinkRotation!RotationAssumption, RotationCount, AtLeastOne
<1>4. DOMAIN selected = 1..count
  BY DEF Rotated
<1>5. ASSUME NEW i \in 1..count PROVE selected[i] \in VMware
  <2>1. cursor % total \in 0..(total - 1)
    BY <1>1, <1>2, RemainderRange
  <2>2. (cursor % total) + (i - 1) \in Nat
    BY <1>3, <2>1
  <2>3. (((cursor % total) + (i - 1)) % total) \in 0..(total - 1)
    BY <1>2, <2>2, RemainderRange
  <2>4. (((cursor % total) + (i - 1)) % total) + 1 \in 1..total
    BY <1>2, <2>3
  <2> QED
    BY <1>1, <2>4 DEF Rotated
<1> QED
  BY <1>3, <1>4, <1>5 DEF ToSet

\* The first of the links is kept, whatever the cap, and what is kept goes before what is not.
LEMMA KeptFacts ==
    ASSUME NEW found, IsFiniteSet(found), found \subseteq Nat \X Nat
    PROVE  /\ found # {} => KeptLinks(found) # {}
           /\ \A p \in KeptLinks(found), q \in found \ KeptLinks(found) : p[1] <= q[1]
<1> DEFINE Earlier(p) == {q \in found : Before(q, p)}
<1>1. ObjectCap \in Nat \ {0}
  BY SettingsAssumption
<1>2. ASSUME found # {} PROVE KeptLinks(found) # {}
  <2> DEFINE firsts == {p[1] : p \in found}
  <2>1. firsts \in SUBSET Nat /\ firsts # {}
    BY <1>2
  <2> HIDE DEF firsts
  <2>2. PICK i \in firsts : \A j \in firsts : i <= j
    BY <2>1, FirstNumber
  <2> USE DEF firsts
  <2> DEFINE seconds == {p[2] : p \in {q \in found : q[1] = i}}
  <2>3. seconds \in SUBSET Nat /\ seconds # {}
    BY <2>2
  <2> HIDE DEF seconds
  <2>4. PICK u \in seconds : \A v \in seconds : u <= v
    BY <2>3, FirstNumber
  <2> USE DEF seconds
  <2>5. PICK p \in found : p[1] = i /\ p[2] = u
    BY <2>4
  <2>6. Earlier(p) = {}
    <3> SUFFICES ASSUME NEW q \in found, Before(q, p) PROVE FALSE
      OBVIOUS
    <3>1. q[1] \in Nat /\ q[2] \in Nat /\ p[1] \in Nat /\ p[2] \in Nat
      OBVIOUS
    <3>2. i <= q[1]
      BY <2>2
    <3>3. q[1] = i => u <= q[2]
      BY <2>4
    <3> QED
      BY <2>5, <3>1, <3>2, <3>3 DEF Before
  <2>7. Cardinality(Earlier(p)) = 0
    BY <2>6, FS_EmptySet
  <2> QED
    BY <1>1, <2>7 DEF KeptLinks
<1>3. ASSUME NEW p \in KeptLinks(found), NEW q \in found \ KeptLinks(found)
      PROVE  p[1] <= q[1]
  <2> SUFFICES ASSUME ~(p[1] <= q[1]) PROVE FALSE
    OBVIOUS
  <2>1. /\ p \in found /\ Cardinality(Earlier(p)) < ObjectCap
        /\ ~(Cardinality(Earlier(q)) < ObjectCap)
    BY DEF KeptLinks
  <2>2. q[1] < p[1]
    BY <2>1
  <2>3. Earlier(q) \subseteq Earlier(p)
    <3> SUFFICES ASSUME NEW r \in found, Before(r, q) PROVE Before(r, p)
      OBVIOUS
    <3> QED
      BY <2>1, <2>2 DEF Before
  <2>4. IsFiniteSet(Earlier(p)) /\ IsFiniteSet(Earlier(q))
    BY FS_Subset
  <2> HIDE DEF Earlier
  <2>5. Cardinality(Earlier(q)) <= Cardinality(Earlier(p))
    BY <2>3, <2>4, FS_Subset
  <2>6. Cardinality(Earlier(p)) \in Nat /\ Cardinality(Earlier(q)) \in Nat
    BY <2>4, FS_CardinalityType
  <2> QED
    BY <1>1, <2>1, <2>5, <2>6
<1> QED
  BY <1>2, <1>3

Severities == {"INFO", "WARN", "ERROR"}

\* Every link of a fan-out is a VM's of a group selected; where links were cut off there are others;
\* and one that looks like vCenter's was counted as such.
LEMMA FactsFacts ==
    ASSUME ListingInv, LinkTypes, vmware # <<>>,
           NEW answers \in AnswersOf(ToSet(Rotated(vmware, cursor, Budget))),
           NEW facts, facts = FactsOf(Rotated(vmware, cursor, Budget), answers)
    PROVE  /\ facts.vmware = Len(vmware) /\ facts.vmware \in Nat \ {0}
           /\ facts.capped \in BOOLEAN /\ (facts.capped => facts.links # {})
           /\ \A l \in facts.links :
                 /\ l.group \in VMware /\ l.uuid \in Firmware[l.group]
                 /\ LooksLikeInstanceUuid(l.uuid) => facts.instanceShaped # {}
<1> DEFINE selected == Rotated(vmware, cursor, Budget)
           places == DOMAIN selected
           AnswerOf(i) == answers[selected[i]]
           parsed == [i \in {j \in places : AnswerOf(j) # Refused} |->
                         Parsed[selected[i]][AnswerOf(i)]]
           found == FoundLinks(DOMAIN parsed, parsed)
           kept == KeptLinks(found)
           asked == {i \in places : \A p \in found \ kept : i <= p[1]}
           heard == asked \cap DOMAIN parsed
           InAll(part) == UNION {{<<i, p>> : p \in part[i]} : i \in heard}
<1>1. /\ facts.vmware = Len(vmware)
      /\ facts.instanceShaped = InAll([i \in heard |-> parsed[i].instanceShaped])
      /\ facts.links = {[group |-> selected[p[1]], uuid |-> p[2],
                         instance |-> parsed[p[1]].instance[p[2]]] : p \in kept}
      /\ facts.capped = (kept # found)
  BY DEF FactsOf
<1>2. /\ places = 1..RotationCount(Len(vmware), Budget) /\ places \subseteq Nat
      /\ IsFiniteSet(places)
      /\ \A i \in places : selected[i] \in VMware /\ selected[i] \in Groups
      /\ \A i \in places : selected[i] \in ToSet(selected)
  <2>1. /\ places = 1..RotationCount(Len(vmware), Budget)
        /\ RotationCount(Len(vmware), Budget) \in Nat
        /\ \A i \in places : selected[i] \in VMware /\ selected[i] \in ToSet(selected)
    BY SelectedFacts
  <2>2. IsFiniteSet(1..RotationCount(Len(vmware), Budget))
    BY <2>1, FS_Interval
  <2> HIDE DEF selected, places
  <2> QED
    BY <2>1, <2>2, SettingsAssumption
<1>3. ASSUME NEW i \in DOMAIN parsed
      PROVE  /\ i \in places /\ IsFiniteSet(parsed[i].uuids)
             /\ parsed[i].uuids \subseteq Nat \cap Firmware[selected[i]]
             /\ \A u \in parsed[i].uuids :
                   LooksLikeInstanceUuid(u) => parsed[i].instanceShaped # {}
  <2>1. i \in places /\ AnswerOf(i) \in Answers[selected[i]]
    BY <1>2 DEF AnswersOf
  <2>2. parsed[i] = ParsedLinks(AnswerOf(i), selected[i])
    BY <1>2, <2>1 DEF Parsed
  <2> HIDE DEF parsed, AnswerOf, selected
  <2> QED
    BY <1>2, <2>1, <2>2, ParsedFacts
<1>4. IsFiniteSet(DOMAIN parsed)
  BY <1>2, FS_Subset
<1> HIDE DEF parsed, selected, places
<1>5. found \subseteq Nat \X Nat
  BY <1>2, <1>3 DEF FoundLinks
<1>6. IsFiniteSet(found)
  <2> DEFINE Of(i) == {<<i, u>> : u \in parsed[i].uuids}
             f == [i \in DOMAIN parsed |-> Of(i)]
  <2>1. ASSUME NEW i \in DOMAIN parsed PROVE IsFiniteSet(Of(i))
    <3> DEFINE h == [u \in parsed[i].uuids |-> <<i, u>>]
    <3>1. IsFiniteSet({h[u] : u \in parsed[i].uuids})
      BY <1>3, ImageIsFinite
    <3> QED
      BY <3>1
  <2>2. found = UNION {Of(i) : i \in DOMAIN parsed}
    BY DEF FoundLinks
  <2> HIDE DEF Of
  <2>3. IsFiniteSet(UNION {f[i] : i \in DOMAIN parsed})
    BY <1>4, <2>1, UnionIsFinite
  <2> QED
    BY <2>2, <2>3
<1> HIDE DEF found
<1>7. /\ found # {} => kept # {}
      /\ \A p \in kept, q \in found \ kept : p[1] <= q[1]
  BY <1>5, <1>6, KeptFacts
<1>8. kept \subseteq found
  BY DEF KeptLinks
<1> HIDE DEF kept
<1>9. facts.vmware \in Nat \ {0}
  <2>1. vmware \in Seq(VMware)
    BY ListingIsAnOrder DEF LinkRotation!IsOrder
  <2> QED
    BY <1>1, <2>1
<1>10. facts.capped \in BOOLEAN /\ (facts.capped => facts.links # {})
  <2>1. facts.capped => kept # {}
    BY <1>1, <1>7, <1>8
  <2>2. kept # {} => facts.links # {}
    BY <1>1
  <2> QED
    BY <1>1, <2>1, <2>2
<1>11. ASSUME NEW l \in facts.links
       PROVE  /\ l.group \in VMware /\ l.uuid \in Firmware[l.group]
              /\ LooksLikeInstanceUuid(l.uuid) => facts.instanceShaped # {}
  <2>1. PICK p \in kept : l.group = selected[p[1]] /\ l.uuid = p[2]
    BY <1>1
  <2>6. PICK i \in DOMAIN parsed : p \in {<<i, v>> : v \in parsed[i].uuids}
    BY <1>8, <2>1 DEF found, FoundLinks
  <2>2. PICK u \in parsed[i].uuids : p = <<i, u>>
    BY <2>6
  <2>3. l.group = selected[i] /\ l.uuid = u /\ i \in places
    BY <1>3, <2>1, <2>2
  <2>4. i \in heard
    BY <1>7, <2>1, <2>2, <2>3
  <2>5. LooksLikeInstanceUuid(u) => facts.instanceShaped # {}
    <3> SUFFICES ASSUME LooksLikeInstanceUuid(u) PROVE facts.instanceShaped # {}
      OBVIOUS
    <3>1. PICK place : place \in parsed[i].instanceShaped
      BY <1>3
    <3>2. <<i, place>> \in InAll([j \in heard |-> parsed[j].instanceShaped])
      BY <2>4, <3>1
    <3> QED
      BY <1>1, <3>2
  <2> QED
    BY <1>2, <1>3, <2>3, <2>5
<1> QED
  BY <1>1, <1>9, <1>10, <1>11

------------------------------------------------------------------------------
(* The diagnostics and the pairs. *)

TellInv ==
    /\ told \in [Markers -> {""} \cup Severities]
    /\ told["capped"] \in {"", "WARN"}

LinkInv ==
    /\ mode \in {"live", "off", "replay"}
    /\ TellInv
    /\ \A l \in links : l.group \in VMware /\ l.uuid \in Firmware[l.group]
    /\ TruncationIsTold
    /\ SuspicionIsTold

\* What a poll may report.
Reports == {e \in Markers \X Severities : e[1] = "capped" => e[2] = "WARN"}

\* Whatever is reported is told afterwards, and nothing told is unsaid.
LEMMA TellFacts ==
    ASSUME TellInv, NEW events \in SUBSET Reports, Tell(events)
    PROVE  /\ TellInv'
           /\ \A m \in Markers : told[m] # "" => told'[m] = told[m]
           /\ \A e \in events : told'[e[1]] # ""
<1> DEFINE Of(m) == {e \in events : e[1] = m}
           First(m) == CHOOSE e \in events : e[1] = m
<1>1. told' = [m \in Markers |->
                IF told[m] = "" /\ \E e \in events : e[1] = m THEN First(m)[2] ELSE told[m]]
  BY DEF Tell
<1>2. ASSUME NEW m \in Markers, \E e \in events : e[1] = m
      PROVE  First(m) \in events /\ First(m)[1] = m
  BY <1>2
<1>3. ASSUME NEW m \in Markers, \E e \in events : e[1] = m
      PROVE  First(m)[2] \in Severities /\ (m = "capped" => First(m)[2] = "WARN")
  BY <1>2, <1>3 DEF Reports
<1> HIDE DEF First
<1>4. ASSUME NEW m \in Markers
      PROVE  /\ told'[m] \in {""} \cup Severities
             /\ told[m] # "" => told'[m] = told[m]
             /\ (\E e \in events : e[1] = m) => told'[m] # ""
             /\ m = "capped" => told'[m] \in {"", "WARN"}
  <2>1. told[m] \in {""} \cup Severities /\ (m = "capped" => told[m] \in {"", "WARN"})
    BY DEF TellInv
  <2>2. CASE told[m] = "" /\ \E e \in events : e[1] = m
    <3>1. told'[m] = First(m)[2]
      BY <1>1, <2>2
    <3> QED
      BY <1>3, <2>2, <3>1 DEF Severities
  <2>3. CASE ~(told[m] = "" /\ \E e \in events : e[1] = m)
    <3>1. told'[m] = told[m]
      BY <1>1, <2>3
    <3> QED
      BY <2>1, <2>3, <3>1
  <2> QED
    BY <2>2, <2>3
<1>5. TellInv'
  <2>1. told' = [m \in Markers |-> told'[m]]
    BY <1>1
  <2>2. "capped" \in Markers
    BY DEF Markers
  <2> QED
    BY <1>4, <2>1, <2>2 DEF TellInv
<1>6. \A e \in events : e[1] \in Markers
  BY DEF Reports
<1> QED
  BY <1>4, <1>5, <1>6

LEMMA ProbeReports ==
    ASSUME NEW events \in ProbeEvents
    PROVE  events \in SUBSET Reports
<1>1. \A severity \in ProbeSeverities : severity \in Severities
  BY DEF ProbeSeverities, ProbeSeverity, Severities
<1> HIDE DEF ProbeSeverities
<1> QED
  BY <1>1 DEF ProbeEvents, Reports, Markers

\* What a fan-out reports names what was cut off, and a doubt about a uuid goes beside it.
LEMMA FanoutReports ==
    ASSUME NEW facts,
           facts.vmware \in Nat \ {0},
           facts.capped \in BOOLEAN, facts.capped => facts.links # {}
    PROVE  /\ Events(facts) \in SUBSET Reports
           /\ facts.capped => <<"capped", "WARN">> \in Events(facts)
           /\ facts.instanceShaped # {} =>
                 \E e \in Events(facts) : e[1] = "instance_shaped"
<1>1. OutcomeSeverity(facts) \in Severities /\ SuspectSeverity(facts) \in Severities
  BY DEF OutcomeSeverity, SuspectSeverity, Severities
<1>2. facts.capped => OutcomeSeverity(facts) = "WARN" /\ Marker(facts) = "capped"
  BY DEF OutcomeSeverity, Marker
<1>3. Marker(facts) \in Markers /\ (Marker(facts) = "capped" => facts.capped)
  BY DEF Marker, Markers
<1>4. "instance_shaped" \in Markers /\ "instance_shaped" # "capped"
  BY DEF Markers
<1> HIDE DEF OutcomeSeverity
<1>5. <<Marker(facts), OutcomeSeverity(facts)>> \in Events(facts)
  BY DEF Events
<1>6. facts.instanceShaped # {} => <<"instance_shaped", SuspectSeverity(facts)>> \in Events(facts)
  BY DEF Events
<1>7. Events(facts) \in SUBSET Reports
  BY <1>1, <1>2, <1>3, <1>4 DEF Events, Reports
<1> QED
  BY <1>2, <1>5, <1>6, <1>7

\* A poll that only reports leaves the diagnostics as they should be.
LEMMA TellKeeps ==
    ASSUME LinkInv, NEW events \in SUBSET Reports, Tell(events),
           links' = {}, UNCHANGED <<mode, historyVars>>
    PROVE  LinkInv'
<1>1. /\ TellInv'
      /\ \A m \in Markers : told[m] # "" => told'[m] = told[m]
  BY TellFacts DEF LinkInv
<1>2. "capped" \in Markers /\ "instance_shaped" \in Markers
  BY DEF Markers
<1> QED
  BY <1>1, <1>2 DEF LinkInv, TruncationIsTold, SuspicionIsTold, historyVars

LEMMA PollAsksKeeps ==
    ASSUME LinkInv, ListingInv, LinkTypes, PollAsks
    PROVE  LinkInv'
<1> DEFINE selected == Rotated(vmware, cursor, Budget)
<1>1. vmware # <<>> /\ mode' = mode
  BY DEF PollAsks
<1>2. PICK answers \in AnswersOf(ToSet(selected)), events \in ProbeEvents :
          LET facts == FactsOf(selected, answers)
          IN  /\ Tell(events \cup Events(facts))
              /\ links' = Published(facts.links)
              /\ cut' = (cut \/ facts.capped)
              /\ suspect' = (suspect \/ \E l \in links' : LooksLikeInstanceUuid(l.uuid))
  BY DEF PollAsks
<1> DEFINE facts == FactsOf(selected, answers)
<1>3. /\ facts.vmware \in Nat \ {0}
      /\ facts.capped \in BOOLEAN /\ (facts.capped => facts.links # {})
      /\ \A l \in facts.links :
            /\ l.group \in VMware /\ l.uuid \in Firmware[l.group]
            /\ LooksLikeInstanceUuid(l.uuid) => facts.instanceShaped # {}
  BY <1>1, FactsFacts
<1>4. /\ Tell(events \cup Events(facts))
      /\ links' \subseteq facts.links
      /\ cut' = (cut \/ facts.capped)
      /\ suspect' = (suspect \/ \E l \in links' : LooksLikeInstanceUuid(l.uuid))
  BY <1>2 DEF Published
<1> HIDE DEF facts
<1>5. /\ Events(facts) \in SUBSET Reports
      /\ facts.capped => <<"capped", "WARN">> \in Events(facts)
      /\ facts.instanceShaped # {} => \E e \in Events(facts) : e[1] = "instance_shaped"
  BY <1>3, FanoutReports
<1>6. events \cup Events(facts) \in SUBSET Reports
  BY <1>5, ProbeReports
<1>7. /\ TellInv'
      /\ \A m \in Markers : told[m] # "" => told'[m] = told[m]
      /\ \A e \in events \cup Events(facts) : told'[e[1]] # ""
  BY <1>4, <1>6, TellFacts DEF LinkInv
<1>8. "capped" \in Markers /\ "instance_shaped" \in Markers
  BY DEF Markers
<1>9. TruncationIsTold'
  <2>1. CASE cut
    BY <1>7, <1>8, <2>1 DEF LinkInv, TruncationIsTold
  <2>2. CASE facts.capped
    <3>1. told'[<<"capped", "WARN">>[1]] # ""
      BY <1>5, <1>7, <2>2
    <3> QED
      BY <1>7, <3>1 DEF TruncationIsTold, TellInv, Severities
  <2>3. CASE ~cut /\ ~facts.capped
    BY <1>4, <2>3 DEF TruncationIsTold
  <2> QED
    BY <2>1, <2>2, <2>3
<1>10. SuspicionIsTold'
  <2>1. CASE suspect
    BY <1>7, <1>8, <2>1 DEF LinkInv, SuspicionIsTold
  <2>2. CASE \E l \in links' : LooksLikeInstanceUuid(l.uuid)
    <3>1. facts.instanceShaped # {}
      BY <1>3, <1>4, <2>2
    <3> QED
      BY <1>5, <1>7, <3>1 DEF SuspicionIsTold
  <2>3. CASE ~suspect /\ ~\E l \in links' : LooksLikeInstanceUuid(l.uuid)
    BY <1>4, <2>3 DEF SuspicionIsTold
  <2> QED
    BY <2>1, <2>2, <2>3
<1> QED
  BY <1>1, <1>3, <1>4, <1>7, <1>9, <1>10 DEF LinkInv

LEMMA StepKeepsLinks ==
    ASSUME LinkInv, ListingInv, LinkTypes, [Next]_vars
    PROVE  LinkInv'
<1>1. CASE PollAsks
  BY <1>1, PollAsksKeeps
<1>2. CASE PollRaises
  <2>1. PICK events \in ProbeEvents : Tell(events \cup {<<"error", ErrorSeverity>>})
    BY <1>2 DEF PollRaises
  <2>2. events \cup {<<"error", ErrorSeverity>>} \in SUBSET Reports
    BY ProbeReports DEF Reports, Markers, Severities, ErrorSeverity
  <2> QED
    BY <1>2, <2>1, <2>2, TellKeeps DEF PollRaises
<1>3. CASE PollFindsNone
  <2>1. PICK events \in ProbeEvents : Tell(events \cup {<<"none", OutcomeSeverity(NoFacts)>>})
    BY <1>3 DEF PollFindsNone
  <2>2. OutcomeSeverity(NoFacts) = "INFO"
    BY DEF OutcomeSeverity, NoFacts
  <2>3. events \cup {<<"none", OutcomeSeverity(NoFacts)>>} \in SUBSET Reports
    BY <2>2, ProbeReports DEF Reports, Markers, Severities
  <2> QED
    BY <1>3, <2>1, <2>3, TellKeeps DEF PollFindsNone
<1>4. CASE PollWithoutLinks
  <2>1. PICK events \in ProbeEvents : Tell(events)
    BY <1>4 DEF PollWithoutLinks
  <2> QED
    BY <1>4, <2>1, ProbeReports, TellKeeps DEF PollWithoutLinks
<1>5. CASE Restart
  <2>1. /\ mode' \in {"live", "off", "replay"} /\ told' = [m \in Markers |-> ""]
        /\ links' = {} /\ cut' = FALSE /\ suspect' = FALSE
    BY <1>5 DEF Restart
  <2>2. "capped" \in Markers
    BY DEF Markers
  <2> QED
    BY <2>1, <2>2 DEF LinkInv, TellInv, TruncationIsTold, SuspicionIsTold
<1>6. CASE (\E list \in Inventories : Relist(list)) \/ UNCHANGED vars
  <2>1. UNCHANGED <<mode, told, links, cut, suspect>>
    BY <1>6 DEF Relist, vars, historyVars
  <2> QED
    BY <2>1 DEF LinkInv, TellInv, TruncationIsTold, SuspicionIsTold
<1> QED
  BY <1>1, <1>2, <1>3, <1>4, <1>5, <1>6 DEF Next, Poll

LEMMA LinkInvHolds == Spec => []LinkInv
<1>1. Init => LinkInv
  <2> SUFFICES ASSUME Init PROVE LinkInv
    OBVIOUS
  <2>1. /\ mode = "live" /\ told = [m \in Markers |-> ""]
        /\ links = {} /\ cut = FALSE /\ suspect = FALSE
    BY DEF Init, ClientStarts
  <2>2. "capped" \in Markers
    BY DEF Markers
  <2> QED
    BY <2>1, <2>2 DEF LinkInv, TellInv, TruncationIsTold, SuspicionIsTold
<1>2. LinkInv /\ ListingInv /\ LinkTypes /\ [Next]_vars => LinkInv'
  BY StepKeepsLinks
<1>3. Init => ListingInv
  BY InitMaps
<1>4. ListingInv /\ [Next]_vars => ListingInv'
  BY StepMaps
<1>5. Spec => []LinkTypes
  BY RotationTypes DEF LinkTypes
<1> QED
  BY <1>1, <1>2, <1>3, <1>4, <1>5, PTL DEF Spec

\* No wrong edge: whatever order the fields come in, and whatever vCenter and Cohesity call the VM
\* beside, the pairs published for a group carry BIOS uuids of VMs it protects.
THEOREM EdgesAreJoinable == Spec => []JoinableOnly
<1>1. LinkInv => JoinableOnly
  BY DEF LinkInv, JoinableOnly
<1> QED
  BY <1>1, LinkInvHolds, PTL

\* Whatever the object cap has kept back, in any poll of a client's life and beside any other
\* outcome, the client has told it and told it as a warning.
THEOREM EveryTruncationIsTold == Spec => []TruncationIsTold
<1>1. LinkInv => TruncationIsTold
  BY DEF LinkInv
<1> QED
  BY <1>1, LinkInvHolds, PTL

\* A client that has published a uuid of vCenter's shape has told the doubt about it.
THEOREM EverySuspicionIsTold == Spec => []SuspicionIsTold
<1>1. LinkInv => SuspicionIsTold
  BY DEF LinkInv
<1> QED
  BY <1>1, LinkInvHolds, PTL

\* The position is one of the rotation's, pairs are of VMware groups, and a marker is reported under
\* one of the severities.
THEOREM HostLinkTypeCorrect == Spec => []TypeOK
<1>1. Init => ProbeInv
  BY InitHasNotProbed
<1>2. ProbeInv /\ [Next]_vars => ProbeInv'
  BY StepKeepsCount
<1>3. LinkTypes /\ LinkInv /\ ProbeInv => TypeOK
  <2>1. {""} \cup Severities = {"", "INFO", "WARN", "ERROR"}
    BY DEF Severities
  <2>2. ProbeInv => probes \in 0..2
    BY DEF ProbeInv
  <2>3. LinkInv => /\ mode \in {"live", "off", "replay"}
                   /\ told \in [Markers -> {"", "INFO", "WARN", "ERROR"}]
                   /\ \A l \in links : l.group \in VMware
    BY <2>1 DEF LinkInv, TellInv
  <2> QED
    BY <2>2, <2>3 DEF LinkTypes, TypeOK
<1>4. Spec => []LinkTypes
  BY RotationTypes DEF LinkTypes
<1> QED
  BY <1>1, <1>2, <1>3, <1>4, LinkInvHolds, PTL DEF Spec

==============================================================================
