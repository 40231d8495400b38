---------------------------- MODULE Scheduler_proofs ----------------------------
(***************************************************************************)
(* Proofs about Scheduler, for any configurations, tick, tolerance and     *)
(* delays.                                                                 *)
(*                                                                         *)
(* What is behind them: the places a query has still to poll are places of *)
(* the configuration it read, and their keys were stamped when it began.   *)
(***************************************************************************)
EXTENDS Scheduler, WellFoundedInduction, TLAPS

\* A set of natural numbers, places or times, has a first one.
LEMMA FirstPlace ==
    ASSUME NEW numbers \in SUBSET Nat, numbers # {}
    PROVE  \E i \in numbers : \A j \in numbers : i <= j
<1> DEFINE Before == OpToRel(<, Nat)
<1>1. IsWellFoundedOn(Before, Nat)
  BY NatLessThanWellFounded
<1>2. \A i, j \in Nat : <<j, i>> \in Before <=> j < i
  BY DEF OpToRel
<1> HIDE DEF Before
<1>3. PICK i \in numbers : \A j \in numbers : <<j, i>> \notin Before
  BY <1>1, WFMin
<1>4. ASSUME NEW j \in numbers PROVE i <= j
  <2>1. i \in Nat /\ j \in Nat
    OBVIOUS
  <2>2. <<j, i>> \notin Before
    BY <1>3
  <2>3. ~(j < i)
    BY <1>2, <2>1, <2>2
  <2> QED
    BY <2>1, <2>3
<1> QED
  BY <1>4

LEMMA LastOfBounded ==
    ASSUME NEW bound \in Nat, NEW numbers \in SUBSET (0..bound), numbers # {}
    PROVE  \E n \in numbers : \A other \in numbers : other <= n
<1> DEFINE below == {bound - n : n \in numbers}
<1>1. below \in SUBSET Nat /\ below # {}
  <2>1. \A n \in numbers : bound - n \in Nat
    OBVIOUS
  <2> QED
    BY <2>1
<1> HIDE DEF below
<1>2. PICK b \in below : \A other \in below : b <= other
  BY <1>1, FirstPlace
<1> USE DEF below
<1>3. PICK n \in numbers : b = bound - n
  BY <1>2
<1>4. ASSUME NEW other \in numbers PROVE other <= n
  <2>1. bound - other \in below
    OBVIOUS
  <2>2. bound - n <= bound - other
    BY <1>2, <1>3, <2>1
  <2> QED
    BY <2>2
<1> QED
  BY <1>4

\* What is loaded is what parses, and what parses has an interval of at least a minute.
LEMMA EntryFacts ==
    ASSUME NEW c \in Configurations, NEW e \in EntriesOf(c)
    PROVE  e.minutes \in 1..Maximum.intervalMinutes
<1>1. Loaded[c] = [i \in GoodPlaces(c) |-> FromDict(c[i], i)]
  BY DEF Loaded, LoadClusters
<1>2. PICK i \in GoodPlaces(c) : e = FromDict(c[i], i)
  BY <1>1 DEF EntriesOf
<1>3. Parses(c[i])
  BY DEF GoodPlaces
<1>4. InRange(Numbers(c[i])["intervalMinutes"], "intervalMinutes")
  BY <1>3 DEF Parses, NumberProps
<1> QED
  BY <1>2, <1>4 DEF FromDict, InRange

LEMMA ProductFacts ==
    ASSUME NEW m \in 1..1440, NEW t \in Nat
    PROVE  m * t \in t..(1440 * t)
<1>1. m * t \in Nat /\ (m - 1) * t \in Nat /\ (1440 - m) * t \in Nat
  BY SMTT(30)
<1>2. m * t = t + (m - 1) * t /\ 1440 * t = m * t + (1440 - m) * t
  BY SMTT(30)
<1> QED
  BY <1>1, <1>2

LEMMA IntervalFacts ==
    ASSUME NEW c \in Configurations, NEW e \in EntriesOf(c)
    PROVE  /\ e.minutes \in Nat \ {0}
           /\ Interval(e) \in TickEvery..(1440 * TickEvery)
<1>1. e.minutes \in 1..1440
  BY EntryFacts DEF Maximum
<1>2. TickEvery \in Nat
  BY TimesAssumption
<1> DEFINE m == e.minutes
<1>3. m \in 1..1440
  BY <1>1
<1> HIDE DEF m
<1>4. m * TickEvery \in TickEvery..(1440 * TickEvery)
  BY <1>2, <1>3, ProductFacts
<1>5. m \in Nat \ {0}
  BY <1>3
<1>6. Interval(e) = m * TickEvery
  BY DEF Interval, m
<1> QED
  BY <1>4, <1>5, <1>6 DEF m

LEMMA SlowestIsSlowest ==
    /\ Slowest \in Nat
    /\ \A c \in Configurations : \A e \in EntriesOf(c) : Interval(e) <= Slowest
<1> DEFINE entries == UNION {EntriesOf(c) : c \in Configurations}
           top == 1440 * TickEvery
           intervals == {Interval(e) : e \in entries} \cup {0}
<1>1. top \in Nat
  BY TimesAssumption
<1>2. \A e \in entries : Interval(e) \in 0..top
  BY <1>1, IntervalFacts, TimesAssumption
<1>3. intervals \in SUBSET (0..top) /\ intervals # {}
  BY <1>1, <1>2
<1>4. Slowest = CHOOSE n \in intervals : \A other \in intervals : other <= n
  BY DEF Slowest
<1>5. \A c \in Configurations : \A e \in EntriesOf(c) : Interval(e) \in intervals
  OBVIOUS
<1> HIDE DEF top, intervals
<1>6. \E n \in intervals : \A other \in intervals : other <= n
  BY <1>1, <1>3, LastOfBounded
<1>7. Slowest \in intervals /\ \A other \in intervals : other <= Slowest
  BY <1>4, <1>6
<1>8. Slowest \in Nat
  BY <1>3, <1>7
<1> QED
  BY <1>5, <1>7, <1>8

LEMMA HorizonIsNatural ==
    /\ Horizon \in Nat \ {0} /\ Never = Horizon + 1 /\ Never \notin 0..Horizon
    /\ MaxQuery \in Nat /\ TickEvery \in Nat \ {0}
  BY SlowestIsSlowest, TimesAssumption DEF Horizon, Slack, Never

\* The places of a configuration are places, and their keys are among the keys.
LEMMA LoadedFacts ==
    ASSUME NEW c \in Configurations
    PROVE  /\ DOMAIN Loaded[c] \subseteq Nat
           /\ \A i \in DOMAIN Loaded[c] : Loaded[c][i].key \in LiveKeys(c)
           /\ LiveKeys(c) \subseteq Keys
<1>1. Loaded[c] = [i \in GoodPlaces(c) |-> FromDict(c[i], i)]
  BY DEF Loaded, LoadClusters
<1>2. DOMAIN Loaded[c] = GoodPlaces(c)
  BY <1>1
<1>3. GoodPlaces(c) \subseteq Nat
  BY DEF GoodPlaces
<1>4. \A i \in DOMAIN Loaded[c] : Loaded[c][i].key \in LiveKeys(c)
  BY DEF LiveKeys, EntriesOf
<1>5. LiveKeys(c) \subseteq Keys
  BY DEF Keys
<1> QED
  BY <1>2, <1>3, <1>4, <1>5

\* An endpoint that can be polled as it is written is polled under its own key.
LEMMA GoodEndpointIsLive ==
    ASSUME NEW c \in Configurations, NEW i \in DOMAIN c, Parses(c[i])
    PROVE  KeyOf(c[i], i) \in LiveKeys(c)
<1>1. DOMAIN c = 1..Len(c)
  BY ConfigurationsAssumption
<1>2. i \in GoodPlaces(c)
  BY <1>1 DEF GoodPlaces
<1>3. Loaded[c] = [j \in GoodPlaces(c) |-> FromDict(c[j], j)]
  BY DEF Loaded, LoadClusters
<1>4. i \in DOMAIN Loaded[c] /\ Loaded[c][i] = FromDict(c[i], i)
  BY <1>2, <1>3
<1>5. FromDict(c[i], i).key = KeyOf(c[i], i)
  BY DEF FromDict
<1> QED
  BY <1>4, <1>5, LoadedFacts

LEMMA LaterFacts ==
    ASSUME NEW t \in 0..Horizon \cup {Never}
    PROVE  /\ Later(t) \in 0..Horizon \cup {Never}
           /\ Later(t) = Never <=> t = Never
           /\ t # Never => Later(t) \in 0..Horizon
  BY HorizonIsNatural DEF Later

------------------------------------------------------------------------------
(* The invariant. *)

\* What is left to poll was stamped by the query that is to poll it.
LeftIsStamped == \A i \in left : Loaded[polling][i].key \in Stamped /\ polling \in Configurations

SchedulerInv == TypeOK /\ ForgottenWhole /\ PolledOncePerQuery /\ LeftIsStamped

LEMMA SchedulerInit == Init => SchedulerInv
<1> SUFFICES ASSUME Init PROVE SchedulerInv
  OBVIOUS
<1>1. /\ conf \in Configurations /\ clients = {} /\ polling = <<>> /\ left = {}
      /\ clock = 0 /\ called = FALSE /\ spent = 0
      /\ lastRun = [k \in Keys |-> Never] /\ open = [k \in Keys |-> 0]
      /\ waited = [k \in Keys |-> 0]
  BY DEF Init
<1>2. 0 \in 0..Horizon /\ 0 \in 0..(TickEvery - 1) /\ 0 \in 0..MaxQuery /\ 0 \in Nat
  BY HorizonIsNatural
<1>3. /\ lastRun \in [Keys -> 0..Horizon \cup {Never}] /\ open \in [Keys -> Nat]
      /\ waited \in [Keys -> 0..Horizon]
  BY <1>1, <1>2
<1>4. TypeOK
  BY <1>1, <1>2, <1>3 DEF TypeOK
<1>5. Stamped = {}
  BY <1>1 DEF Stamped
<1>6. ForgottenWhole
  BY <1>1, <1>5 DEF ForgottenWhole
<1> QED
  BY <1>1, <1>4, <1>6 DEF SchedulerInv, PolledOncePerQuery, LeftIsStamped

LEMMA ReconfigureStays ==
    ASSUME SchedulerInv, NEW c \in Configurations, Reconfigure(c)
    PROVE  SchedulerInv'
<1>1. /\ conf' = c
      /\ UNCHANGED <<lastRun, clients, open, polling, left, spent, clock, called>>
  BY DEF Reconfigure, stateVars, queryVars, timeVars
<1>2. waited' \in [Keys -> 0..Horizon]
  <2>1. 0 \in 0..Horizon /\ waited \in [Keys -> 0..Horizon]
    BY HorizonIsNatural DEF SchedulerInv, TypeOK
  <2> QED
    BY <2>1 DEF Reconfigure
<1>3. TypeOK'
  BY <1>1, <1>2 DEF SchedulerInv, TypeOK
<1>4. ForgottenWhole' /\ PolledOncePerQuery' /\ LeftIsStamped'
  BY <1>1 DEF SchedulerInv, ForgottenWhole, Stamped, PolledOncePerQuery, LeftIsStamped
<1> QED
  BY <1>3, <1>4 DEF SchedulerInv

LEMMA TickStays ==
    ASSUME SchedulerInv, Tick
    PROVE  SchedulerInv'
<1>1. /\ UNCHANGED <<conf, clients, open, polling, left>>
      /\ lastRun' = [k \in Keys |-> Later(lastRun[k])]
      /\ waited' = [k \in Keys |-> IF k \in LiveKeys(conf) THEN Later(waited[k]) ELSE 0]
      /\ clock' = (clock + 1) % TickEvery
      /\ spent' = IF Idle THEN 0 ELSE spent + 1
      /\ ~Idle => spent < MaxQuery
  BY DEF Tick
<1>2. called' \in BOOLEAN
  BY DEF Tick, SchedulerInv, TypeOK
<1>3. /\ lastRun \in [Keys -> 0..Horizon \cup {Never}] /\ waited \in [Keys -> 0..Horizon]
      /\ clock \in 0..(TickEvery - 1) /\ spent \in 0..MaxQuery
  BY DEF SchedulerInv, TypeOK
<1>4. /\ lastRun' \in [Keys -> 0..Horizon \cup {Never}]
      /\ \A k \in Keys : lastRun'[k] = Never <=> lastRun[k] = Never
  BY <1>1, <1>3, LaterFacts
<1>5. waited' \in [Keys -> 0..Horizon]
  <2> SUFFICES ASSUME NEW k \in Keys
               PROVE  (IF k \in LiveKeys(conf) THEN Later(waited[k]) ELSE 0) \in 0..Horizon
    BY <1>1
  <2>1. waited[k] # Never /\ waited[k] \in 0..Horizon \cup {Never}
    BY <1>3, HorizonIsNatural
  <2> QED
    BY <2>1, LaterFacts, HorizonIsNatural
<1>6. clock' \in 0..(TickEvery - 1)
  <2>1. clock + 1 \in Nat
    BY <1>3, HorizonIsNatural
  <2> QED
    BY <1>1, <2>1, HorizonIsNatural
<1>7. spent' \in 0..MaxQuery
  BY <1>1, <1>3, HorizonIsNatural
<1>8. TypeOK'
  BY <1>1, <1>2, <1>4, <1>5, <1>6, <1>7 DEF SchedulerInv, TypeOK
<1>9. Stamped' = Stamped
  BY <1>4 DEF Stamped
<1>10. ForgottenWhole' /\ PolledOncePerQuery' /\ LeftIsStamped'
  BY <1>1, <1>9 DEF SchedulerInv, ForgottenWhole, PolledOncePerQuery, LeftIsStamped
<1> QED
  BY <1>8, <1>10 DEF SchedulerInv

\* Of two places with the same key the later one is not due, or the earlier one is not.
LEMMA DueOnce ==
    ASSUME conf \in Configurations
    PROVE  \A i, j \in DuePositions : Loaded[conf][i].key = Loaded[conf][j].key => i = j
<1> SUFFICES ASSUME NEW i \in DuePositions, NEW j \in DuePositions,
                    Loaded[conf][i].key = Loaded[conf][j].key
             PROVE  i = j
  OBVIOUS
<1>1. i \in Nat /\ j \in Nat
  BY LoadedFacts DEF DuePositions
<1>2. ~(i < j) /\ ~(j < i)
  BY DEF DuePositions
<1> QED
  BY <1>1, <1>2

LEMMA QueryStays ==
    ASSUME SchedulerInv, Query
    PROVE  SchedulerInv'
<1> DEFINE Due(k) == \E i \in DuePositions : Loaded[conf][i].key = k
<1>1. /\ called' = TRUE /\ polling' = conf /\ left' = DuePositions /\ spent' = 0
      /\ lastRun' = [k \in Keys |-> IF k \notin LiveKeys(conf) THEN Never
                                    ELSE IF Due(k) THEN 0 ELSE lastRun[k]]
      /\ clients' = clients \cap LiveKeys(conf)
      /\ open' = [k \in Keys |-> IF k \in clients \ LiveKeys(conf) THEN open[k] - 1 ELSE open[k]]
      /\ UNCHANGED <<conf, clock, waited>>
  BY DEF Query
<1>2. /\ conf \in Configurations /\ clients \subseteq Keys
      /\ lastRun \in [Keys -> 0..Horizon \cup {Never}]
  BY DEF SchedulerInv, TypeOK
<1>3. /\ DuePositions \subseteq DOMAIN Loaded[conf]
      /\ \A i \in DuePositions : Loaded[conf][i].key \in LiveKeys(conf)
      /\ LiveKeys(conf) \subseteq Keys
  BY <1>2, LoadedFacts DEF DuePositions
<1>4. 0 \in 0..Horizon /\ 0 # Never /\ 0 \in 0..MaxQuery
  BY HorizonIsNatural
<1> HIDE DEF Due
<1>5. /\ lastRun' \in [Keys -> 0..Horizon \cup {Never}]
      /\ \A k \in Keys : lastRun'[k] # Never <=>
            k \in LiveKeys(conf) /\ (Due(k) \/ lastRun[k] # Never)
  BY <1>1, <1>2, <1>4
<1>6. open' = [k \in Keys |-> IF k \in clients' THEN 1 ELSE 0]
  <2>1. \A k \in Keys : open[k] = IF k \in clients THEN 1 ELSE 0
    BY DEF SchedulerInv, ForgottenWhole
  <2> QED
    BY <1>1, <2>1
<1>7. open' \in [Keys -> Nat]
  BY <1>6
<1>8. TypeOK'
  BY <1>1, <1>2, <1>3, <1>4, <1>5, <1>7 DEF SchedulerInv, TypeOK
<1>9. ForgottenWhole'
  <2>1. Stamped' \subseteq LiveKeys(conf)
    BY <1>5 DEF Stamped
  <2>2. clients' \subseteq Stamped'
    BY <1>1, <1>2, <1>5 DEF Stamped, SchedulerInv, ForgottenWhole
  <2>3. \A k \in Keys : open'[k] = IF k \in clients' THEN 1 ELSE 0
    BY <1>6
  <2> QED
    BY <1>1, <2>1, <2>2, <2>3 DEF ForgottenWhole
<1>10. PolledOncePerQuery'
  BY <1>1, <1>2, DueOnce DEF PolledOncePerQuery
<1>11. LeftIsStamped'
  <2> SUFFICES ASSUME NEW i \in DuePositions
               PROVE  Loaded[conf][i].key \in Stamped' /\ conf \in Configurations
    BY <1>1 DEF LeftIsStamped
  <2>1. Loaded[conf][i].key \in LiveKeys(conf) /\ Loaded[conf][i].key \in Keys
    BY <1>3
  <2>2. Due(Loaded[conf][i].key)
    BY DEF Due
  <2> QED
    BY <1>2, <1>5, <2>1, <2>2 DEF Stamped
<1> QED
  BY <1>8, <1>9, <1>10, <1>11 DEF SchedulerInv

LEMMA NextUpIsLeft ==
    ASSUME SchedulerInv, ~Idle
    PROVE  NextUp \in left
<1>1. left # {} /\ polling \in Configurations
  BY DEF Idle, SchedulerInv, LeftIsStamped
<1>2. left \in SUBSET Nat
  BY <1>1, LoadedFacts DEF SchedulerInv, TypeOK
<1> QED
  BY <1>1, <1>2, FirstPlace DEF NextUp

LEMMA PollStays ==
    ASSUME SchedulerInv, Poll
    PROVE  SchedulerInv'
<1> DEFINE k == Loaded[polling][NextUp].key
<1>1. /\ ~Idle /\ clients' = clients \cup {k}
      /\ open' = IF k \in clients THEN open ELSE [open EXCEPT ![k] = @ + 1]
      /\ waited' = [waited EXCEPT ![k] = 0]
      /\ left' = left \ {NextUp}
      /\ UNCHANGED <<conf, lastRun, polling, spent, clock, called>>
  BY DEF Poll, timeVars
<1>2. NextUp \in left
  BY <1>1, NextUpIsLeft
<1>3. k \in Stamped /\ k \in Keys
  BY <1>2 DEF SchedulerInv, LeftIsStamped, Stamped
<1> HIDE DEF k
<1>4. 0 \in 0..Horizon
  BY HorizonIsNatural
<1>5. /\ waited \in [Keys -> 0..Horizon] /\ open \in [Keys -> Nat]
      /\ \A other \in Keys : open[other] = IF other \in clients THEN 1 ELSE 0
  BY DEF SchedulerInv, TypeOK, ForgottenWhole
<1>6. waited' \in [Keys -> 0..Horizon]
  BY <1>1, <1>4, <1>5
<1>7. /\ open' \in [Keys -> Nat]
      /\ \A other \in Keys : open'[other] = IF other \in clients' THEN 1 ELSE 0
  BY <1>1, <1>3, <1>5
<1>8. TypeOK'
  BY <1>1, <1>3, <1>6, <1>7 DEF SchedulerInv, TypeOK
<1>9. Stamped' = Stamped
  BY <1>1 DEF Stamped
<1>10. ForgottenWhole'
  BY <1>1, <1>3, <1>7, <1>9 DEF SchedulerInv, ForgottenWhole
<1>11. PolledOncePerQuery' /\ LeftIsStamped'
  BY <1>1, <1>9 DEF SchedulerInv, PolledOncePerQuery, LeftIsStamped
<1> QED
  BY <1>8, <1>10, <1>11 DEF SchedulerInv

LEMMA BuildFailsStays ==
    ASSUME SchedulerInv, BuildFails
    PROVE  SchedulerInv'
<1>1. left' = {} /\ UNCHANGED <<conf, waited, lastRun, clients, open, polling, spent, clock, called>>
  BY DEF BuildFails, configVars, stateVars, timeVars
<1>2. TypeOK' /\ ForgottenWhole'
  BY <1>1 DEF SchedulerInv, TypeOK, ForgottenWhole, Stamped
<1> QED
  BY <1>1, <1>2 DEF SchedulerInv, PolledOncePerQuery, LeftIsStamped

LEMMA ShutdownStays ==
    ASSUME SchedulerInv, Shutdown
    PROVE  SchedulerInv'
<1>1. /\ clients' = {} /\ polling' = <<>> /\ left' = {} /\ clock' = 0 /\ called' = FALSE
      /\ spent' = 0 /\ conf' = conf
      /\ lastRun' = [k \in Keys |-> Never] /\ waited' = [k \in Keys |-> 0]
      /\ open' = [k \in Keys |-> IF k \in clients THEN open[k] - 1 ELSE open[k]]
  BY DEF Shutdown
<1>2. 0 \in 0..Horizon /\ 0 \in 0..(TickEvery - 1) /\ 0 \in 0..MaxQuery /\ 0 \in Nat
  BY HorizonIsNatural
<1>3. \A k \in Keys : open'[k] = 0
  BY <1>1 DEF SchedulerInv, ForgottenWhole
<1>4. /\ lastRun' \in [Keys -> 0..Horizon \cup {Never}] /\ open' \in [Keys -> Nat]
      /\ waited' \in [Keys -> 0..Horizon]
  BY <1>1, <1>2, <1>3
<1>5. TypeOK'
  BY <1>1, <1>2, <1>4 DEF SchedulerInv, TypeOK
<1>6. Stamped' = {}
  BY <1>1 DEF Stamped
<1>7. ForgottenWhole'
  BY <1>1, <1>3, <1>6 DEF ForgottenWhole
<1> QED
  BY <1>1, <1>5, <1>7 DEF SchedulerInv, PolledOncePerQuery, LeftIsStamped

LEMMA SchedulerStep ==
    ASSUME SchedulerInv, [Next]_vars
    PROVE  SchedulerInv'
<1>1. CASE \E c \in Configurations : Reconfigure(c)
  BY <1>1, ReconfigureStays
<1>2. CASE Tick
  BY <1>2, TickStays
<1>3. CASE Query
  BY <1>3, QueryStays
<1>4. CASE Poll
  BY <1>4, PollStays
<1>5. CASE BuildFails
  BY <1>5, BuildFailsStays
<1>6. CASE Shutdown
  BY <1>6, ShutdownStays
<1>7. CASE UNCHANGED vars
  BY <1>7 DEF vars, SchedulerInv, TypeOK, ForgottenWhole, Stamped, PolledOncePerQuery, LeftIsStamped
<1> QED
  BY <1>1, <1>2, <1>3, <1>4, <1>5, <1>6, <1>7 DEF Next

LEMMA SchedulerAlways == Spec => []SchedulerInv
  BY SchedulerInit, SchedulerStep, PTL DEF Spec

------------------------------------------------------------------------------
(* The timing.  A key that waits its turn in a query is polled before the query ends; any other    *)
(* key has waited no longer than its stamp is old, and by the next query no longer than it may.    *)

\* The time the next query may still be away.
TillQuery == IF ~Idle THEN (MaxQuery - spent) + TickEvery + Jitter
             ELSE IF called THEN (TickEvery - clock) + Jitter
             ELSE Jitter - clock

\* The query under way will poll the key: no client that is listed ahead of it can fail.
Pending(k) ==
    \E i \in left : /\ Loaded[polling][i].key = k
                    /\ \A j \in DOMAIN Loaded[polling] : j <= i => ~LacksFile(Loaded[polling][j])

InTurn == ~called => Idle /\ clock <= Jitter

\* A stamp was made at most Jitter after a tick.
Aligned ==
    \A k \in Keys : \/ lastRun[k] \in {Never, Horizon}
                    \/ \E n \in Nat, late \in 0..Jitter : lastRun[k] + late = n * TickEvery + clock

OnItsWay ==
    \A k \in LiveKeys(conf) : Ahead(conf, k) =>
        IF Pending(k) THEN waited[k] + (MaxQuery - spent) <= Every(conf, k) + Slack
        ELSE /\ waited[k] <= lastRun[k]
             /\ waited[k] + TillQuery <= Every(conf, k) + Jitter + MaxQuery + Jitter

TimingInv == SchedulerInv /\ InTurn /\ Aligned /\ OnItsWay

LEMMA TimeFacts ==
    /\ TickEvery \in Nat /\ MaxQuery \in Nat /\ Jitter \in Nat /\ Tolerance \in Nat
    /\ Jitter < TickEvery /\ Slack = (Jitter + MaxQuery) + (Jitter + MaxQuery)
  BY TimesAssumption DEF Slack

\* A key that is configured has an entry, and is polled at most once a tick.
LEMMA EveryFacts ==
    ASSUME NEW c \in Configurations, NEW k \in LiveKeys(c)
    PROVE  /\ Every(c, k) \in Nat /\ TickEvery <= Every(c, k) /\ Every(c, k) < Horizon
           /\ \E m \in Nat : Every(c, k) = m * TickEvery
           /\ \E i \in DOMAIN Loaded[c] :
                 Loaded[c][i].key = k /\ Every(c, k) = Interval(Loaded[c][i])
<1>1. \E e \in EntriesOf(c) : e.key = k
  BY DEF LiveKeys
<1>2. PICK e \in EntriesOf(c) : e.key = k /\ Every(c, k) = Interval(e)
  BY <1>1 DEF Every
<1>3. /\ Interval(e) \in TickEvery..(1440 * TickEvery) /\ Interval(e) <= Slowest
      /\ e.minutes \in Nat /\ Interval(e) = e.minutes * TickEvery
  BY IntervalFacts, SlowestIsSlowest DEF Interval
<1> DEFINE every == Interval(e)
<1> HIDE DEF every
<1>4. every \in Nat /\ TickEvery <= every
  BY <1>3, TimeFacts DEF every
<1>5. every < Horizon
  <2>1. every <= Slowest /\ Slowest \in Nat
    BY <1>3, SlowestIsSlowest DEF every
  <2>2. Horizon = Slowest + ((Jitter + MaxQuery) + (Jitter + MaxQuery)) + 1
    BY DEF Horizon, Slack
  <2> QED
    BY <1>4, <2>1, <2>2, TimeFacts
<1>6. \E i \in DOMAIN Loaded[c] : Loaded[c][i] = e
  BY DEF EntriesOf
<1>7. Every(c, k) = every
  BY <1>2 DEF every
<1> QED
  BY <1>2, <1>3, <1>4, <1>5, <1>6, <1>7 DEF every

LEMMA TypeFacts ==
    ASSUME SchedulerInv
    PROVE  /\ conf \in Configurations /\ LiveKeys(conf) \subseteq Keys
           /\ \A k \in Keys : waited[k] \in 0..Horizon /\ lastRun[k] \in 0..Horizon \cup {Never}
           /\ clock \in Nat /\ clock < TickEvery /\ spent \in 0..MaxQuery /\ called \in BOOLEAN
           /\ \A k \in Keys : waited[k] \in Nat /\ lastRun[k] \in Nat
<1>1. /\ conf \in Configurations /\ clock \in 0..(TickEvery - 1) /\ spent \in 0..MaxQuery
      /\ called \in BOOLEAN
      /\ \A k \in Keys : waited[k] \in 0..Horizon /\ lastRun[k] \in 0..Horizon \cup {Never}
  BY DEF SchedulerInv, TypeOK
<1>2. clock \in Nat /\ clock < TickEvery
  BY <1>1, TimeFacts
<1>3. \A k \in Keys : waited[k] \in Nat /\ lastRun[k] \in Nat
  BY <1>1, HorizonIsNatural
<1> QED
  BY <1>1, <1>2, <1>3, LoadedFacts

\* Whatever the query does, the next one is no further away than this.
LEMMA NextQueryIsNear ==
    ASSUME SchedulerInv, InTurn
    PROVE  TillQuery \in 0..(MaxQuery + TickEvery + Jitter)
  BY TypeFacts, TimeFacts DEF TillQuery, InTurn

LEMMA TimingInit == Init => TimingInv
<1> SUFFICES ASSUME Init PROVE TimingInv
  OBVIOUS
<1>1. SchedulerInv
  BY SchedulerInit
<1>2. /\ left = {} /\ clock = 0 /\ called = FALSE /\ waited = [k \in Keys |-> 0]
      /\ lastRun = [k \in Keys |-> Never]
  BY DEF Init
<1>3. InTurn
  BY <1>2, TimeFacts DEF InTurn, Idle
<1>4. Aligned
  BY <1>2 DEF Aligned
<1>5. ASSUME NEW k \in LiveKeys(conf)
      PROVE  /\ ~Pending(k) /\ waited[k] <= lastRun[k]
             /\ waited[k] + TillQuery <= Every(conf, k) + Jitter + MaxQuery + Jitter
  <2>1. ~Pending(k) /\ TillQuery = Jitter
    BY <1>2, TimeFacts DEF Pending, TillQuery, Idle
  <2>2. waited[k] = 0 /\ lastRun[k] = Never /\ Every(conf, k) \in Nat
    BY <1>1, <1>2, TypeFacts, EveryFacts
  <2> QED
    BY <2>1, <2>2, TimeFacts, HorizonIsNatural
<1>6. OnItsWay
  BY <1>5 DEF OnItsWay
<1> QED
  BY <1>1, <1>3, <1>4, <1>6 DEF TimingInv

\* A key that has just been polled, or has just come to be waited for, is in time.
LEMMA FreshIsInTime ==
    ASSUME NEW every \in Nat, TickEvery <= every,
           NEW last \in Nat, NEW used \in 0..MaxQuery,
           NEW away \in 0..(MaxQuery + TickEvery + Jitter)
    PROVE  /\ 0 + (MaxQuery - used) <= every + Slack
           /\ 0 <= last
           /\ 0 + away <= every + Jitter + MaxQuery + Jitter
  BY TimeFacts

LEMMA ReconfigureKeepsTime ==
    ASSUME TimingInv, NEW c \in Configurations, Reconfigure(c)
    PROVE  InTurn' /\ Aligned' /\ OnItsWay'
<1>1. /\ conf' = c /\ SchedulerInv
      /\ UNCHANGED <<lastRun, clients, open, polling, left, spent, clock, called>>
      /\ waited' = [k \in Keys |->
                      IF /\ k \in LiveKeys(c) \cap LiveKeys(conf)
                         /\ Every(c, k) = Every(conf, k) /\ Ahead(conf, k)
                      THEN waited[k] ELSE 0]
  BY DEF Reconfigure, stateVars, queryVars, timeVars, TimingInv
<1>2. InTurn' /\ Aligned'
  BY <1>1 DEF TimingInv, InTurn, Aligned, Idle
<1>3. /\ TillQuery' = TillQuery /\ \A k : Pending(k)' = Pending(k)
  BY <1>1 DEF TillQuery, Pending, Idle
<1>4. OnItsWay'
  <2> SUFFICES ASSUME NEW k \in LiveKeys(c), Ahead(c, k)
               PROVE  IF Pending(k) THEN waited'[k] + (MaxQuery - spent) <= Every(c, k) + Slack
                      ELSE /\ waited'[k] <= lastRun[k]
                           /\ waited'[k] + TillQuery <= Every(c, k) + Jitter + MaxQuery + Jitter
    BY <1>1, <1>3 DEF OnItsWay
  <2>1. k \in Keys
    BY LoadedFacts
  <2>2. CASE k \in LiveKeys(conf) /\ Every(c, k) = Every(conf, k) /\ Ahead(conf, k)
    <3>1. waited'[k] = waited[k]
      BY <1>1, <2>1, <2>2
    <3> QED
      BY <2>2, <3>1 DEF TimingInv, OnItsWay
  <2>3. CASE ~(k \in LiveKeys(conf) /\ Every(c, k) = Every(conf, k) /\ Ahead(conf, k))
    <3>1. waited'[k] = 0
      BY <1>1, <2>1, <2>3
    <3>2. /\ Every(c, k) \in Nat /\ TickEvery <= Every(c, k) /\ lastRun[k] \in Nat
          /\ spent \in 0..MaxQuery /\ TillQuery \in 0..(MaxQuery + TickEvery + Jitter)
      BY <1>1, <2>1, EveryFacts, TypeFacts, NextQueryIsNear DEF TimingInv
    <3> QED
      BY <3>1, <3>2, FreshIsInTime
  <2> QED
    BY <2>2, <2>3
<1> QED
  BY <1>2, <1>4

\* Time passes for the query under way, for the next tick or for the answer to it.
LEMMA TickBringsTheQueryNearer ==
    ASSUME TimingInv, Tick
    PROVE  InTurn' /\ TillQuery' <= TillQuery - 1
<1>1. /\ left' = left /\ clock' = (clock + 1) % TickEvery
      /\ called' = IF clock + 1 = TickEvery THEN ~Idle ELSE called
      /\ spent' = IF Idle THEN 0 ELSE spent + 1
      /\ Idle => called \/ clock < Jitter
  BY DEF Tick
<1>2. Idle' = Idle
  BY <1>1 DEF Idle
<1>3. /\ clock \in Nat /\ clock < TickEvery /\ spent \in 0..MaxQuery /\ called \in BOOLEAN
      /\ (~called => Idle /\ clock <= Jitter)
  BY TypeFacts DEF TimingInv, InTurn
<1>4. CASE clock + 1 = TickEvery
  <2>1. clock' = 0
    BY <1>1, <1>4, TimeFacts
  <2>2. called' <=> ~Idle
    BY <1>1, <1>4
  <2>3. InTurn'
    BY <1>2, <2>1, <2>2, TimeFacts DEF InTurn
  <2>4. Idle => called
    BY <1>1, <1>3, <1>4, TimeFacts
  <2>5. CASE Idle
    <3>1. TillQuery = 1 + Jitter /\ TillQuery' = Jitter
      BY <1>2, <1>3, <1>4, <2>1, <2>2, <2>4, <2>5, TimeFacts DEF TillQuery
    <3> QED
      BY <2>3, <3>1, TimeFacts
  <2>6. CASE ~Idle
    BY <1>1, <1>2, <1>3, <2>3, <2>6, TimeFacts DEF TillQuery
  <2> QED
    BY <2>5, <2>6
<1>5. CASE clock + 1 # TickEvery
  <2>1. clock' = clock + 1 /\ called' = called
    BY <1>1, <1>3, <1>5, TimeFacts
  <2>2. InTurn'
    BY <1>1, <1>2, <1>3, <2>1, TimeFacts DEF InTurn
  <2> QED
    BY <1>1, <1>2, <1>3, <2>1, <2>2, TimeFacts DEF TillQuery
<1> QED
  BY <1>4, <1>5

LEMMA TickKeepsAligned ==
    ASSUME TimingInv, Tick
    PROVE  Aligned'
<1>1. /\ clock' = (clock + 1) % TickEvery /\ lastRun' = [k \in Keys |-> Later(lastRun[k])]
  BY DEF Tick
<1>2. clock \in Nat /\ clock < TickEvery
  BY TypeFacts DEF TimingInv
<1> SUFFICES ASSUME NEW k \in Keys
             PROVE  \/ lastRun'[k] \in {Never, Horizon}
                    \/ \E n \in Nat, late \in 0..Jitter :
                          lastRun'[k] + late = n * TickEvery + clock'
  BY DEF Aligned
<1>3. lastRun[k] \in 0..Horizon \cup {Never} /\ lastRun'[k] = Later(lastRun[k])
  BY <1>1, TypeFacts DEF TimingInv
<1>4. CASE lastRun[k] \in {Never, Horizon}
  <2>1. lastRun'[k] = lastRun[k]
    BY <1>3, <1>4, HorizonIsNatural DEF Later
  <2> QED
    BY <1>4, <2>1
<1>5. CASE lastRun[k] \notin {Never, Horizon}
  <2>1. lastRun'[k] = lastRun[k] + 1 /\ lastRun[k] \in Nat
    BY <1>3, <1>5, HorizonIsNatural DEF Later
  <2>2. PICK n \in Nat, late \in 0..Jitter : lastRun[k] + late = n * TickEvery + clock
    BY <1>5 DEF TimingInv, Aligned
  <2> DEFINE ticks == n * TickEvery
  <2>3. ticks \in Nat /\ (n + 1) * TickEvery = ticks + TickEvery
    BY TimeFacts, SMTT(30)
  <2>4. lastRun[k] + late = ticks + clock
    BY <2>2
  <2> HIDE DEF ticks
  <2>5. CASE clock + 1 = TickEvery
    <3>1. clock' = 0
      BY <1>1, <2>5, TimeFacts
    <3>2. lastRun'[k] + late = (ticks + TickEvery) + clock'
      <4>1. late \in Nat /\ ticks \in Nat
        BY <2>3, TimeFacts
      <4>2. lastRun'[k] + late = (lastRun[k] + late) + 1
        BY <2>1, <4>1
      <4>3. (ticks + clock) + 1 = ticks + (clock + 1)
        BY <1>2, <4>1
      <4>4. (ticks + TickEvery) + clock' = ticks + TickEvery
        BY <3>1, <4>1, TimeFacts
      <4> QED
        BY <2>4, <2>5, <4>2, <4>3, <4>4
    <3>3. lastRun'[k] + late = (n + 1) * TickEvery + clock' /\ n + 1 \in Nat
      BY <2>3, <3>2
    <3> QED
      BY <3>3
  <2>6. CASE clock + 1 # TickEvery
    <3>1. clock' = clock + 1
      BY <1>1, <1>2, <2>6, TimeFacts
    <3>2. lastRun'[k] + late = ticks + clock'
      BY <1>2, <2>1, <2>3, <2>4, <3>1, TimeFacts
    <3> QED
      BY <3>2 DEF ticks
  <2> QED
    BY <2>5, <2>6
<1> QED
  BY <1>4, <1>5

LEMMA TickKeepsTime ==
    ASSUME TimingInv, Tick
    PROVE  OnItsWay'
<1>1. /\ UNCHANGED <<conf, polling, left>> /\ (~Idle => spent < MaxQuery)
      /\ lastRun' = [k \in Keys |-> Later(lastRun[k])]
      /\ waited' = [k \in Keys |-> IF k \in LiveKeys(conf) THEN Later(waited[k]) ELSE 0]
      /\ spent' = IF Idle THEN 0 ELSE spent + 1
  BY DEF Tick
<1>2. \A k : Pending(k)' = Pending(k)
  BY <1>1 DEF Pending
<1>3. TillQuery' <= TillQuery - 1
  BY TickBringsTheQueryNearer
<1>4. TillQuery \in Int /\ TillQuery' \in Int
  <2>1. SchedulerInv' /\ InTurn'
    BY TickStays, TickBringsTheQueryNearer DEF TimingInv
  <2>2. clock \in Nat /\ clock' \in Nat /\ spent \in Nat /\ spent' \in Nat
    BY <2>1, TimeFacts DEF TimingInv, SchedulerInv, TypeOK
  <2> QED
    BY <2>2, TimeFacts DEF TillQuery
<1> SUFFICES ASSUME NEW k \in LiveKeys(conf), Ahead(conf, k)
             PROVE  IF Pending(k) THEN waited'[k] + (MaxQuery - spent') <= Every(conf, k) + Slack
                    ELSE /\ waited'[k] <= lastRun'[k]
                         /\ waited'[k] + TillQuery' <= Every(conf, k) + Jitter + MaxQuery + Jitter
  BY <1>1, <1>2 DEF OnItsWay
<1>5. /\ k \in Keys /\ waited[k] \in 0..Horizon /\ lastRun[k] \in 0..Horizon \cup {Never}
      /\ Every(conf, k) \in Nat /\ spent \in 0..MaxQuery
  BY TypeFacts, EveryFacts DEF TimingInv
<1>6. waited'[k] = Later(waited[k]) /\ lastRun'[k] = Later(lastRun[k])
  BY <1>1, <1>5
<1>7. waited'[k] \in Nat /\ waited'[k] <= waited[k] + 1 /\ waited[k] \in Nat
  BY <1>5, <1>6, HorizonIsNatural DEF Later
<1>8. CASE Pending(k)
  <2>1. ~Idle
    BY <1>8 DEF Pending, Idle
  <2>2. spent' = spent + 1
    BY <1>1, <2>1
  <2>3. waited[k] + (MaxQuery - spent) <= Every(conf, k) + Slack
    BY <1>8 DEF TimingInv, OnItsWay
  <2> QED
    BY <1>5, <1>7, <1>8, <2>2, <2>3, TimeFacts
<1>9. CASE ~Pending(k)
  <2>1. /\ waited[k] <= lastRun[k]
        /\ waited[k] + TillQuery <= Every(conf, k) + Jitter + MaxQuery + Jitter
    BY <1>9 DEF TimingInv, OnItsWay
  <2>2. waited'[k] <= lastRun'[k]
    BY <1>5, <1>6, <2>1, HorizonIsNatural DEF Later
  <2>3. waited'[k] + TillQuery' <= Every(conf, k) + Jitter + MaxQuery + Jitter
    BY <1>3, <1>4, <1>5, <1>7, <2>1, TimeFacts
  <2> QED
    BY <1>9, <2>2, <2>3
<1> QED
  BY <1>8, <1>9

\* A key that a query passes over has a stamp that is a whole tick short of its interval.
LEMMA PassedOver ==
    ASSUME TimingInv, ~called, Jitter <= Tolerance, NEW k \in LiveKeys(conf),
           \A i \in DuePositions : Loaded[conf][i].key # k
    PROVE  lastRun[k] + TickEvery <= Every(conf, k) + clock
<1>1. conf \in Configurations /\ k \in Keys /\ lastRun[k] \in Nat /\ clock \in Nat
  BY TypeFacts DEF TimingInv
<1> DEFINE due == {i \in DOMAIN Loaded[conf] :
                     Loaded[conf][i].key = k /\ IsDue(Loaded[conf][i])}
<1>2. due = {}
  <2> SUFFICES ASSUME due # {} PROVE FALSE
    OBVIOUS
  <2>1. due \in SUBSET Nat
    BY <1>1, LoadedFacts
  <2> HIDE DEF due
  <2>2. PICK i \in due : \A j \in due : i <= j
    BY <2>1, FirstPlace
  <2> USE DEF due
  <2>3. ASSUME NEW j \in DOMAIN Loaded[conf], j < i, Loaded[conf][j].key = Loaded[conf][i].key
        PROVE  ~IsDue(Loaded[conf][j])
    <3>1. j \in Nat /\ i \in Nat
      BY <1>1, LoadedFacts
    <3>2. j \notin due
      BY <2>2, <2>3, <3>1
    <3> QED
      BY <2>3, <3>2
  <2>4. i \in DuePositions
    BY <2>3 DEF DuePositions
  <2> QED
    BY <2>4
<1> HIDE DEF due
<1>3. PICK i \in DOMAIN Loaded[conf] :
        Loaded[conf][i].key = k /\ Every(conf, k) = Interval(Loaded[conf][i])
  BY <1>1, EveryFacts
<1>4. lastRun[k] # Never /\ ~(lastRun[k] + Tolerance >= Every(conf, k))
  BY <1>2, <1>3 DEF due, IsDue
<1>5. PICK m \in Nat : Every(conf, k) = m * TickEvery
  BY <1>1, EveryFacts
<1>6. Every(conf, k) \in Nat /\ Every(conf, k) < Horizon
  BY <1>1, EveryFacts
<1>7. lastRun[k] # Horizon
  BY <1>4, <1>6, TimeFacts, HorizonIsNatural
<1>8. PICK n \in Nat, late \in 0..Jitter : lastRun[k] + late = n * TickEvery + clock
  BY <1>1, <1>4, <1>7 DEF TimingInv, Aligned
<1> DEFINE a == n * TickEvery
           b == m * TickEvery
<1>9. a \in Nat /\ b \in Nat /\ (a < b => a + TickEvery <= b)
  <2>1. a \in Nat /\ b \in Nat
    BY TimeFacts
  <2>2. ASSUME a < b PROVE n < m
    <3>1. ASSUME m <= n PROVE b <= a
      <4>1. (n - m) * TickEvery \in Nat
        BY <3>1, TimeFacts, SMTT(30)
      <4>2. a = b + (n - m) * TickEvery
        BY TimeFacts, SMTT(30)
      <4> QED
        BY <2>1, <4>1, <4>2
    <3> HIDE DEF a, b
    <3> QED
      BY <2>1, <2>2, <3>1
  <2>3. ASSUME n < m PROVE a + TickEvery <= b
    <3>1. m - (n + 1) \in Nat
      BY <2>3
    <3>2. (m - (n + 1)) * TickEvery \in Nat
      BY <3>1, TimeFacts, SMTT(30)
    <3>3. b = (a + TickEvery) + (m - (n + 1)) * TickEvery
      BY TimeFacts, SMTT(30)
    <3> HIDE DEF a, b
    <3> QED
      BY <2>1, <3>2, <3>3, TimeFacts
  <2> QED
    BY <2>1, <2>2, <2>3
<1>10. lastRun[k] + late = a + clock /\ Every(conf, k) = b
  BY <1>5, <1>8
<1> HIDE DEF a, b
<1>11. clock <= Jitter
  BY DEF TimingInv, InTurn
<1>12. a <= lastRun[k] + late /\ lastRun[k] + late <= lastRun[k] + Tolerance
  BY <1>1, <1>9, <1>10, TimeFacts
<1>13. a < b
  BY <1>1, <1>4, <1>6, <1>9, <1>10, <1>12, TimeFacts
<1> QED
  BY <1>1, <1>9, <1>10, <1>13, TimeFacts

LEMMA QueryKeepsTime ==
    ASSUME TimingInv, Query, Jitter <= Tolerance
    PROVE  InTurn' /\ Aligned' /\ OnItsWay'
<1> DEFINE Due(k) == \E i \in DuePositions : Loaded[conf][i].key = k
<1>1. /\ Idle /\ ~called /\ called' = TRUE /\ polling' = conf /\ left' = DuePositions /\ spent' = 0
      /\ lastRun' = [k \in Keys |-> IF k \notin LiveKeys(conf) THEN Never
                                    ELSE IF Due(k) THEN 0 ELSE lastRun[k]]
      /\ UNCHANGED <<conf, clock, waited>>
  BY DEF Query
<1>2. /\ clock \in Nat /\ clock < TickEvery /\ clock <= Jitter /\ conf \in Configurations
      /\ LiveKeys(conf) \subseteq Keys
  BY <1>1, TypeFacts DEF TimingInv, InTurn
<1>3. InTurn'
  BY <1>1 DEF InTurn
<1> HIDE DEF Due
<1>4. Aligned'
  <2> SUFFICES ASSUME NEW k \in Keys
               PROVE  \/ lastRun'[k] \in {Never, Horizon}
                      \/ \E n \in Nat, late \in 0..Jitter :
                            lastRun'[k] + late = n * TickEvery + clock'
    BY DEF Aligned
  <2>1. CASE lastRun'[k] = 0
    <3>1. lastRun'[k] + clock = 0 * TickEvery + clock' /\ clock \in 0..Jitter
      BY <1>1, <1>2, <2>1, TimeFacts
    <3> QED
      BY <3>1
  <2>2. CASE lastRun'[k] = lastRun[k]
    BY <1>1, <2>2 DEF TimingInv, Aligned
  <2>3. CASE lastRun'[k] = Never
    BY <2>3
  <2> QED
    BY <1>1, <2>1, <2>2, <2>3
<1>5. OnItsWay'
  <2> SUFFICES ASSUME NEW k \in LiveKeys(conf), Ahead(conf, k)
               PROVE  IF Pending(k)'
                      THEN waited[k] + (MaxQuery - spent') <= Every(conf, k) + Slack
                      ELSE /\ waited[k] <= lastRun'[k]
                           /\ waited[k] + TillQuery' <= Every(conf, k) + Jitter + MaxQuery + Jitter
    BY <1>1 DEF OnItsWay
  <2>1. /\ k \in Keys /\ waited[k] \in Nat /\ lastRun[k] \in Nat /\ Every(conf, k) \in Nat
    BY <1>2, TypeFacts, EveryFacts DEF TimingInv
  <2>2. ~Pending(k) /\ TillQuery = Jitter - clock
    BY <1>1, <1>2 DEF Pending, Idle, TillQuery
  <2>3. /\ waited[k] <= lastRun[k]
        /\ waited[k] + (Jitter - clock) <= Every(conf, k) + Jitter + MaxQuery + Jitter
    BY <2>2 DEF TimingInv, OnItsWay
  <2>4. CASE Pending(k)'
    <3>1. waited[k] + (MaxQuery - spent') <= Every(conf, k) + Slack
      BY <1>1, <1>2, <2>1, <2>3, TimeFacts
    <3> QED
      BY <2>4, <3>1
  <2>5. CASE ~Pending(k)'
    <3>1. ~Due(k)
      <4> SUFFICES ASSUME Due(k) PROVE FALSE
        OBVIOUS
      <4>1. PICK i \in DuePositions : Loaded[conf][i].key = k
        BY DEF Due
      <4>2. i \in DOMAIN Loaded[conf]
        BY DEF DuePositions
      <4>3. \A j \in DOMAIN Loaded[conf] : j <= i => ~LacksFile(Loaded[conf][j])
        BY <4>1, <4>2 DEF Ahead
      <4> QED
        BY <1>1, <2>5, <4>1, <4>3 DEF Pending
    <3>2. lastRun'[k] = lastRun[k]
      BY <1>1, <2>1, <3>1
    <3>3. lastRun[k] + TickEvery <= Every(conf, k) + clock
      BY <1>1, <3>1, PassedOver DEF Due
    <3>4. TillQuery' <= MaxQuery + TickEvery + Jitter /\ TillQuery' \in Int
      BY <1>1, <1>2, TimeFacts DEF TillQuery
    <3>5. waited[k] + TillQuery' <= Every(conf, k) + Jitter + MaxQuery + Jitter
      BY <1>2, <2>1, <2>3, <3>3, <3>4, TimeFacts
    <3> QED
      BY <2>3, <2>5, <3>2, <3>5
  <2> QED
    BY <2>4, <2>5
<1> QED
  BY <1>3, <1>4, <1>5

\* A query under way that becomes idle is no further from the next one than it was.
LEMMA DoneIsNoLater ==
    ASSUME TimingInv, ~Idle, UNCHANGED <<clock, called, spent>>
    PROVE  InTurn' /\ TillQuery' \in 0..(MaxQuery + TickEvery + Jitter) /\ TillQuery' <= TillQuery
<1>1. called /\ clock \in Nat /\ clock < TickEvery /\ spent \in 0..MaxQuery
  BY TypeFacts DEF TimingInv, InTurn
<1>2. called' /\ clock' = clock /\ spent' = spent
  BY <1>1
<1>3. InTurn'
  BY <1>2 DEF InTurn
<1> QED
  BY <1>1, <1>2, <1>3, TimeFacts DEF TillQuery

LEMMA PollKeepsTime ==
    ASSUME TimingInv, Poll
    PROVE  InTurn' /\ Aligned' /\ OnItsWay'
<1> DEFINE polled == Loaded[polling][NextUp].key
<1>1. /\ ~Idle /\ left' = left \ {NextUp} /\ waited' = [waited EXCEPT ![polled] = 0]
      /\ UNCHANGED <<conf, lastRun, polling, spent, clock, called>>
  BY DEF Poll, timeVars
<1>2. NextUp \in left
  BY <1>1, NextUpIsLeft DEF TimingInv
<1>3. InTurn' /\ TillQuery' \in 0..(MaxQuery + TickEvery + Jitter) /\ TillQuery' <= TillQuery
  BY <1>1, DoneIsNoLater
<1>4. Aligned'
  BY <1>1 DEF TimingInv, Aligned
<1>5. \A k : k # polled => (Pending(k)' <=> Pending(k))
  BY <1>1, <1>2 DEF Pending
<1> HIDE DEF polled
<1>6. OnItsWay'
  <2> SUFFICES ASSUME NEW k \in LiveKeys(conf), Ahead(conf, k)
               PROVE  IF Pending(k)'
                      THEN waited'[k] + (MaxQuery - spent) <= Every(conf, k) + Slack
                      ELSE /\ waited'[k] <= lastRun[k]
                           /\ waited'[k] + TillQuery' <= Every(conf, k) + Jitter + MaxQuery + Jitter
    BY <1>1 DEF OnItsWay
  <2>1. /\ k \in Keys /\ waited \in [Keys -> 0..Horizon] /\ waited[k] \in Nat /\ lastRun[k] \in Nat
        /\ Every(conf, k) \in Nat /\ TickEvery <= Every(conf, k) /\ spent \in 0..MaxQuery
    BY TypeFacts, EveryFacts DEF TimingInv, SchedulerInv, TypeOK
  <2>2. CASE k = polled
    <3>1. waited'[k] = 0
      BY <1>1, <2>1, <2>2
    <3> QED
      BY <1>3, <2>1, <3>1, FreshIsInTime
  <2>3. CASE k # polled
    <3>1. waited'[k] = waited[k] /\ (Pending(k)' <=> Pending(k))
      BY <1>1, <1>5, <2>1, <2>3
    <3>2. CASE Pending(k)
      BY <3>1, <3>2 DEF TimingInv, OnItsWay
    <3>3. CASE ~Pending(k)
      <4>1. /\ waited[k] <= lastRun[k]
            /\ waited[k] + TillQuery <= Every(conf, k) + Jitter + MaxQuery + Jitter
        BY <3>3 DEF TimingInv, OnItsWay
      <4>2. TillQuery \in 0..(MaxQuery + TickEvery + Jitter)
        BY NextQueryIsNear DEF TimingInv
      <4>3. waited[k] + TillQuery' <= Every(conf, k) + Jitter + MaxQuery + Jitter
        BY <1>3, <2>1, <4>1, <4>2, TimeFacts
      <4> QED
        BY <3>1, <3>3, <4>1, <4>3
    <3> QED
      BY <3>2, <3>3
  <2> QED
    BY <2>2, <2>3
<1> QED
  BY <1>3, <1>4, <1>6

\* A query that breaks off leaves out no key it was bound to poll.
LEMMA BuildFailsKeepsTime ==
    ASSUME TimingInv, BuildFails
    PROVE  InTurn' /\ Aligned' /\ OnItsWay'
<1>1. /\ ~Idle /\ left' = {} /\ LacksFile(Loaded[polling][NextUp])
      /\ UNCHANGED <<conf, waited, lastRun, polling, spent, clock, called>>
  BY DEF BuildFails, configVars, stateVars, timeVars
<1>2. InTurn' /\ TillQuery' \in 0..(MaxQuery + TickEvery + Jitter) /\ TillQuery' <= TillQuery
  BY <1>1, DoneIsNoLater
<1>3. Aligned'
  BY <1>1 DEF TimingInv, Aligned
<1>4. \A k : ~Pending(k)'
  BY <1>1 DEF Pending
<1>5. \A k : ~Pending(k)
  <2> SUFFICES ASSUME NEW k, Pending(k) PROVE FALSE
    OBVIOUS
  <2>1. left \in SUBSET Nat /\ left # {} /\ left \subseteq DOMAIN Loaded[polling]
    BY <1>1, LoadedFacts DEF TimingInv, SchedulerInv, LeftIsStamped, TypeOK, Idle
  <2>2. NextUp \in left /\ \A j \in left : NextUp <= j
    BY <2>1, FirstPlace DEF NextUp
  <2>3. PICK i \in left : \A j \in DOMAIN Loaded[polling] : j <= i => ~LacksFile(Loaded[polling][j])
    BY DEF Pending
  <2> QED
    BY <1>1, <2>1, <2>2, <2>3
<1>6. OnItsWay'
  <2> SUFFICES ASSUME NEW k \in LiveKeys(conf), Ahead(conf, k)
               PROVE  /\ waited[k] <= lastRun[k]
                      /\ waited[k] + TillQuery' <= Every(conf, k) + Jitter + MaxQuery + Jitter
    BY <1>1, <1>4 DEF OnItsWay
  <2>1. /\ waited[k] <= lastRun[k]
        /\ waited[k] + TillQuery <= Every(conf, k) + Jitter + MaxQuery + Jitter
    BY <1>5 DEF TimingInv, OnItsWay
  <2>2. TillQuery \in 0..(MaxQuery + TickEvery + Jitter)
    BY NextQueryIsNear DEF TimingInv
  <2>3. waited[k] \in Nat /\ Every(conf, k) \in Nat
    BY TypeFacts, EveryFacts DEF TimingInv
  <2> QED
    BY <1>2, <2>1, <2>2, <2>3, TimeFacts
<1> QED
  BY <1>2, <1>3, <1>6

LEMMA ShutdownKeepsTime ==
    ASSUME TimingInv, Shutdown
    PROVE  InTurn' /\ Aligned' /\ OnItsWay'
<1>1. /\ left' = {} /\ clock' = 0 /\ called' = FALSE /\ conf' = conf
      /\ lastRun' = [k \in Keys |-> Never] /\ waited' = [k \in Keys |-> 0]
  BY DEF Shutdown
<1>2. InTurn'
  BY <1>1, TimeFacts DEF InTurn, Idle
<1>3. Aligned'
  BY <1>1 DEF Aligned
<1>4. TillQuery' = Jitter /\ \A k : ~Pending(k)'
  BY <1>1, TimeFacts DEF TillQuery, Idle, Pending
<1>5. OnItsWay'
  <2> SUFFICES ASSUME NEW k \in LiveKeys(conf)
               PROVE  /\ waited'[k] <= lastRun'[k]
                      /\ waited'[k] + TillQuery' <= Every(conf, k) + Jitter + MaxQuery + Jitter
    BY <1>1, <1>4 DEF OnItsWay
  <2>1. waited'[k] = 0 /\ lastRun'[k] = Never /\ Every(conf, k) \in Nat
    BY <1>1, TypeFacts, EveryFacts DEF TimingInv
  <2> QED
    BY <1>4, <2>1, TimeFacts, HorizonIsNatural
<1> QED
  BY <1>2, <1>3, <1>5

LEMMA TimingStep ==
    ASSUME TimingInv, [Next]_vars, Jitter <= Tolerance
    PROVE  TimingInv'
<1>1. SchedulerInv'
  BY SchedulerStep DEF TimingInv
<1>2. CASE \E c \in Configurations : Reconfigure(c)
  BY <1>1, <1>2, ReconfigureKeepsTime DEF TimingInv
<1>3. CASE Tick
  BY <1>1, <1>3, TickBringsTheQueryNearer, TickKeepsAligned, TickKeepsTime DEF TimingInv
<1>4. CASE Query
  BY <1>1, <1>4, QueryKeepsTime DEF TimingInv
<1>5. CASE Poll
  BY <1>1, <1>5, PollKeepsTime DEF TimingInv
<1>6. CASE BuildFails
  BY <1>1, <1>6, BuildFailsKeepsTime DEF TimingInv
<1>7. CASE Shutdown
  BY <1>1, <1>7, ShutdownKeepsTime DEF TimingInv
<1>8. CASE UNCHANGED vars
  <2>1. InTurn' /\ Aligned' /\ OnItsWay'
    BY <1>8 DEF vars, TimingInv, InTurn, Aligned, OnItsWay, Pending, TillQuery, Idle
  <2> QED
    BY <1>1, <2>1 DEF TimingInv
<1> QED
  BY <1>2, <1>3, <1>4, <1>5, <1>6, <1>7, <1>8 DEF Next

LEMMA OnItsWayIsInTime ==
    ASSUME TimingInv
    PROVE  PolledOnTime
<1> SUFFICES ASSUME NEW k \in LiveKeys(conf), Ahead(conf, k)
             PROVE  waited[k] <= Every(conf, k) + Slack
  BY DEF PolledOnTime
<1>1. /\ waited[k] \in Nat /\ Every(conf, k) \in Nat /\ spent \in 0..MaxQuery
  BY TypeFacts, EveryFacts DEF TimingInv
<1>2. TillQuery \in 0..(MaxQuery + TickEvery + Jitter)
  BY NextQueryIsNear DEF TimingInv
<1>3. \/ waited[k] + (MaxQuery - spent) <= Every(conf, k) + Slack
      \/ waited[k] + TillQuery <= Every(conf, k) + Jitter + MaxQuery + Jitter
  BY DEF TimingInv, OnItsWay
<1> QED
  BY <1>1, <1>2, <1>3, TimeFacts

------------------------------------------------------------------------------
\* The state of the schedule stays what it is meant to be, for any configurations and any timing.
THEOREM SchedulerTypeCorrect == Spec => []TypeOK
<1>1. SchedulerInv => TypeOK
  BY DEF SchedulerInv
<1> QED
  BY <1>1, SchedulerAlways, PTL

\* A cluster that left the configuration leaves nothing behind, whatever the edits and whenever
\* they fall: no stamp, no client and no open transport, and no transport is opened twice.
THEOREM NothingIsLeftBehind == Spec => []ForgottenWhole
<1>1. SchedulerInv => ForgottenWhole
  BY DEF SchedulerInv
<1> QED
  BY <1>1, SchedulerAlways, PTL

\* However often a configuration names a cluster, a query polls it once.
THEOREM OnePollPerQuery == Spec => []PolledOncePerQuery
<1>1. SchedulerInv => PolledOncePerQuery
  BY DEF SchedulerInv
<1> QED
  BY <1>1, SchedulerAlways, PTL

\* While the ticks come no later than the tolerance allows for, a cluster that can be polled is
\* polled within its interval and the delays of two queries: no edit, no skipped tick, no cluster
\* behind it and no restart ever costs it a tick more.  Any number of clusters, any intervals.
THEOREM EveryClusterIsPolledOnTime ==
    ASSUME Jitter <= Tolerance
    PROVE  Spec => []PolledOnTime
<1>1. TimingInv /\ [Next]_vars => TimingInv'
  BY TimingStep
<1> QED
  BY <1>1, TimingInit, OnItsWayIsInTime, PTL DEF Spec

\* An endpoint that an edit leaves as it was, where it was, keeps its client, whatever happens to
\* the endpoints around it, for any configurations.
THEOREM EditsLeaveOthersAlone == Spec => EditsTouchNoOther
<1>1. SchedulerInv /\ [Next]_vars =>
        [\A i \in DOMAIN polling \cap DOMAIN polling' :
            /\ polling[i] = polling'[i] /\ Parses(polling[i])
            /\ KeyOf(polling[i], i) \in clients
            => KeyOf(polling[i], i) \in clients']_vars
  <2> SUFFICES ASSUME SchedulerInv, [Next]_vars,
                      NEW i \in DOMAIN polling \cap DOMAIN polling',
                      polling[i] = polling'[i], Parses(polling[i]),
                      KeyOf(polling[i], i) \in clients
               PROVE  KeyOf(polling[i], i) \in clients'
    OBVIOUS
  <2>1. CASE Query
    <3>1. polling' = conf /\ clients' = clients \cap LiveKeys(conf) /\ conf \in Configurations
      BY <2>1 DEF Query, SchedulerInv, TypeOK
    <3>2. KeyOf(conf[i], i) \in LiveKeys(conf)
      BY <3>1, GoodEndpointIsLive
    <3> QED
      BY <3>1, <3>2
  <2>2. CASE Shutdown
    <3>1. polling' = <<>>
      BY <2>2 DEF Shutdown
    <3>2. DOMAIN polling' = {}
      BY <3>1
    <3> QED
      BY <3>2
  <2>3. CASE Poll
    <3>1. clients \subseteq clients'
      BY <2>3 DEF Poll
    <3> QED
      BY <3>1
  <2>4. CASE (\E c \in Configurations : Reconfigure(c)) \/ Tick \/ BuildFails \/ UNCHANGED vars
    <3>1. clients' = clients
      BY <2>4 DEF Reconfigure, Tick, BuildFails, stateVars, vars
    <3> QED
      BY <3>1
  <2> QED
    BY <2>1, <2>2, <2>3, <2>4 DEF Next
<1> QED
  BY <1>1, SchedulerAlways, PTL DEF Spec, EditsTouchNoOther

==============================================================================
