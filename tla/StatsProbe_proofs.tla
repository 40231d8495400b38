--------------------------- MODULE StatsProbe_proofs ---------------------------
(***************************************************************************)
(* Proofs about StatsProbe, for any calls, moods of the cluster and        *)
(* budget: the budget is never overdrawn, and the candidate kept for a     *)
(* schema is one that had data.                                            *)
(***************************************************************************)
EXTENDS StatsProbe, WellFoundedInduction, TLAPS

\* What is kept from poll to poll.
ClientInv ==
    /\ DOMAIN mood = Paths /\ DOMAIN shape = Paths
    /\ \A path \in Paths : mood[path] \in Moods[path] /\ shape[path] \in Shapes(path)
    /\ budget \in 0..Budget
    /\ candidates \in Seq(CandidateSources)
    /\ winner \in [Schemas -> {Unresolved} \cup Named(candidates)]
    /\ WinnersHaveData

\* What a call may have to try; views take no entityId.
Tries == CandidateSources \cup {""}

\* Where the call under way is: what it has still to try is what its schema was offered, and an
\* answer with data came under the id that has it.
CallInv ==
    /\ at \in 0..Len(Calls)
    /\ stage \in {"start", "request", "probe", "answered"}
    /\ fellBack => at # 0 /\ Call.path = "top-views"
    /\ toTry \in Seq(Tries)
    /\ stage # "start" =>
          /\ at # 0 /\ toTry # <<>>
          /\ Call.schema # "" => Named(toTry) \subseteq Named(candidates)
    /\ result \in {"", "data", "part", "empty"}
    /\ stage = "answered" /\ HasData /\ Call.schema # "" => Head(toTry) = Call.holder
    /\ next \in Nat /\ next > 0

StatsInv == ClientInv /\ CallInv

------------------------------------------------------------------------------

LEMMA NamedFacts ==
    ASSUME NEW S, NEW list \in Seq(S)
    PROVE  /\ Named(list) \subseteq S
           /\ list # <<>> => Head(list) \in Named(list)
           /\ list # <<>> => Tail(list) \in Seq(S) /\ Named(Tail(list)) \subseteq Named(list)
           /\ Len(list) > 1 => Tail(list) # <<>>
<1>1. Named(list) \subseteq S
  BY DEF Named
<1>2. list # <<>> => Head(list) \in Named(list)
  <2>1. list # <<>> => 1 \in 1..Len(list) /\ Head(list) = list[1]
    OBVIOUS
  <2> QED
    BY <2>1 DEF Named
<1>3. list # <<>> => Tail(list) \in Seq(S) /\ Named(Tail(list)) \subseteq Named(list)
  <2> SUFFICES ASSUME list # <<>>
               PROVE  Tail(list) \in Seq(S) /\ Named(Tail(list)) \subseteq Named(list)
    OBVIOUS
  <2>1. /\ Tail(list) \in Seq(S) /\ Len(Tail(list)) = Len(list) - 1 /\ Len(list) \in Nat \ {0}
        /\ \A i \in 1..Len(Tail(list)) : Tail(list)[i] = list[i + 1]
    OBVIOUS
  <2>2. \A i \in 1..Len(Tail(list)) : i + 1 \in 1..Len(list)
    BY <2>1
  <2> QED
    BY <2>1, <2>2 DEF Named
<1>4. Len(list) > 1 => Tail(list) # <<>>
  <2>1. PICK n \in Nat : n = Len(list)
    OBVIOUS
  <2>2. n > 1 => list # <<>> /\ Tail(list) \in Seq(S) /\ Len(Tail(list)) = n - 1
    BY <2>1
  <2>3. n > 1 => n - 1 # 0
    OBVIOUS
  <2>4. Len(<<>>) = 0
    OBVIOUS
  <2> QED
    BY <2>1, <2>2, <2>3, <2>4
<1> QED
  BY <1>1, <1>2, <1>3, <1>4

LEMMA SingleFacts ==
    ASSUME NEW S, NEW x \in S
    PROVE  <<x>> \in Seq(S) /\ <<x>> # <<>> /\ Named(<<x>>) = {x}
  BY DEF Named

LEMMA WiderSequence ==
    ASSUME NEW S, NEW T, S \subseteq T, NEW list \in Seq(S)
    PROVE  list \in Seq(T)
  OBVIOUS

LEMMA CallsListed ==
    /\ Len(Calls) \in Nat /\ DOMAIN Calls = 1..Len(Calls)
    /\ \A i \in 1..Len(Calls) : Calls[i] \in Named(Calls)
<1>1. Calls \in Seq(Named(Calls))
  BY CallsAssumption
<1> QED
  BY <1>1 DEF Named

LEMMA CallFacts ==
    ASSUME at \in 0..Len(Calls), at # 0
    PROVE  /\ Call \in Named(Calls)
           /\ Call.schema # "" => Call.schema \in Schemas
           /\ Call.path \in Paths /\ Path \in Paths
<1>1. Len(Calls) \in Nat /\ DOMAIN Calls = 1..Len(Calls)
  BY CallsListed
<1>2. at \in 1..Len(Calls)
  BY <1>1
<1>3. Call \in Named(Calls)
  BY <1>2 DEF Call, Named
<1>4. Call.schema # "" => Call.schema \in Schemas
  BY <1>1, <1>2 DEF Call, Schemas
<1>5. Call.path \in Paths
  BY <1>3, CallsAssumption
<1> QED
  BY <1>3, <1>4, <1>5 DEF Path, Paths

LEMMA FirstNumber ==
    ASSUME NEW numbers \in SUBSET Nat, numbers # {}
    PROVE  \E n \in numbers : \A other \in numbers : n <= other
<1> DEFINE Less == OpToRel(<, Nat)
<1>1. IsWellFoundedOn(Less, Nat)
  BY NatLessThanWellFounded
<1>2. \A m, n \in Nat : <<m, n>> \in Less <=> m < n
  BY DEF OpToRel
<1> HIDE DEF Less
<1>3. PICK n \in numbers : \A m \in numbers : <<m, n>> \notin Less
  BY <1>1, WFMin
<1>4. ASSUME NEW other \in numbers PROVE n <= other
  <2>1. n \in Nat /\ other \in Nat
    OBVIOUS
  <2>2. ~(other < n)
    BY <1>2, <1>3, <2>1
  <2> QED
    BY <2>1, <2>2
<1> QED
  BY <1>4

\* The call a section's failure goes on with is a later one, or there is none.
LEMMA AfterSectionFacts ==
    ASSUME at \in 0..Len(Calls)
    PROVE  AfterSection \in 1..(Len(Calls) + 1)
<1> DEFINE others == {i \in DOMAIN Calls : i > at /\ Calls[i].section # Call.section}
<1>1. Len(Calls) \in Nat /\ DOMAIN Calls = 1..Len(Calls)
  BY CallsListed
<1>2. CASE others = {}
  BY <1>1, <1>2 DEF AfterSection
<1>3. CASE others # {}
  <2>1. others \in SUBSET Nat
    BY <1>1
  <2>2. AfterSection = CHOOSE i \in others : \A j \in others : i <= j
    BY <1>3 DEF AfterSection
  <2> HIDE DEF others
  <2>3. AfterSection \in others
    BY <1>3, <2>1, <2>2, FirstNumber
  <2> QED
    BY <1>1, <2>3 DEF others
<1> QED
  BY <1>2, <1>3

LEMMA GoToKeeps ==
    ASSUME NEW i \in 1..(Len(Calls) + 1), GoTo(i)
    PROVE  CallInv'
<1>1. Len(Calls) \in Nat
  BY CallsListed
<1>2. at' = (IF i > Len(Calls) THEN 0 ELSE i) /\ toTry' = <<>>
  BY DEF GoTo
<1>5. stage' = "start" /\ ~fellBack' /\ next' = 1 /\ result' = ""
  BY DEF GoTo
<1>3. at' \in 0..Len(Calls)
  <2>1. PICK n \in Nat : n = Len(Calls)
    BY <1>1
  <2>2. i \in 1..(n + 1) /\ at' = IF i > n THEN 0 ELSE i
    BY <1>2, <2>1
  <2>3. at' \in 0..n
    BY <2>2
  <2> QED
    BY <2>1, <2>3
<1>4. toTry' \in Seq(Tries)
  BY <1>2
<1>6. 1 \in Nat /\ 1 > 0
  OBVIOUS
<1> QED
  BY <1>3, <1>4, <1>5, <1>6 DEF CallInv

LEMMA RaiseKeeps ==
    ASSUME CallInv, Raise
    PROVE  CallInv'
  BY AfterSectionFacts, GoToKeeps DEF CallInv, Raise

LEMMA ClientStays ==
    ASSUME ClientInv, UNCHANGED <<mood, client>>
    PROVE  ClientInv'
  BY DEF ClientInv, client, WinnersHaveData

LEMMA InitStats == Init => StatsInv
<1> SUFFICES ASSUME Init PROVE StatsInv
  OBVIOUS
<1>1. /\ DOMAIN mood = Paths /\ \A path \in Paths : mood[path] \in Moods[path]
  BY DEF Init
<1>2. shape = [path \in Paths |-> "plain"] /\ \A path \in Paths : shape[path] \in Shapes(path)
  BY DEF Init, Shapes
<1>3. budget \in 0..Budget
  <2>1. budget = Budget
    BY DEF Init
  <2> QED
    BY <2>1, BudgetAssumption
<1>4. /\ candidates \in Seq(CandidateSources)
      /\ winner = [schema \in Schemas |-> Unresolved]
  <2>1. candidates = <<>> /\ winner = [schema \in Schemas |-> Unresolved]
    BY DEF Init
  <2> QED
    BY <2>1
<1>5. WinnersHaveData
  BY <1>4 DEF WinnersHaveData, Schemas
<1>6. ClientInv
  BY <1>1, <1>2, <1>3, <1>4, <1>5 DEF ClientInv
<1>7. Len(Calls) \in Nat
  BY CallsListed
<1>8. at = 0 /\ toTry = <<>>
  BY DEF Init
<1>10. stage = "start" /\ ~fellBack /\ next = 1 /\ result = ""
  BY DEF Init
<1>9. CallInv
  <2>1. at \in 0..Len(Calls)
    <3>1. PICK n \in Nat : n = Len(Calls)
      BY <1>7
    <3> QED
      BY <1>8, <3>1
  <2>2. toTry \in Seq(Tries)
    BY <1>8
  <2>3. 1 \in Nat /\ 1 > 0
    OBVIOUS
  <2> QED
    BY <1>8, <1>10, <2>1, <2>2, <2>3 DEF CallInv
<1> QED
  BY <1>6, <1>9 DEF StatsInv

------------------------------------------------------------------------------
(* Going from call to call. *)

LEMMA MoodKeeps ==
    ASSUME StatsInv, NEW path \in Paths, MoodChanges(path)
    PROVE  StatsInv'
<1>1. PICK other \in Moods[path] : mood' = [mood EXCEPT ![path] = other]
  BY DEF MoodChanges
<1>2. UNCHANGED <<client, position>>
  BY DEF MoodChanges
<1>3. DOMAIN mood' = Paths /\ \A p \in Paths : mood'[p] \in Moods[p]
  BY <1>1 DEF StatsInv, ClientInv
<1>4. ClientInv'
  BY <1>2, <1>3 DEF StatsInv, ClientInv, client, WinnersHaveData
<1>5. CallInv'
  BY <1>2 DEF StatsInv, CallInv, client, position, Call, HasData
<1> QED
  BY <1>4, <1>5 DEF StatsInv

LEMMA BeginPollKeeps ==
    ASSUME StatsInv, BeginPoll
    PROVE  StatsInv'
<1>1. budget' \in 0..Budget
  BY BudgetAssumption DEF BeginPoll
<1>2. ClientInv'
  BY <1>1 DEF BeginPoll, StatsInv, ClientInv, WinnersHaveData
<1>3. Len(Calls) \in Nat
  BY CallsListed
<1>4. CallInv'
  BY <1>3, GoToKeeps DEF BeginPoll
<1> QED
  BY <1>2, <1>4 DEF StatsInv

\* Nothing has been kept, or is being tried, while there is nothing to choose from.
LEMMA BuildCandidatesKeeps ==
    ASSUME StatsInv, BuildCandidates
    PROVE  StatsInv'
<1>1. /\ candidates = <<>> /\ candidates' \in CandidateLists /\ stage = "start"
      /\ UNCHANGED <<mood, shape, budget, winner, position>>
  BY DEF BuildCandidates
<1>2. candidates' \in Seq(CandidateSources)
  <2> DEFINE S == CandidateSources
  <2>1. /\ <<"status">> \in Seq(S) /\ <<"v1", "status">> \in Seq(S)
        /\ <<"status", "catalogue">> \in Seq(S) /\ <<"v1", "status", "catalogue">> \in Seq(S)
    BY DEF CandidateSources
  <2> QED
    BY <1>1, <2>1 DEF CandidateLists
<1>3. Named(candidates) = {}
  BY <1>1 DEF Named
<1>4. winner' \in [Schemas -> {Unresolved} \cup Named(candidates')]
  BY <1>1, <1>3 DEF StatsInv, ClientInv
<1>5. ClientInv'
  BY <1>1, <1>2, <1>4 DEF StatsInv, ClientInv, WinnersHaveData
<1>6. CallInv'
  BY <1>1 DEF StatsInv, CallInv, position, Call, HasData
<1> QED
  BY <1>5, <1>6 DEF StatsInv

LEMMA StartWithKeeps ==
    ASSUME StatsInv, at # 0, stage = "start",
           NEW tries \in Seq(Tries), tries # <<>>,
           Call.schema # "" => Named(tries) \subseteq Named(candidates),
           StartWith(tries)
    PROVE  StatsInv'
<1>1. /\ toTry' = tries /\ stage' = "request"
      /\ UNCHANGED <<mood, client, at, fellBack, next, result>>
  BY DEF StartWith
<1>2. ClientInv'
  BY <1>1, ClientStays DEF StatsInv
<1>3. CallInv'
  BY <1>1 DEF StatsInv, CallInv, client, Call
<1> QED
  BY <1>2, <1>3 DEF StatsInv

LEMMA StartCallKeeps ==
    ASSUME StatsInv, StartCall
    PROVE  StatsInv'
<1>1. at # 0 /\ stage = "start" /\ at \in 0..Len(Calls)
  BY DEF StartCall, StatsInv, CallInv
<1>2. CASE Call.schema = "" /\ StartWith(<<"">>)
  <2>1. "" \in Tries
    BY DEF Tries
  <2>2. <<"">> \in Seq(Tries) /\ <<"">> # <<>>
    BY <2>1, SingleFacts
  <2> QED
    BY <1>1, <1>2, <2>2, StartWithKeeps
<1>3. CASE Call.schema # "" /\ winner[Call.schema] # Unresolved
           /\ StartWith(<<winner[Call.schema]>>)
  <2>1. winner[Call.schema] \in Named(candidates)
    BY <1>1, <1>3, CallFacts DEF StatsInv, ClientInv
  <2>2. winner[Call.schema] \in CandidateSources
    BY <2>1, NamedFacts DEF StatsInv, ClientInv
  <2> DEFINE kept == winner[Call.schema]
  <2> HIDE DEF kept
  <2>3. <<kept>> \in Seq(Tries) /\ Named(<<kept>>) = {kept} /\ <<kept>> # <<>>
    <3>1. kept \in Tries
      BY <2>2 DEF kept, Tries
    <3> QED
      BY <3>1, SingleFacts
  <2> QED
    BY <1>1, <1>3, <2>1, <2>3, StartWithKeeps DEF kept
<1>4. CASE Call.schema # "" /\ candidates # <<>> /\ StartWith(candidates)
  <2>1. candidates \in Seq(CandidateSources)
    BY DEF StatsInv, ClientInv
  <2>2. candidates \in Seq(Tries)
    <3>1. CandidateSources \subseteq Tries
      BY DEF Tries
    <3> QED
      BY <2>1, <3>1, WiderSequence
  <2> QED
    BY <1>1, <1>4, <2>2, StartWithKeeps
<1> QED
  BY <1>2, <1>3, <1>4 DEF StartCall

------------------------------------------------------------------------------
(* _get_with_variants. *)

\* An answer comes back with data only under the id that has it.
LEMMA AnsweredToKeeps ==
    ASSUME CallInv, stage # "start", NEW sent, AnsweredTo(sent), UNCHANGED candidates
    PROVE  CallInv'
<1>1. /\ result' = (IF Call.schema # "" /\ Head(toTry) # Call.holder THEN "empty"
                    ELSE IF sent = "metricNames-repeated" /\ Call.metrics > 1 THEN "part"
                    ELSE "data")
      /\ stage' = "answered" /\ next' = 1
      /\ UNCHANGED <<at, fellBack, toTry>>
  BY DEF AnsweredTo
<1>2. result' \in {"", "data", "part", "empty"}
  BY <1>1
<1>3. Call' = Call /\ (HasData' /\ Call.schema # "" => Head(toTry) = Call.holder)
  BY <1>1 DEF Call, HasData
<1>4. 1 \in Nat /\ 1 > 0
  OBVIOUS
<1> QED
  BY <1>1, <1>2, <1>3, <1>4 DEF CallInv

LEMMA RequestKeeps ==
    ASSUME StatsInv, RequestAnswered \/ RequestFails \/ FallBack
    PROVE  StatsInv'
<1>1. ClientInv'
  BY ClientStays DEF RequestAnswered, RequestFails, FallBack, StatsInv
<1>2. at # 0 /\ stage = "request" /\ UNCHANGED candidates
  BY DEF RequestAnswered, RequestFails, FallBack, client
<1>3. CallInv'
  <2>1. CASE RequestAnswered
    BY <1>2, <2>1, AnsweredToKeeps DEF RequestAnswered, StatsInv
  <2>2. CASE RequestFails
    <3>1. CASE Raise
      BY <3>1, RaiseKeeps DEF StatsInv
    <3>2. CASE ~Raise
      <4>1. stage' = "probe" /\ next' = 1 /\ UNCHANGED <<at, fellBack, toTry, result>>
        BY <2>2, <3>2 DEF RequestFails
      <4>2. 1 \in Nat /\ 1 > 0
        OBVIOUS
      <4> QED
        BY <1>2, <4>1, <4>2 DEF StatsInv, CallInv, Call
    <3> QED
      BY <3>1, <3>2
  <2>3. CASE FallBack
    <3>1. fellBack' = TRUE /\ UNCHANGED <<at, stage, toTry, next, result>> /\ Path = "top-views"
      BY <2>3 DEF FallBack, IsVersionFork
    <3>2. Call.path = "top-views"
      BY <3>1 DEF Path
    <3> QED
      BY <1>2, <3>1, <3>2 DEF StatsInv, CallInv, Call, HasData
  <2> QED
    BY <2>1, <2>2, <2>3
<1> QED
  BY <1>1, <1>3 DEF StatsInv

\* What is spent is at most what is left.
LEMMA SpentFits ==
    ASSUME budget \in 0..Budget, NEW cost \in 1..budget, NEW sent \in 1..cost
    PROVE  budget - sent \in 0..Budget
  BY BudgetAssumption

LEMMA ProbeKeeps ==
    ASSUME StatsInv, VariantDoesNotApply \/ VariantAnswers \/ VariantFails \/ ProbeGivesUp
    PROVE  StatsInv'
<1>1. at # 0 /\ at \in 0..Len(Calls) /\ stage = "probe" /\ next \in Nat /\ next > 0
  BY DEF VariantDoesNotApply, VariantAnswers, VariantFails, ProbeGivesUp, Probing, StatsInv, CallInv
<1>6. next + 1 \in Nat /\ next + 1 > 0
  BY <1>1
<1>2. CASE VariantDoesNotApply
  <2>1. next' = next + 1 /\ UNCHANGED <<mood, client, at, stage, fellBack, toTry, result>>
    BY <1>2 DEF VariantDoesNotApply
  <2>2. ClientInv'
    BY <2>1, ClientStays DEF StatsInv
  <2>3. CallInv'
    BY <1>1, <1>6, <2>1 DEF StatsInv, CallInv, client, Call, HasData
  <2> QED
    BY <2>2, <2>3 DEF StatsInv
<1>3. CASE VariantAnswers
  <2>1. /\ Probing /\ Requests(Probed, Call) \in 1..budget
        /\ budget' = budget - Requests(Probed, Call)
        /\ shape' = [shape EXCEPT ![Path] = Probed]
        /\ AnsweredTo(Probed)
        /\ UNCHANGED <<mood, candidates, winner>>
    BY <1>3 DEF VariantAnswers
  <2>2. budget \in 0..Budget
    BY DEF StatsInv, ClientInv
  <2>3. Requests(Probed, Call) \in 1..Requests(Probed, Call)
    BY <2>1, <2>2
  <2>4. budget' \in 0..Budget
    BY <2>1, <2>2, <2>3, SpentFits
  <2>5. Path \in Paths
    BY <1>1, CallFacts
  <2>6. Probed \in Shapes(Path)
    <3>1. Len(Variants(Path)) \in Nat
      BY DEF Variants, TimeSeriesVariants, TopViewsVariants
    <3>2. next \in 1..Len(Variants(Path))
      BY <1>1, <2>1, <3>1 DEF Probing
    <3> QED
      BY <3>2 DEF Probed, Shapes, Named
  <2>7. DOMAIN shape' = Paths /\ \A path \in Paths : shape'[path] \in Shapes(path)
    BY <2>1, <2>5, <2>6 DEF StatsInv, ClientInv
  <2>8. ClientInv'
    BY <2>1, <2>4, <2>7 DEF StatsInv, ClientInv, WinnersHaveData
  <2>9. CallInv'
    BY <1>1, <2>1, AnsweredToKeeps DEF StatsInv
  <2> QED
    BY <2>8, <2>9 DEF StatsInv
<1>4. CASE VariantFails
  <2>1. /\ Requests(Probed, Call) \in 1..budget
        /\ next' = next + 1
        /\ UNCHANGED <<mood, shape, candidates, winner, at, stage, fellBack, toTry, result>>
    BY <1>4 DEF VariantFails
  <2>2. PICK sent \in 1..Requests(Probed, Call) : budget' = budget - sent
    BY <1>4 DEF VariantFails
  <2>3. budget' \in 0..Budget
    BY <2>1, <2>2, SpentFits DEF StatsInv, ClientInv
  <2>4. ClientInv'
    BY <2>1, <2>3 DEF StatsInv, ClientInv, WinnersHaveData
  <2>5. CallInv'
    BY <1>1, <1>6, <2>1 DEF StatsInv, CallInv, Call, HasData
  <2> QED
    BY <2>4, <2>5 DEF StatsInv
<1>5. CASE ProbeGivesUp
  BY <1>5, RaiseKeeps, ClientStays DEF ProbeGivesUp, StatsInv
<1> QED
  BY <1>2, <1>3, <1>4, <1>5

------------------------------------------------------------------------------
(* cluster_time_series and view_stats go on with what came back. *)

\* The candidate that is kept has just had data, and it is the one for every call of the schema.
LEMMA KeptHasData ==
    ASSUME StatsInv, stage = "answered", IsWinner,
           winner' = [winner EXCEPT ![Call.schema] = WinnerOf], UNCHANGED candidates
    PROVE  /\ winner' \in [Schemas -> {Unresolved} \cup Named(candidates')]
           /\ WinnersHaveData'
<1>1. at # 0 /\ at \in 0..Len(Calls) /\ toTry # <<>> /\ Call.schema # ""
  BY DEF StatsInv, CallInv, IsWinner
<1>2. Call \in Named(Calls) /\ Call.schema \in Schemas
  BY <1>1, CallFacts
<1>3. Head(toTry) = Call.holder
  BY <1>1 DEF StatsInv, CallInv, IsWinner
<1>4. Head(toTry) \in Named(candidates)
  <2>1. Head(toTry) \in Named(toTry)
    BY <1>1, NamedFacts DEF StatsInv, CallInv
  <2> QED
    BY <1>1, <2>1 DEF StatsInv, CallInv
<1>5. winner \in [Schemas -> {Unresolved} \cup Named(candidates)]
  BY DEF StatsInv, ClientInv
<1>6. winner' \in [Schemas -> {Unresolved} \cup Named(candidates')]
  BY <1>4, <1>5 DEF WinnerOf
<1>7. ASSUME NEW i \in DOMAIN Calls, Calls[i].schema # ""
      PROVE  winner'[Calls[i].schema] \in {Unresolved, Calls[i].holder}
  <2>1. Calls[i].schema \in Schemas
    BY <1>7 DEF Schemas
  <2>2. Calls[i] \in Named(Calls)
    BY CallsListed
  <2>3. CASE Calls[i].schema = Call.schema
    <3>1. Calls[i].holder = Call.holder
      BY <1>2, <1>7, <2>2, <2>3, CallsAssumption
    <3>2. winner'[Calls[i].schema] = Head(toTry)
      BY <1>5, <2>1, <2>3 DEF WinnerOf
    <3> QED
      BY <1>3, <3>1, <3>2
  <2>4. CASE Calls[i].schema # Call.schema
    <3>1. winner'[Calls[i].schema] = winner[Calls[i].schema]
      BY <1>5, <2>1, <2>4
    <3> QED
      BY <1>7, <3>1 DEF StatsInv, ClientInv, WinnersHaveData
  <2> QED
    BY <2>3, <2>4
<1> QED
  BY <1>6, <1>7 DEF WinnersHaveData

LEMMA CallReturnsKeeps ==
    ASSUME StatsInv, CallReturns
    PROVE  StatsInv'
<1>1. /\ at # 0 /\ stage = "answered" /\ GoTo(at + 1)
      /\ UNCHANGED <<mood, shape, budget, candidates>>
      /\ winner' = IF IsWinner THEN [winner EXCEPT ![Call.schema] = WinnerOf] ELSE winner
  BY DEF CallReturns
<1>2. /\ winner' \in [Schemas -> {Unresolved} \cup Named(candidates')]
      /\ WinnersHaveData'
  <2>1. CASE IsWinner
    BY <1>1, <2>1, KeptHasData
  <2>2. CASE ~IsWinner
    BY <1>1, <2>2 DEF StatsInv, ClientInv, WinnersHaveData
  <2> QED
    BY <2>1, <2>2
<1>3. ClientInv'
  BY <1>1, <1>2 DEF StatsInv, ClientInv
<1>4. at + 1 \in 1..(Len(Calls) + 1)
  <2>1. PICK n \in Nat : n = Len(Calls)
    BY CallsListed
  <2>2. at \in 0..n
    BY <2>1 DEF StatsInv, CallInv
  <2>3. at + 1 \in 1..(n + 1)
    BY <2>2
  <2> QED
    BY <2>1, <2>3
<1>5. CallInv'
  BY <1>1, <1>4, GoToKeeps
<1> QED
  BY <1>3, <1>5 DEF StatsInv

LEMMA NextCandidateKeeps ==
    ASSUME StatsInv, NextCandidate
    PROVE  StatsInv'
<1>1. /\ at # 0 /\ stage = "answered" /\ Len(toTry) > 1
      /\ toTry' = Tail(toTry) /\ stage' = "request" /\ result' = ""
      /\ UNCHANGED <<mood, client, at, fellBack, next>>
  BY DEF NextCandidate
<1>2. ClientInv'
  BY <1>1, ClientStays DEF StatsInv
<1>3. toTry \in Seq(Tries) /\ toTry # <<>>
  BY <1>1 DEF StatsInv, CallInv
<1>4. /\ toTry' \in Seq(Tries) /\ toTry' # <<>>
      /\ Named(toTry') \subseteq Named(toTry)
  BY <1>1, <1>3, NamedFacts
<1>5. CallInv'
  BY <1>1, <1>4 DEF StatsInv, CallInv, client, Call
<1> QED
  BY <1>2, <1>5 DEF StatsInv

------------------------------------------------------------------------------

LEMMA StatsStep == StatsInv /\ [Next]_vars => StatsInv'
<1>1. StatsInv /\ Poll => StatsInv'
  BY BeginPollKeeps, BuildCandidatesKeeps, StartCallKeeps, RequestKeeps, ProbeKeeps,
     CallReturnsKeeps, NextCandidateKeeps DEF Poll
<1>2. StatsInv /\ (\E path \in Paths : MoodChanges(path)) => StatsInv'
  BY MoodKeeps
<1>3. StatsInv /\ UNCHANGED vars => StatsInv'
  <2> SUFFICES ASSUME StatsInv, UNCHANGED vars PROVE StatsInv'
    OBVIOUS
  <2>1. ClientInv'
    BY ClientStays DEF StatsInv, vars
  <2>2. CallInv'
    BY DEF StatsInv, CallInv, vars, client, position, Call, HasData
  <2> QED
    BY <2>1, <2>2 DEF StatsInv
<1> QED
  BY <1>1, <1>2, <1>3 DEF Next

LEMMA StatsAlways == Spec => []StatsInv
  BY InitStats, StatsStep, PTL DEF Spec

\* The requests the probing of a poll spends never exceed its budget, whatever the shapes cost and
\* wherever a variant of several requests fails; and only candidates that were offered are kept.
THEOREM StatsTypeCorrect == Spec => []TypeOK
<1>1. StatsInv => TypeOK
  BY NamedFacts DEF StatsInv, ClientInv, CallInv, TypeOK, Tries
<1> QED
  BY <1>1, StatsAlways, PTL

\* A candidate is kept for a schema only if the cluster has the schema's data under it, whichever
\* call of the schema it was found by and however its requests had to be shaped.
THEOREM OnlyCandidatesWithDataAreKept == Spec => []WinnersHaveData
<1>1. StatsInv => WinnersHaveData
  BY DEF StatsInv, ClientInv
<1> QED
  BY <1>1, StatsAlways, PTL

==============================================================================
