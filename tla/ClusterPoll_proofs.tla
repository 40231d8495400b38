--------------------------- MODULE ClusterPoll_proofs ---------------------------
(***************************************************************************)
(* Proofs about ClusterPoll, for any sections, any number of requests of   *)
(* each and any faults.                                                    *)
(*                                                                         *)
(* What is behind every statement is where a fact is: in the queue, or     *)
(* gone once, or lost once, and never in two of these places; and where a  *)
(* section is: still to do, or reported in full, or failed.                *)
(***************************************************************************)
EXTENDS ClusterPoll, TLAPS

\* Where a fact is.
FactsInv ==
    /\ diagnosed \subseteq Facts /\ pending \subseteq diagnosed
    /\ everFailed \subseteq diagnosed
    /\ lost \subseteq diagnosed
    /\ sent \in [Facts -> 0..2]
    /\ \A f \in Facts :
          /\ sent[f] \in {0, 1}
          /\ sent[f] = 1 => f \in diagnosed /\ f \notin pending /\ f \notin lost
          /\ f \in pending => f \notin lost
          /\ f \in diagnosed => sent[f] = 1 \/ f \in pending \/ f \in lost
    /\ phase = "idle" => pending = {}

LEMMA FactsInit == Init => FactsInv
  BY DEF Init, FactsInv

\* What a client learns goes into the queue once, and what has left or been lost stays away from it.
LEMMA LearningKeepsFacts ==
    ASSUME FactsInv, NEW fact \in Facts, Learn(fact), phase # "idle", phase' # "idle",
           everFailed' \in {everFailed, everFailed \cup {fact}},
           UNCHANGED <<sent, lost>>
    PROVE  FactsInv'
<1>1. diagnosed' = diagnosed \cup {fact} /\ pending' \subseteq pending \cup {fact}
  BY DEF Learn
<1>2. CASE fact \in diagnosed
  <2>1. UNCHANGED <<diagnosed, pending>>
    BY <1>2 DEF Learn
  <2>2. everFailed' \subseteq diagnosed
    BY <1>2 DEF FactsInv
  <2> QED
    BY <2>1, <2>2 DEF FactsInv
<1>3. CASE fact \notin diagnosed
  <2>1. pending' = pending \cup {fact}
    BY <1>3 DEF Learn
  <2>2. sent[fact] = 0 /\ fact \notin lost /\ fact \notin pending
    BY <1>3 DEF FactsInv
  <2> QED
    BY <1>1, <2>1, <2>2 DEF FactsInv
<1> QED
  BY <1>2, <1>3

\* Handing over drains the queue, whether what is in it leaves or is lost.
LEMMA ReportingKeepsFacts ==
    ASSUME FactsInv, NEW leaves \in BOOLEAN, ReportDiagnostics(leaves)
    PROVE  FactsInv'
<1>1. pending' = {} /\ UNCHANGED <<diagnosed, everFailed>>
  BY DEF ReportDiagnostics
<1>2. CASE leaves
  <2>1. lost' = lost /\ sent' = [f \in Facts |-> IF f \in pending /\ sent[f] < 2
                                                 THEN sent[f] + 1 ELSE sent[f]]
    BY <1>2 DEF ReportDiagnostics
  <2>2. \A f \in Facts : sent'[f] = IF f \in pending THEN 1 ELSE sent[f]
    BY <2>1 DEF FactsInv
  <2>3. sent' \in [Facts -> 0..2]
    BY <2>1, <2>2 DEF FactsInv
  <2> QED
    BY <1>1, <2>1, <2>2, <2>3 DEF FactsInv
<1>3. CASE ~leaves
  <2>1. lost' = lost \cup pending /\ sent' = [f \in Facts |-> sent[f]]
    BY <1>3 DEF ReportDiagnostics
  <2>2. sent' = sent
    BY <2>1 DEF FactsInv
  <2> QED
    BY <1>1, <2>1, <2>2 DEF FactsInv
<1> QED
  BY <1>2, <1>3

\* A poll does not begin or restart with a fact of the client before.
LEMMA RestartKeepsFacts == Restart => FactsInv'
<1> SUFFICES ASSUME Restart PROVE FactsInv'
  OBVIOUS
<1>1. diagnosed' = {} /\ pending' = {} /\ everFailed' = {} /\ lost' = {}
  BY DEF Restart
<1>2. sent' = [f \in Facts |-> 0]
  BY DEF Restart
<1> QED
  BY <1>1, <1>2 DEF FactsInv

------------------------------------------------------------------------------
(* Where the sections are. *)

\* The sections before the first one to do have been heard, and that one has reported its first
\* parts; nothing behind it has begun.
Place == Len(Sections) - Len(todo)

Heard(s) == reported[s] = Parts[s] \/ s \in failed

SectionTypes ==
    /\ phase \in {"idle", "status", "sections", "diagnostics"}
    /\ success \in {"none", "0", "1"}
    /\ failed \subseteq SectionNames
    /\ reported \in [SectionNames -> Nat]
    /\ part \in Nat
    /\ todo \in Seq(SectionNames)
    /\ Len(todo) <= Len(Sections)
    /\ todo = <<>> => part = 0

\* What is to do is the rest of the sections.
InOrder == \A i \in 1..Len(todo) : todo[i] = Sections[Place + i]

HeardSoFar == \A i \in 1..Place : Heard(Sections[i])

Underway ==
    /\ \A i \in 2..Len(todo) : reported[todo[i]] = 0
    /\ todo # <<>> => part < Parts[Head(todo)] /\ reported[Head(todo)] = part

SectionsInv ==
    /\ SectionTypes
    /\ phase = "status" => reported = [s \in SectionNames |-> 0]
    /\ phase # "sections" => todo = <<>>
    /\ phase = "sections" => success = "1" /\ InOrder /\ HeardSoFar /\ Underway
    /\ EverySectionHeard

LEMMA LengthOfSections == Len(Sections) \in Nat /\ Sections \in Seq(SectionNames)
  BY SectionsAssumption

LEMMA SectionsInit == Init => SectionsInv
<1> SUFFICES ASSUME Init PROVE SectionsInv
  OBVIOUS
<1>1. /\ phase = "idle" /\ todo = <<>> /\ part = 0 /\ success = "none" /\ failed = {}
      /\ reported = [s \in SectionNames |-> 0]
  BY DEF Init
<1>2. todo \in Seq(SectionNames) /\ Len(todo) = 0
  BY <1>1
<1>3. SectionTypes
  BY <1>1, <1>2, LengthOfSections DEF SectionTypes
<1> QED
  BY <1>1, <1>3 DEF SectionsInv, EverySectionHeard

\* The sections are lined up.
LEMMA GoingOnKeepsSections ==
    ASSUME SectionsInv, phase = "status", GoOn
    PROVE  SectionsInv'
<1>1. /\ success' = "1" /\ phase' = "sections" /\ todo' = Sections /\ part' = 0
      /\ reported' = reported /\ failed' = failed
  BY DEF GoOn
<1>2. SectionTypes'
  BY <1>1, LengthOfSections DEF SectionsInv, SectionTypes
<1>3. Place' = 0
  BY <1>1, LengthOfSections DEF Place
<1>4. InOrder' /\ HeardSoFar'
  BY <1>1, <1>3, LengthOfSections DEF InOrder, HeardSoFar
<1>5. Underway'
  <2>1. \A s \in SectionNames : reported'[s] = 0
    BY <1>1 DEF SectionsInv
  <2>2. \A i \in 1..Len(Sections) : Sections[i] \in SectionNames
    BY DEF SectionNames
  <2>3. \A i \in 2..Len(todo') : reported'[todo'[i]] = 0
    BY <1>1, <2>1, <2>2, LengthOfSections
  <2>4. ASSUME todo' # <<>>
        PROVE  part' < Parts[Head(todo')] /\ reported'[Head(todo')] = part'
    <3>1. Head(Sections) = Sections[1] /\ 1 \in 1..Len(Sections)
      BY <1>1, <2>4, LengthOfSections
    <3>2. Parts[Sections[1]] \in Nat \ {0} /\ reported'[Sections[1]] = 0
      BY <2>1, <2>2, <3>1, SectionsAssumption
    <3> QED
      BY <1>1, <3>1, <3>2
  <2> QED
    BY <2>3, <2>4 DEF Underway
<1> QED
  BY <1>1, <1>2, <1>4, <1>5 DEF SectionsInv, EverySectionHeard

\* The first section to do, where it stands among the sections.
LEMMA FirstToDo ==
    ASSUME SectionsInv, phase = "sections", todo # <<>>
    PROVE  /\ Len(todo) \in Nat \ {0} /\ Place \in Nat /\ Place + 1 \in 1..Len(Sections)
           /\ Head(todo) = todo[1] /\ Head(todo) = Sections[Place + 1]
           /\ Head(todo) \in SectionNames
           /\ Parts[Head(todo)] \in Nat \ {0}
<1>1. todo \in Seq(SectionNames) /\ Len(todo) <= Len(Sections)
  BY DEF SectionsInv, SectionTypes
<1>2. Len(todo) \in Nat \ {0} /\ Head(todo) = todo[1] /\ Head(todo) \in SectionNames
  BY <1>1
<1>3. Place \in Nat /\ Place + 1 \in 1..Len(Sections)
  BY <1>1, <1>2, LengthOfSections DEF Place
<1>4. todo[1] = Sections[Place + 1]
  BY <1>2 DEF SectionsInv, InOrder
<1> QED
  BY <1>2, <1>3, <1>4, SectionsAssumption

\* A section that has been heard makes room for the next, which has not begun.
LEMMA MovingOnKeepsSections ==
    ASSUME SectionsInv, phase = "sections", todo # <<>>, NextSection,
           UNCHANGED <<phase, success>>,
           failed' \in SUBSET SectionNames, failed \subseteq failed',
           reported' \in [SectionNames -> Nat],
           \A s \in SectionNames \ {Head(todo)} : reported'[s] = reported[s],
           reported'[Head(todo)] = Parts[Head(todo)] \/ Head(todo) \in failed'
    PROVE  SectionsInv'
<1>1. /\ Len(todo) \in Nat \ {0} /\ Place \in Nat /\ Place + 1 \in 1..Len(Sections)
      /\ Head(todo) = todo[1] /\ Head(todo) = Sections[Place + 1]
      /\ Head(todo) \in SectionNames
  BY FirstToDo
<1>2. todo \in Seq(SectionNames) /\ Len(todo) <= Len(Sections)
  BY DEF SectionsInv, SectionTypes
<1>3. todo' = Tail(todo) /\ part' = 0
  BY DEF NextSection
<1>4. /\ todo' \in Seq(SectionNames) /\ Len(todo') = Len(todo) - 1
      /\ \A i \in 1..Len(todo') : todo'[i] = todo[i + 1]
  BY <1>1, <1>2, <1>3
<1>5. Place' = Place + 1
  BY <1>1, <1>4, LengthOfSections DEF Place
<1>6. SectionTypes'
  BY <1>1, <1>2, <1>3, <1>4 DEF SectionsInv, SectionTypes
<1>7. InOrder'
  <2> SUFFICES ASSUME NEW i \in 1..Len(todo')
               PROVE  todo'[i] = Sections[(Place + 1) + i]
    BY <1>5 DEF InOrder
  <2>1. i + 1 \in 1..Len(todo) /\ Place + (i + 1) = (Place + 1) + i
    BY <1>1, <1>4
  <2>2. todo[i + 1] = Sections[Place + (i + 1)]
    BY <2>1 DEF SectionsInv, InOrder
  <2> QED
    BY <1>4, <2>1, <2>2
<1>8. ASSUME NEW j \in 1..Len(Sections), j # Place + 1
      PROVE  Sections[j] \in SectionNames \ {Head(todo)}
  <2>1. Sections[j] \in SectionNames
    BY DEF SectionNames
  <2>2. Sections[j] # Sections[Place + 1]
    BY <1>1, <1>8, SectionsAssumption
  <2> QED
    BY <1>1, <2>1, <2>2
<1>9. HeardSoFar'
  <2> SUFFICES ASSUME NEW i \in 1..(Place + 1)
               PROVE  Heard(Sections[i])'
    BY <1>5, LengthOfSections DEF HeardSoFar
  <2>1. CASE i = Place + 1
    BY <1>1, <2>1 DEF Heard
  <2>2. CASE i # Place + 1
    <3>1. i \in 1..Place /\ i \in 1..Len(Sections)
      BY <1>1, <2>2, LengthOfSections
    <3>2. Heard(Sections[i])
      BY <3>1 DEF SectionsInv, HeardSoFar
    <3>3. reported'[Sections[i]] = reported[Sections[i]]
      BY <1>8, <2>2, <3>1
    <3> QED
      BY <3>2, <3>3 DEF Heard
  <2> QED
    BY <2>1, <2>2
<1>10. ASSUME NEW i \in 1..Len(todo')
       PROVE  reported'[todo'[i]] = 0
  <2>1. i + 1 \in 2..Len(todo) /\ i + 1 \in 1..Len(todo)
    BY <1>1, <1>4
  <2>2. reported[todo[i + 1]] = 0
    BY <2>1 DEF SectionsInv, Underway
  <2>3. todo[i + 1] = Sections[Place + (i + 1)]
    BY <2>1 DEF SectionsInv, InOrder
  <2>4. Place + (i + 1) \in 1..Len(Sections) /\ Place + (i + 1) # Place + 1
    BY <1>1, <1>2, <2>1, LengthOfSections DEF Place
  <2>5. todo[i + 1] \in SectionNames \ {Head(todo)}
    BY <1>8, <2>3, <2>4
  <2> QED
    BY <1>4, <2>2, <2>5
<1>11. Underway'
  <2>1. \A i \in 2..Len(todo') : reported'[todo'[i]] = 0
    BY <1>1, <1>4, <1>10
  <2>2. ASSUME todo' # <<>>
        PROVE  part' < Parts[Head(todo')] /\ reported'[Head(todo')] = part'
    <3>1. Head(todo') = todo'[1] /\ 1 \in 1..Len(todo') /\ todo'[1] \in SectionNames
      BY <1>4, <2>2
    <3>2. reported'[todo'[1]] = 0
      BY <1>10, <3>1
    <3>3. Parts[todo'[1]] \in Nat \ {0}
      BY <3>1, SectionsAssumption
    <3> QED
      BY <1>3, <3>1, <3>2, <3>3
  <2> QED
    BY <2>1, <2>2 DEF Underway
<1> QED
  BY <1>6, <1>7, <1>9, <1>11 DEF SectionsInv, EverySectionHeard

\* A part of the section is reported, and it was not the last one.
LEMMA StayingKeepsSections ==
    ASSUME SectionsInv, phase = "sections", todo # <<>>, part + 1 < Parts[Head(todo)],
           part' = part + 1, reported' = [reported EXCEPT ![Head(todo)] = @ + 1],
           UNCHANGED <<phase, todo, success, failed>>
    PROVE  SectionsInv'
<1>1. /\ Len(todo) \in Nat \ {0} /\ Place \in Nat /\ Place + 1 \in 1..Len(Sections)
      /\ Head(todo) = todo[1] /\ Head(todo) = Sections[Place + 1]
      /\ Head(todo) \in SectionNames
  BY FirstToDo
<1>2. /\ todo \in Seq(SectionNames) /\ Len(todo) <= Len(Sections)
      /\ part \in Nat /\ reported \in [SectionNames -> Nat]
  BY DEF SectionsInv, SectionTypes
<1>3. part = reported[Head(todo)] /\ reported'[Head(todo)] = part'
  BY <1>1, <1>2 DEF SectionsInv, Underway
<1>4. /\ reported' \in [SectionNames -> Nat]
      /\ \A s \in SectionNames \ {Head(todo)} : reported'[s] = reported[s]
  BY <1>1, <1>2
<1>5. ASSUME NEW j \in 1..Len(Sections), j # Place + 1
      PROVE  Sections[j] \in SectionNames \ {Head(todo)}
  <2>1. Sections[j] \in SectionNames
    BY DEF SectionNames
  <2>2. Sections[j] # Sections[Place + 1]
    BY <1>1, <1>5, SectionsAssumption
  <2> QED
    BY <1>1, <2>1, <2>2
<1>6. SectionTypes'
  BY <1>2, <1>4 DEF SectionsInv, SectionTypes
<1>7. InOrder' /\ Place' = Place
  BY DEF SectionsInv, InOrder, Place
<1>8. HeardSoFar'
  <2> SUFFICES ASSUME NEW i \in 1..Place
               PROVE  Heard(Sections[i])'
    BY <1>7 DEF HeardSoFar
  <2>1. i \in 1..Len(Sections) /\ i # Place + 1
    BY <1>1, LengthOfSections
  <2>2. Heard(Sections[i])
    BY DEF SectionsInv, HeardSoFar
  <2> QED
    BY <1>4, <1>5, <2>1, <2>2 DEF Heard
<1>9. Underway'
  <2>1. ASSUME NEW i \in 2..Len(todo)
        PROVE  reported'[todo[i]] = 0
    <3>1. i \in 1..Len(todo) /\ Place + i \in 1..Len(Sections) /\ Place + i # Place + 1
      BY <1>1, <1>2, <2>1, LengthOfSections DEF Place
    <3>2. todo[i] = Sections[Place + i]
      BY <3>1 DEF SectionsInv, InOrder
    <3>3. todo[i] \in SectionNames \ {Head(todo)}
      BY <1>5, <3>1, <3>2
    <3>4. reported[todo[i]] = 0
      BY DEF SectionsInv, Underway
    <3> QED
      BY <1>4, <3>3, <3>4
  <2> QED
    BY <1>3, <2>1 DEF Underway
<1> QED
  BY <1>6, <1>7, <1>8, <1>9 DEF SectionsInv, EverySectionHeard

\* All of them have been heard.
LEMMA DoneKeepsSections ==
    ASSUME SectionsInv, SectionsDone
    PROVE  SectionsInv'
<1>1. /\ phase = "sections" /\ todo = <<>> /\ phase' = "diagnostics"
      /\ UNCHANGED <<todo, part, success, reported, failed>>
  BY DEF SectionsDone, seenVars
<1>2. Place = Len(Sections)
  BY <1>1, LengthOfSections DEF Place
<1>3. \A s \in SectionNames : Heard(s)
  BY <1>1, <1>2 DEF SectionsInv, HeardSoFar, SectionNames
<1>4. EverySectionHeard'
  BY <1>1, <1>3 DEF EverySectionHeard, Heard
<1>5. SectionTypes'
  BY <1>1 DEF SectionsInv, SectionTypes
<1> QED
  BY <1>1, <1>4, <1>5 DEF SectionsInv

------------------------------------------------------------------------------
(* Every step. *)

Switches == up \in BOOLEAN /\ cached \in BOOLEAN /\ answered \in BOOLEAN

PollInv == FactsInv /\ SectionsInv /\ Switches

LEMMA PollInit == Init => PollInv
<1>1. Init => Switches
  BY DEF Init, Switches
<1> QED
  BY <1>1, FactsInit, SectionsInit DEF PollInv

LEMMA SwitchesStay ==
    ASSUME PollInv, [Next]_vars
    PROVE  Switches'
<1>1. up' \in {up, ~up} /\ cached' \in {cached, TRUE, FALSE} /\ answered' \in {answered, TRUE, FALSE, up, answered \/ up}
  BY DEF Next, Poll, ClusterTurns, BeginPoll, StatusFromCache, StatusAnswers, StatusFails,
         PartReported, SectionFails, SectionsDone, ReportDiagnostics, Restart, vars, seenVars
<1> QED
  BY <1>1 DEF PollInv, Switches

LEMMA UntouchedStays ==
    ASSUME PollInv, UNCHANGED <<phase, todo, part, factVars, success, reported, failed, lifeVars>>
    PROVE  FactsInv' /\ SectionsInv'
<1>1. FactsInv'
  BY DEF PollInv, FactsInv, factVars, lifeVars
<1>2. SectionsInv'
  BY DEF PollInv, SectionsInv, SectionTypes, InOrder, HeardSoFar, Underway, Heard, Place,
         EverySectionHeard
<1> QED
  BY <1>1, <1>2

\* Between the sections: what they have come to stays, and there is nothing to do.
LEMMA OutsideSections ==
    ASSUME SectionsInv, phase # "sections", phase' # "sections",
           UNCHANGED <<todo, part>>,
           success' \in {"none", "0", "1"}, failed' \in SUBSET SectionNames,
           reported' \in [SectionNames -> Nat],
           phase' \in {"idle", "status", "diagnostics"},
           phase' = "status" => reported' = [s \in SectionNames |-> 0],
           phase' = "diagnostics" => success' = "0"
    PROVE  SectionsInv'
<1>1. SectionTypes'
  BY DEF SectionsInv, SectionTypes
<1> QED
  BY <1>1 DEF SectionsInv, EverySectionHeard

LEMMA BeginPollStays ==
    ASSUME PollInv, BeginPoll
    PROVE  FactsInv' /\ SectionsInv'
<1>1. FactsInv'
  BY DEF PollInv, FactsInv, BeginPoll, factVars, lifeVars
<1>2. /\ phase = "idle" /\ phase' = "status" /\ success' = "none" /\ failed' = {}
      /\ reported' = [s \in SectionNames |-> 0] /\ UNCHANGED <<todo, part>>
  BY DEF BeginPoll
<1> QED
  BY <1>1, <1>2, OutsideSections DEF PollInv

LEMMA StatusStays ==
    ASSUME PollInv, StatusFromCache \/ StatusAnswers \/ StatusFails
    PROVE  FactsInv' /\ SectionsInv'
<1>1. CASE StatusFromCache
  <2>1. phase = "status" /\ phase' = "sections" /\ GoOn
    BY <1>1 DEF StatusFromCache, GoOn
  <2>2. FactsInv'
    BY <1>1, <2>1 DEF StatusFromCache, PollInv, FactsInv, factVars, lifeVars
  <2> QED
    BY <2>1, <2>2, GoingOnKeepsSections DEF PollInv
<1>2. CASE StatusAnswers
  <2>1. /\ phase = "status" /\ phase' = "sections" /\ GoOn /\ Learn(VersionFact)
        /\ UNCHANGED <<everFailed, sent, lost>>
    BY <1>2 DEF StatusAnswers, GoOn, lifeVars
  <2>2. FactsInv'
    BY <2>1, LearningKeepsFacts DEF PollInv, Facts
  <2> QED
    BY <2>1, <2>2, GoingOnKeepsSections DEF PollInv
<1>3. CASE StatusFails
  <2>1. /\ phase = "status" /\ phase' = "diagnostics" /\ Learn(StatusLabel)
        /\ everFailed' = everFailed \cup {StatusLabel} /\ success' = "0"
        /\ UNCHANGED <<todo, part, reported, failed, sent, lost>>
    BY <1>3 DEF StatusFails
  <2>2. FactsInv'
    BY <2>1, LearningKeepsFacts DEF PollInv, Facts
  <2>3. failed \in SUBSET SectionNames /\ reported \in [SectionNames -> Nat]
    BY DEF PollInv, SectionsInv, SectionTypes
  <2> QED
    BY <2>1, <2>2, <2>3, OutsideSections DEF PollInv
<1> QED
  BY <1>1, <1>2, <1>3

LEMMA PartReportedStays ==
    ASSUME PollInv, PartReported
    PROVE  FactsInv' /\ SectionsInv'
<1>1. /\ phase = "sections" /\ todo # <<>>
      /\ reported' = [reported EXCEPT ![Head(todo)] = @ + 1]
      /\ UNCHANGED <<phase, factVars, success, failed, lifeVars>>
  BY DEF PartReported
<1>2. FactsInv'
  BY <1>1 DEF PollInv, FactsInv, factVars, lifeVars
<1>3. CASE part + 1 < Parts[Head(todo)]
  <2>1. part' = part + 1 /\ UNCHANGED todo
    BY <1>3 DEF PartReported
  <2> QED
    BY <1>1, <1>2, <1>3, <2>1, StayingKeepsSections DEF PollInv
<1>4. CASE ~(part + 1 < Parts[Head(todo)])
  <2>1. NextSection
    BY <1>4 DEF PartReported
  <2>2. Head(todo) \in SectionNames /\ Parts[Head(todo)] \in Nat \ {0}
    BY <1>1, FirstToDo DEF PollInv
  <2>3. reported \in [SectionNames -> Nat] /\ part \in Nat /\ failed \in SUBSET SectionNames
    BY DEF PollInv, SectionsInv, SectionTypes
  <2>4. part < Parts[Head(todo)] /\ reported[Head(todo)] = part
    BY <1>1 DEF PollInv, SectionsInv, Underway
  <2>5. /\ reported' \in [SectionNames -> Nat]
        /\ \A s \in SectionNames \ {Head(todo)} : reported'[s] = reported[s]
        /\ reported'[Head(todo)] = part + 1
    BY <1>1, <2>2, <2>3, <2>4
  <2>6. reported'[Head(todo)] = Parts[Head(todo)]
    BY <1>4, <2>2, <2>3, <2>4, <2>5
  <2> QED
    BY <1>1, <1>2, <2>1, <2>3, <2>5, <2>6, MovingOnKeepsSections DEF PollInv
<1> QED
  BY <1>3, <1>4

LEMMA SectionFailsStays ==
    ASSUME PollInv, SectionFails
    PROVE  FactsInv' /\ SectionsInv'
<1>1. /\ phase = "sections" /\ todo # <<>> /\ Learn(Head(todo)) /\ NextSection
      /\ failed' = failed \cup {Head(todo)} /\ everFailed' = everFailed \cup {Head(todo)}
      /\ UNCHANGED <<phase, success, reported, sent, lost>>
  BY DEF SectionFails
<1>2. Head(todo) \in SectionNames /\ Head(todo) \in Facts
  BY <1>1, FirstToDo DEF PollInv, Facts
<1>3. FactsInv'
  BY <1>1, <1>2, LearningKeepsFacts DEF PollInv
<1>4. reported \in [SectionNames -> Nat] /\ failed \in SUBSET SectionNames
  BY DEF PollInv, SectionsInv, SectionTypes
<1> QED
  BY <1>1, <1>2, <1>3, <1>4, MovingOnKeepsSections DEF PollInv

LEMMA DiagnosticsStay ==
    ASSUME PollInv, NEW leaves \in BOOLEAN, ReportDiagnostics(leaves)
    PROVE  FactsInv' /\ SectionsInv'
<1>1. /\ phase = "diagnostics" /\ phase' = "idle"
      /\ UNCHANGED <<todo, part, success, reported, failed>>
  BY DEF ReportDiagnostics, seenVars
<1>2. /\ reported \in [SectionNames -> Nat] /\ failed \in SUBSET SectionNames
      /\ success \in {"none", "0", "1"}
  BY DEF PollInv, SectionsInv, SectionTypes
<1> QED
  BY <1>1, <1>2, ReportingKeepsFacts, OutsideSections DEF PollInv

LEMMA RestartStays ==
    ASSUME PollInv, Restart
    PROVE  FactsInv' /\ SectionsInv'
<1>1. /\ phase' = "idle" /\ todo' = <<>> /\ part' = 0
      /\ UNCHANGED <<success, reported, failed>>
  BY DEF Restart, seenVars
<1>2. todo' \in Seq(SectionNames) /\ Len(todo') = 0
  BY <1>1
<1>3. SectionTypes'
  BY <1>1, <1>2, LengthOfSections DEF PollInv, SectionsInv, SectionTypes
<1>4. SectionsInv'
  BY <1>1, <1>3 DEF SectionsInv, EverySectionHeard
<1> QED
  BY <1>4, RestartKeepsFacts

LEMMA PollStep ==
    ASSUME PollInv, [Next]_vars
    PROVE  PollInv'
<1>1. CASE ClusterTurns \/ UNCHANGED vars
  <2>1. UNCHANGED <<phase, todo, part, factVars, success, reported, failed, lifeVars>>
    BY <1>1 DEF ClusterTurns, vars, pollVars, seenVars
  <2> QED
    BY <2>1, UntouchedStays, SwitchesStay DEF PollInv
<1>2. CASE BeginPoll
  BY <1>2, BeginPollStays, SwitchesStay DEF PollInv
<1>3. CASE StatusFromCache \/ StatusAnswers \/ StatusFails
  BY <1>3, StatusStays, SwitchesStay DEF PollInv
<1>4. CASE PartReported
  BY <1>4, PartReportedStays, SwitchesStay DEF PollInv
<1>5. CASE SectionFails
  BY <1>5, SectionFailsStays, SwitchesStay DEF PollInv
<1>6. CASE SectionsDone
  <2>1. FactsInv'
    BY <1>6 DEF SectionsDone, PollInv, FactsInv, factVars, lifeVars
  <2> QED
    BY <1>6, <2>1, DoneKeepsSections, SwitchesStay DEF PollInv
<1>7. CASE \E leaves \in BOOLEAN : ReportDiagnostics(leaves)
  BY <1>7, DiagnosticsStay, SwitchesStay DEF PollInv
<1>8. CASE Restart
  BY <1>8, RestartStays, SwitchesStay DEF PollInv
<1> QED
  BY <1>1, <1>2, <1>3, <1>4, <1>5, <1>6, <1>7, <1>8 DEF Next, Poll

LEMMA PollAlways == Spec => []PollInv
  BY PollInit, PollStep, PTL DEF Spec

------------------------------------------------------------------------------
\* Whatever sections there are and however many requests each makes, the state stays what it is
\* meant to be; a section in progress never reports beyond its last part.
THEOREM PollTypeCorrect == Spec => []TypeOK
<1>1. PollInv => TypeOK
  <2> SUFFICES ASSUME PollInv PROVE TypeOK
    OBVIOUS
  <2>1. todo # <<>> => part < Parts[Head(todo)]
    BY DEF PollInv, SectionsInv, Underway
  <2> QED
    BY <2>1 DEF PollInv, FactsInv, SectionsInv, SectionTypes, Switches, TypeOK
<1> QED
  BY <1>1, PollAlways, PTL

\* The sections of a poll do not stand in each other's way: whichever of them fail, wherever in
\* them the cluster goes down, every other one is collected to its last part.
THEOREM SectionsAreIndependent == Spec => []EverySectionHeard
<1>1. PollInv => EverySectionHeard
  BY DEF PollInv, SectionsInv
<1> QED
  BY <1>1, PollAlways, PTL

\* The record of a fact leaves a client at most once, however often the fact is learned again and
\* however sending it ended.
THEOREM NoFactLeavesTwice == Spec => []FactsLeaveOnce
<1>1. PollInv => FactsLeaveOnce
  <2> SUFFICES ASSUME PollInv, NEW f \in Facts
               PROVE  sent[f] + (IF f \in lost THEN 1 ELSE 0) <= 1
    BY DEF FactsLeaveOnce
  <2> QED
    BY DEF PollInv, FactsInv
<1> QED
  BY <1>1, PollAlways, PTL

\* No failure is kept back: between polls each one this client had has been handed over, also when
\* the poll it belongs to ended before its first section.
THEOREM FailuresAreHandedOver == Spec => []FailuresLeave
<1>1. PollInv => FailuresLeave
  <2> SUFFICES ASSUME PollInv, phase = "idle", NEW f \in everFailed
               PROVE  sent[f] > 0 \/ f \in lost
    BY DEF FailuresLeave
  <2>1. f \in diagnosed /\ f \in Facts /\ f \notin pending
    BY DEF PollInv, FactsInv
  <2> QED
    BY <2>1 DEF PollInv, FactsInv
<1> QED
  BY <1>1, PollAlways, PTL

==============================================================================
