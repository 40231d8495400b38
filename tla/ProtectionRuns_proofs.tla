------------------------- MODULE ProtectionRuns_proofs -------------------------
(***************************************************************************)
(* The counting of protection runs, proved for any set of runs and groups, *)
(* any window, ledger capacity and fan-out, and any of the faults.         *)
(***************************************************************************)
EXTENDS ProtectionRuns, LedgerOps_proofs, WellFoundedInduction

\* The ledger of a new client.
LEMMA HeldOfEmpty == Held(<<>>) = {} /\ Distinct(<<>>) /\ Len(<<>>) = 0
<1>1. Len(<<>>) = 0
    OBVIOUS
<1> QED BY <1>1 DEF Held, Distinct

\* The invariant holds when the process starts.
LEMMA InitCountInv == Init => CountInv
<1> SUFFICES ASSUME Init PROVE CountInv
    OBVIOUS
<1>1. CountTypeOK
  <2>0. seen = <<>>
      BY DEF Init
  <2>1. seen = <<>> /\ seen \in Seq(Runs)
    <3>1. <<>> \in Seq(Runs)
        OBVIOUS
    <3> QED BY <2>0, <3>1
  <2>2. Distinct(seen) /\ Len(seen) <= Capacity
    <3>1. Distinct(seen) /\ Len(seen) = 0
        BY <2>1, HeldOfEmpty
    <3> QED BY <3>1, LimitsAssumption
  <2>3. world \in [Runs -> Outcomes \cup {"absent", "Running"}]
      BY DEF Init
  <2>4. /\ counts \in [Runs -> 0..2]
        /\ outcome \in [Runs -> Shown \cup {"none"}]
    <3>1. counts = [r \in Runs |-> 0] /\ outcome = [r \in Runs |-> "none"]
        BY DEF Init
    <3> QED BY <3>1
  <2>5. batch \subseteq Entry /\ fresh \subseteq Entry
      BY DEF Init
  <2> QED BY <2>1, <2>2, <2>3, <2>4, <2>5 DEF CountTypeOK
<1>2. AnswersAreFinal /\ FreshIsTerminal /\ FreshOnlyWhileClaiming
    BY DEF Init, AnswersAreFinal, FreshIsTerminal, FreshOnlyWhileClaiming
<1>3. HeldIsAccountedFor /\ CountedStaysClaimed /\ CountedFinal
  <2>1. Held(seen) = {} /\ fresh = {}
      BY HeldOfEmpty DEF Init
  <2>2. \A r \in Runs : counts[r] = 0
      BY DEF Init
  <2> QED BY <2>1, <2>2 DEF HeldIsAccountedFor, CountedStaysClaimed, CountedFinal
<1> QED BY <1>1, <1>2, <1>3 DEF CountInv

\* The cluster only moves a run forward, and a finished run keeps its outcome: neither the
\* answers in hand nor what was counted is contradicted by a later cluster step.
LEMMA ClusterKeepsCountInv ==
    ASSUME CountInv,
           \/ \E r \in Runs : Start(r)
           \/ \E r \in Runs, o \in Outcomes : Finish(r, o)
           \/ Tick
    PROVE  CountInv'
<1>1. /\ UNCHANGED <<phase, batch, fresh, seen, counts, outcome, lost>>
      /\ world' \in [Runs -> Outcomes \cup {"absent", "Running"}]
      /\ \A r \in Runs : world[r] \in Outcomes => world'[r] = world[r]
  <2>1. CASE \E r \in Runs : Start(r)
      BY <2>1, RunsAssumption DEF Start, pollVars, clientVars, reportVars, CountInv, CountTypeOK
  <2>2. CASE \E r \in Runs, o \in Outcomes : Finish(r, o)
      BY <2>2, RunsAssumption DEF Finish, pollVars, clientVars, reportVars, CountInv, CountTypeOK
  <2>3. CASE Tick
      BY <2>3 DEF Tick, pollVars, clientVars, reportVars, CountInv, CountTypeOK
  <2> QED BY <2>1, <2>2, <2>3
<1>2. \A e \in batch \cup fresh : e.id \in Runs
    BY DEF CountInv, CountTypeOK, Entry
<1>3. CountTypeOK'
    BY <1>1 DEF CountInv, CountTypeOK
<1>4. AnswersAreFinal'
    BY <1>1, <1>2 DEF CountInv, AnswersAreFinal
<1>5. FreshIsTerminal' /\ FreshOnlyWhileClaiming'
    BY <1>1 DEF CountInv, FreshIsTerminal, FreshOnlyWhileClaiming
<1>6. HeldIsAccountedFor' /\ CountedStaysClaimed'
    BY <1>1 DEF CountInv, HeldIsAccountedFor, CountedStaysClaimed
<1>7. CountedFinal'
    BY <1>1 DEF CountInv, CountedFinal
<1> QED BY <1>3, <1>4, <1>5, <1>6, <1>7 DEF CountInv

\* What a source says of a run that has started is an entry, and final if it is terminal.
LEMMA EntriesAreFinal ==
    ASSUME CountInv, NEW r \in Runs, world[r] # "absent"
    PROVE  /\ EntryOf(r) \in Entry
           /\ EntryOf(r).status \in Outcomes => world[EntryOf(r).id] = EntryOf(r).status
           /\ EntryOf(r).id \notin Opaque => EntryOf(r).status # "unknown"
<1>1. world[r] \in Outcomes \cup {"Running"}
    BY DEF CountInv, CountTypeOK
<1>2. EntryOf(r).id = r /\ EntryOf(r).status = StatusShown(r)
    BY DEF EntryOf
<1>3. StatusShown(r) \in Shown
    BY <1>1 DEF StatusShown, Shown
<1>4. EntryOf(r) \in Entry
    BY <1>3 DEF EntryOf, Entry
<1> QED BY <1>1, <1>2, <1>4, RunsAssumption DEF StatusShown

\* The steps that only move the poll along: they add entries the cluster just stated, or drop
\* what they hold, and touch neither the ledger nor the counts.
LEMMA ControlKeepsCountInv ==
    ASSUME CountInv,
           UNCHANGED <<world, seen, counts, outcome, lost>>,
           fresh' = fresh,
           phase # "claim" \/ phase' = "claim",
           NEW added \in SUBSET {EntryOf(r) : r \in {q \in Runs : world[q] # "absent"}},
           batch' \subseteq batch \cup added
    PROVE  CountInv'
<1>1. \A e \in added : /\ e \in Entry
                       /\ e.status \in Outcomes => world[e.id] = e.status
                       /\ e.id \notin Opaque => e.status # "unknown"
    BY EntriesAreFinal
<1>2. CountTypeOK'
    BY <1>1 DEF CountInv, CountTypeOK
<1>3. AnswersAreFinal'
    BY <1>1 DEF CountInv, AnswersAreFinal
<1>4. FreshIsTerminal' /\ FreshOnlyWhileClaiming'
    BY DEF CountInv, FreshIsTerminal, FreshOnlyWhileClaiming
<1>5. HeldIsAccountedFor' /\ CountedStaysClaimed' /\ CountedFinal'
    BY DEF CountInv, HeldIsAccountedFor, CountedStaysClaimed, CountedFinal
<1> QED BY <1>2, <1>3, <1>4, <1>5 DEF CountInv

\* Reading the inventory and trying the sources.
LEMMA SourcesKeepCountInv ==
    ASSUME CountInv,
           \/ BeginPoll \/ ReadInventory \/ WindowedAnswer \/ WindowedRefusal
           \/ OpenFanout \/ AskGroup \/ GroupRefuses \/ CloseFanout \/ SectionAborts
    PROVE  CountInv'
<1> DEFINE stated == {EntryOf(r) : r \in {q \in Runs : world[q] # "absent"}}
<1>1. phase # "claim" => fresh = {}
    BY DEF CountInv, FreshOnlyWhileClaiming
<1>2. ASSUME UNCHANGED <<world, seen, counts, outcome, lost>>, fresh' = fresh, phase # "claim",
             batch' \subseteq batch \cup stated
      PROVE  CountInv'
    BY <1>2, ControlKeepsCountInv
<1> USE DEF clusterVars, clientVars, reportVars
<1>3. CASE BeginPoll
  <2>1. UNCHANGED <<world, seen, counts, outcome, lost, fresh, batch>> /\ phase # "claim"
      BY <1>3 DEF BeginPoll
  <2> QED BY <1>2, <2>1
<1>4. CASE ReadInventory
  <2>1. UNCHANGED <<world, seen, counts, outcome, lost, fresh, batch>> /\ phase # "claim"
      BY <1>4 DEF ReadInventory
  <2> QED BY <1>2, <2>1
<1>5. CASE WindowedAnswer
  <2>1. UNCHANGED <<world, seen, counts, outcome, lost, fresh>> /\ phase # "claim"
      BY <1>5 DEF WindowedAnswer
  <2>2. batch' \subseteq stated
    <3>1. \A r \in Runs : InWindow(r) => world[r] # "absent"
        BY RunsAssumption DEF InWindow
    <3> QED BY <1>5, <3>1 DEF WindowedAnswer
  <2> QED BY <1>2, <2>1, <2>2
<1>6. CASE OpenFanout
  <2>1. UNCHANGED <<world, seen, counts, outcome, lost, fresh, batch>> /\ phase # "claim"
      BY <1>6 DEF OpenFanout
  <2> QED BY <1>2, <2>1
<1>7. CASE AskGroup
  <2>1. UNCHANGED <<world, seen, counts, outcome, lost, fresh>> /\ phase # "claim"
      BY <1>7 DEF AskGroup
  <2>2. batch' \subseteq batch \cup stated
    <3>1. \A r \in LastRuns(Head(toAsk)) : r \in Runs /\ world[r] # "absent"
        BY DEF LastRuns, RunsOf
    <3> QED BY <1>7, <3>1 DEF AskGroup
  <2> QED BY <1>2, <2>1, <2>2
<1>8. CASE GroupRefuses
  <2>1. UNCHANGED <<world, seen, counts, outcome, lost, fresh, batch>> /\ phase # "claim"
      BY <1>8 DEF GroupRefuses
  <2> QED BY <1>2, <2>1
<1>9. ASSUME NextSource \/ SectionEnds, phase # "claim"
      PROVE  fresh' = fresh /\ batch' = {}
    BY <1>1, <1>9 DEF NextSource, SectionEnds
<1>10. CASE WindowedRefusal
  <2>1. UNCHANGED <<world, seen, counts, outcome, lost>> /\ phase # "claim" /\ NextSource
      BY <1>10 DEF WindowedRefusal
  <2> QED BY <1>2, <1>9, <2>1
<1>11. CASE CloseFanout
  <2>1. UNCHANGED <<world, seen, counts, outcome, lost>> /\ phase # "claim"
      BY <1>11 DEF CloseFanout
  <2>2. fresh' = fresh /\ batch' \subseteq batch
      BY <1>9, <1>11, <2>1 DEF CloseFanout
  <2> QED BY <1>2, <2>1, <2>2
<1>12. CASE SectionAborts
  <2>1. UNCHANGED <<world, seen, counts, outcome, lost>> /\ phase # "claim" /\ SectionEnds
      BY <1>12 DEF SectionAborts
  <2> QED BY <1>2, <1>9, <2>1
<1> QED BY <1>3, <1>4, <1>5, <1>6, <1>7, <1>8, <1>10, <1>11, <1>12

\* Offering one run of the answer to the ledger.
LEMMA ClaimKeepsCountInv ==
    ASSUME CountInv, NEW entry \in batch, ClaimRun(entry)
    PROVE  CountInv'
<1>1. /\ UNCHANGED <<world, counts, outcome, lost>>
      /\ phase' = "claim"
      /\ batch' \subseteq batch
    BY DEF ClaimRun, clusterVars, reportVars
<1>2. CASE ~IsTerminal(entry)
  <2>1. UNCHANGED <<seen, fresh>>
      BY <1>2 DEF ClaimRun
  <2>2. {} \in SUBSET {EntryOf(r) : r \in {q \in Runs : world[q] # "absent"}}
      OBVIOUS
  <2> QED BY <1>1, <2>1, <2>2, ControlKeepsCountInv
<1>3. CASE IsTerminal(entry)
  <2>1. /\ seen \in Seq(Runs) /\ Distinct(seen) /\ Len(seen) <= Capacity
        /\ entry \in Entry /\ entry.id \in Runs
      BY DEF CountInv, CountTypeOK, Entry
  <2>2. /\ seen' = Claim(seen, entry.id, Capacity)
        /\ fresh' = IF IsFresh(seen, entry.id) THEN fresh \cup {entry} ELSE fresh
      BY <1>3 DEF ClaimRun
  <2>3. Capacity \in Nat \ {0} /\ IsFiniteSet(Runs)
      BY LimitsAssumption, RunsAssumption
  <2>4. seen' \in Seq(Runs) /\ ClaimedFrom(seen', seen, entry.id, Capacity)
      BY <2>1, <2>2, <2>3, ClaimFacts
  <2>5. CountTypeOK'
      BY <1>1, <2>1, <2>2, <2>4 DEF CountInv, CountTypeOK, ClaimedFrom
  <2>6. AnswersAreFinal'
      BY <1>1, <2>2 DEF CountInv, AnswersAreFinal
  <2>7. FreshIsTerminal' /\ FreshOnlyWhileClaiming'
      BY <1>1, <1>3, <2>2 DEF CountInv, FreshIsTerminal, FreshOnlyWhileClaiming, IsTerminal
  <2>8. HeldIsAccountedFor'
    <3> SUFFICES ASSUME NEW r \in Held(seen')
                 PROVE  counts[r] > 0 \/ r \in lost \/ \E e \in fresh' : e.id = r
        BY <1>1 DEF HeldIsAccountedFor
    <3>1. CASE r \in Held(seen)
        BY <2>2, <3>1 DEF CountInv, HeldIsAccountedFor
    <3>2. CASE r \notin Held(seen)
      <4>1. r = entry.id
          BY <2>4, <3>2 DEF ClaimedFrom
      <4>2. entry \in fresh'
          BY <2>2, <3>2, <4>1 DEF IsFresh
      <4> QED BY <4>1, <4>2
    <3> QED BY <3>1, <3>2
  <2>9. CountedStaysClaimed'
    <3> SUFFICES ASSUME "restart" \notin Faults, Cardinality(Runs) <= Capacity
                 PROVE  /\ \A r \in Runs : counts[r] <= 1 /\ (counts[r] > 0 => r \in Held(seen'))
                        /\ \A e \in fresh' : e.id \in Held(seen') /\ counts[e.id] = 0
        BY <1>1 DEF CountedStaysClaimed
    <3>1. Held(seen') = Held(seen) \cup {entry.id}
        BY <2>1, <2>2, <2>3, FittingClaimKeeps
    <3>2. /\ \A r \in Runs : counts[r] <= 1 /\ (counts[r] > 0 => r \in Held(seen))
          /\ \A e \in fresh : e.id \in Held(seen) /\ counts[e.id] = 0
        BY DEF CountInv, CountedStaysClaimed
    <3>3. IsFresh(seen, entry.id) => counts[entry.id] = 0
      <4>1. counts[entry.id] \in 0..2
          BY <2>1 DEF CountInv, CountTypeOK
      <4> QED BY <2>1, <3>2, <4>1 DEF IsFresh
    <3> QED BY <2>2, <3>1, <3>2, <3>3
  <2>10. CountedFinal'
      BY <1>1 DEF CountInv, CountedFinal
  <2> QED BY <2>5, <2>6, <2>7, <2>8, <2>9, <2>10 DEF CountInv
<1> QED BY <1>2, <1>3

\* Reporting: each claimed run adds one to its counter, under the outcome it finished with.
LEMMA ReportKeepsCountInv ==
    ASSUME CountInv, NEW kept \in SUBSET fresh, ReportRuns(kept)
    PROVE  CountInv'
<1>1. /\ UNCHANGED <<world, seen>>
      /\ phase = "claim"
      /\ batch' = {} /\ fresh' = {}
      /\ kept = fresh \/ "emit" \in Faults
    BY DEF ReportRuns, SectionEnds, clusterVars, clientVars
<1>2. /\ counts' = [r \in Runs |-> IF \E e \in kept : e.id = r /\ counts[r] < 2
                                   THEN counts[r] + 1 ELSE counts[r]]
      /\ outcome' = [r \in Runs |-> IF \E e \in kept : e.id = r
                                    THEN (CHOOSE e \in kept : e.id = r).status
                                    ELSE outcome[r]]
    BY DEF ReportRuns
<1>3. kept \subseteq Entry /\ \A r \in Runs : counts[r] \in 0..2
    BY DEF CountInv, CountTypeOK
<1>4. ASSUME NEW r \in Runs, \E e \in kept : e.id = r
      PROVE  /\ (CHOOSE e \in kept : e.id = r) \in kept
             /\ (CHOOSE e \in kept : e.id = r).id = r
    BY <1>4
<1>5. CountTypeOK'
  <2>1. counts' \in [Runs -> 0..2]
      BY <1>2, <1>3
  <2>2. outcome' \in [Runs -> Shown \cup {"none"}]
    <3>1. \A e \in kept : e.status \in Shown
        BY <1>3 DEF Entry
    <3>2. \A r \in Runs : outcome[r] \in Shown \cup {"none"}
        BY DEF CountInv, CountTypeOK
    <3> QED BY <1>2, <1>4, <3>1, <3>2
  <2> QED BY <1>1, <2>1, <2>2 DEF CountInv, CountTypeOK
<1>6. AnswersAreFinal' /\ FreshIsTerminal' /\ FreshOnlyWhileClaiming'
    BY <1>1 DEF AnswersAreFinal, FreshIsTerminal, FreshOnlyWhileClaiming
<1>7. HeldIsAccountedFor'
  <2> SUFFICES ASSUME NEW r \in Held(seen), r \notin lost'
               PROVE  counts'[r] > 0
      BY <1>1 DEF HeldIsAccountedFor
  <2>1. r \in Runs
      BY DEF CountInv, CountTypeOK, Held
  <2>2. counts[r] > 0 \/ \E e \in kept : e.id = r
    <3>1. r \notin lost /\ \A e \in fresh \ kept : e.id # r
        BY DEF ReportRuns
    <3>2. counts[r] > 0 \/ \E e \in fresh : e.id = r
        BY <3>1 DEF CountInv, HeldIsAccountedFor
    <3> QED BY <3>1, <3>2
  <2>3. counts[r] \in 0..2
      BY <1>3, <2>1
  <2>4. counts'[r] = IF \E e \in kept : e.id = r /\ counts[r] < 2
                     THEN counts[r] + 1 ELSE counts[r]
      BY <1>2, <2>1
  <2> QED BY <2>2, <2>3, <2>4
<1>8. CountedStaysClaimed'
  <2> SUFFICES ASSUME "restart" \notin Faults, Cardinality(Runs) <= Capacity, NEW r \in Runs
               PROVE  counts'[r] <= 1 /\ (counts'[r] > 0 => r \in Held(seen))
      BY <1>1 DEF CountedStaysClaimed
  <2>1. /\ counts[r] <= 1 /\ (counts[r] > 0 => r \in Held(seen))
        /\ \A e \in kept : e.id \in Held(seen) /\ counts[e.id] = 0
      BY DEF CountInv, CountedStaysClaimed
  <2>2. counts[r] \in 0..2
      BY <1>3
  <2>3. counts'[r] = IF \E e \in kept : e.id = r /\ counts[r] < 2
                     THEN counts[r] + 1 ELSE counts[r]
      BY <1>2
  <2> QED BY <2>1, <2>2, <2>3
<1>9. CountedFinal'
  <2> SUFFICES ASSUME NEW r \in Runs \ Opaque, counts'[r] > 0
               PROVE  world[r] \in Outcomes /\ outcome'[r] = world[r]
      BY <1>1 DEF CountedFinal
  <2>1. CASE \E e \in kept : e.id = r
    <3> DEFINE e == CHOOSE x \in kept : x.id = r
    <3>1. e \in kept /\ e.id = r
        BY <1>4, <2>1
    <3> HIDE DEF e
    <3>2. e.status \in Outcomes
      <4>1. e.status \in Shown /\ e.status # "unknown" /\ e.status # "Running"
          BY <1>3, <3>1 DEF Entry, CountInv, AnswersAreFinal, FreshIsTerminal, IsTerminal
      <4> QED BY <4>1 DEF Shown
    <3>3. world[r] = e.status
        BY <3>1, <3>2 DEF CountInv, AnswersAreFinal
    <3>4. outcome'[r] = e.status
        BY <1>2, <2>1 DEF e
    <3> QED BY <3>2, <3>3, <3>4
  <2>2. CASE ~\E e \in kept : e.id = r
    <3>1. counts'[r] = counts[r] /\ outcome'[r] = outcome[r]
        BY <1>2, <2>2
    <3> QED BY <3>1 DEF CountInv, CountedFinal
  <2> QED BY <2>1, <2>2
<1> QED BY <1>5, <1>6, <1>7, <1>8, <1>9 DEF CountInv

\* A restart forgets the ledger and whatever was claimed but not yet reported.
LEMMA RestartKeepsCountInv ==
    ASSUME CountInv, Restart
    PROVE  CountInv'
<1>1. /\ UNCHANGED <<world, counts, outcome, lost>>
      /\ batch' = {} /\ fresh' = {} /\ seen' = <<>>
      /\ "restart" \in Faults
    BY DEF Restart, SectionEnds, clusterVars, reportVars
<1>2. /\ Held(seen') = {} /\ Distinct(seen') /\ Len(seen') <= Capacity
      /\ seen' \in Seq(Runs)
  <2>1. Held(seen') = {} /\ Distinct(seen') /\ Len(seen') = 0
      BY <1>1, HeldOfEmpty
  <2>2. <<>> \in Seq(Runs)
      OBVIOUS
  <2> QED BY <1>1, <2>1, <2>2, LimitsAssumption
<1>3. CountTypeOK'
    BY <1>1, <1>2 DEF CountInv, CountTypeOK
<1>4. AnswersAreFinal' /\ FreshIsTerminal' /\ FreshOnlyWhileClaiming'
    BY <1>1 DEF AnswersAreFinal, FreshIsTerminal, FreshOnlyWhileClaiming
<1>5. HeldIsAccountedFor' /\ CountedStaysClaimed'
    BY <1>1, <1>2 DEF HeldIsAccountedFor, CountedStaysClaimed
<1>6. CountedFinal'
    BY <1>1 DEF CountInv, CountedFinal
<1> QED BY <1>3, <1>4, <1>5, <1>6 DEF CountInv

\* A step that changes nothing keeps the invariant.
LEMMA StutterKeepsCountInv ==
    ASSUME CountInv, UNCHANGED vars
    PROVE  CountInv'
<1>1. UNCHANGED <<world, phase, batch, fresh, seen, counts, outcome, lost>>
    BY DEF vars, clusterVars, pollVars, clientVars, reportVars
<1> QED BY <1>1 DEF CountInv, CountTypeOK, AnswersAreFinal, FreshIsTerminal,
                    FreshOnlyWhileClaiming, HeldIsAccountedFor, CountedStaysClaimed, CountedFinal

\* The inductive invariant of the counting, under every combination of faults.
THEOREM CountInvariant == Spec => []CountInv
<1>1. CountInv /\ [Next]_vars => CountInv'
  <2> SUFFICES ASSUME CountInv, [Next]_vars
               PROVE  CountInv'
      OBVIOUS
  <2>1. CASE \E entry \in batch : ClaimRun(entry)
      BY <2>1, ClaimKeepsCountInv
  <2>2. CASE \E kept \in SUBSET fresh : ReportRuns(kept)
      BY <2>2, ReportKeepsCountInv
  <2>3. CASE Restart
      BY <2>3, RestartKeepsCountInv
  <2>4. CASE UNCHANGED vars
      BY <2>4, StutterKeepsCountInv
  <2> QED BY <2>1, <2>2, <2>3, <2>4, ClusterKeepsCountInv, SourcesKeepCountInv DEF Next, Poll
<1> QED BY InitCountInv, <1>1, PTL DEF Spec

\* Between polls every id the ledger holds has been counted, or its line was lost: no failed
\* source, abandoned fan-out or aborted section claims a run it does not report.
THEOREM ClaimedRunsAreCounted == Spec => []ClaimedIsCounted
<1>1. CountInv => ClaimedIsCounted
    BY DEF CountInv, HeldIsAccountedFor, FreshOnlyWhileClaiming, ClaimedIsCounted
<1> QED BY <1>1, CountInvariant, PTL

\* A run whose status the cluster states is counted under the outcome it finished with, through
\* source changes, stale answers, lost lines and restarts.
THEOREM CountedOutcomesAreFinal == Spec => []CountedUnderItsOutcome
<1>1. CountInv => CountedUnderItsOutcome
    BY DEF CountInv, CountedFinal, CountedUnderItsOutcome
<1> QED BY <1>1, CountInvariant, PTL

------------------------------------------------------------------------------
(* The refinement of RunCounter. *)

\* What is about to be reported was never counted, and its status is the run's outcome.
LEMMA FreshIsCountable ==
    ASSUME CountInv, Opaque = {}, "restart" \notin Faults, Cardinality(Runs) <= Capacity,
           NEW e \in fresh
    PROVE  /\ e.id \in Runs
           /\ e.status \in Outcomes
           /\ world[e.id] = e.status
           /\ counts[e.id] = 0
<1>1. e \in Entry /\ e.id \in Runs /\ e.status \in Shown
    BY DEF CountInv, CountTypeOK, Entry
<1>2. e.status # "unknown" /\ e.status # "Running"
    BY DEF CountInv, AnswersAreFinal, FreshIsTerminal, IsTerminal
<1>3. e.status \in Outcomes
    BY <1>1, <1>2 DEF Shown
<1> QED BY <1>1, <1>3 DEF CountInv, AnswersAreFinal, CountedStaysClaimed

\* Reporting a poll's runs is one step of the abstract counter.
LEMMA ReportIsCount ==
    ASSUME CountInv, Opaque = {}, "restart" \notin Faults, Cardinality(Runs) <= Capacity,
           NEW kept \in SUBSET fresh, ReportRuns(kept)
    PROVE  Counter!Count({e.id : e \in kept})
<1> DEFINE reported == {e.id : e \in kept}
<1>1. \A e \in kept : /\ e.id \in Runs /\ e.status \in Outcomes
                      /\ world[e.id] = e.status /\ counts[e.id] = 0
    BY FreshIsCountable
<1>2. /\ counts' = [r \in Runs |-> IF \E e \in kept : e.id = r /\ counts[r] < 2
                                   THEN counts[r] + 1 ELSE counts[r]]
      /\ outcome' = [r \in Runs |-> IF \E e \in kept : e.id = r
                                    THEN (CHOOSE e \in kept : e.id = r).status
                                    ELSE outcome[r]]
      /\ UNCHANGED world
    BY DEF ReportRuns, clusterVars
<1>3. \A r \in reported : world[r] \in Outcomes /\ counts[r] = 0
    BY <1>1
<1>4. ASSUME NEW r \in Runs
      PROVE  (IF \E e \in kept : e.id = r /\ counts[r] < 2 THEN counts[r] + 1 ELSE counts[r])
               = (IF r \in reported THEN 1 ELSE counts[r])
  <2>1. CASE r \in reported
    <3>1. counts[r] = 0 /\ \E e \in kept : e.id = r
        BY <1>3, <2>1
    <3> QED BY <2>1, <3>1
  <2>2. CASE r \notin reported
    <3>1. ~\E e \in kept : e.id = r
        BY <2>2
    <3> QED BY <2>2, <3>1
  <2> QED BY <2>1, <2>2
<1>5. ASSUME NEW r \in Runs
      PROVE  (IF \E e \in kept : e.id = r THEN (CHOOSE e \in kept : e.id = r).status
              ELSE outcome[r])
               = (IF r \in reported THEN world[r] ELSE outcome[r])
  <2>1. CASE r \in reported
    <3>1. \E e \in kept : e.id = r
        BY <2>1
    <3> DEFINE e == CHOOSE x \in kept : x.id = r
    <3>2. e \in kept /\ e.id = r
        BY <3>1
    <3> HIDE DEF e
    <3>3. e.status = world[r]
        BY <1>1, <3>2
    <3> QED BY <2>1, <3>1, <3>3 DEF e
  <2>2. CASE r \notin reported
    <3>1. ~\E e \in kept : e.id = r
        BY <2>2
    <3> QED BY <2>2, <3>1
  <2> QED BY <2>1, <2>2
<1>6. counts' = [r \in Runs |-> IF r \in reported THEN 1 ELSE counts[r]]
    BY <1>2, <1>4
<1>7. outcome' = [r \in Runs |-> IF r \in reported THEN world[r] ELSE outcome[r]]
    BY <1>2, <1>5
<1> QED BY <1>2, <1>3, <1>6, <1>7 DEF Counter!Count

\* Every step of the extension is a step of the abstract counter, or one it does not see.
LEMMA StepRefinesCounter ==
    ASSUME CountInv, Opaque = {}, "restart" \notin Faults, Cardinality(Runs) <= Capacity,
           [Next]_vars
    PROVE  [Counter!Next]_(Counter!vars)
<1>1. CASE \E r \in Runs : Start(r)
  <2>1. PICK r \in Runs : Start(r)
      BY <1>1
  <2>2. Counter!Start(r)
      BY <2>1 DEF Start, Counter!Start, reportVars
  <2> QED BY <2>2 DEF Counter!Next
<1>2. CASE \E r \in Runs, o \in Outcomes : Finish(r, o)
  <2>1. PICK r \in Runs, o \in Outcomes : Finish(r, o)
      BY <1>2
  <2>2. Counter!Finish(r, o)
      BY <2>1 DEF Finish, Counter!Finish, reportVars
  <2> QED BY <2>2 DEF Counter!Next
<1>3. CASE \E kept \in SUBSET fresh : ReportRuns(kept)
  <2>1. PICK kept \in SUBSET fresh : ReportRuns(kept)
      BY <1>3
  <2>2. Counter!Count({e.id : e \in kept})
      BY <2>1, ReportIsCount
  <2>3. {e.id : e \in kept} \in SUBSET Runs
      BY FreshIsCountable
  <2> QED BY <2>2, <2>3 DEF Counter!Next
<1>4. ASSUME \/ Tick \/ BeginPoll \/ ReadInventory \/ WindowedAnswer \/ WindowedRefusal
             \/ OpenFanout \/ AskGroup \/ GroupRefuses \/ CloseFanout \/ SectionAborts
             \/ (\E entry \in batch : ClaimRun(entry)) \/ UNCHANGED vars
      PROVE  UNCHANGED Counter!vars
  <2>1. UNCHANGED <<world, counts, outcome, lost>>
      BY <1>4 DEF Tick, BeginPoll, ReadInventory, WindowedAnswer, WindowedRefusal, OpenFanout,
                  AskGroup, GroupRefuses, CloseFanout, SectionAborts, ClaimRun, vars,
                  clusterVars, reportVars
  <2> QED BY <2>1 DEF Counter!vars
<1>5. ~Restart
    BY DEF Restart
<1> QED BY <1>1, <1>2, <1>3, <1>4, <1>5 DEF Next, Poll

\* While every run fits the ledger and the process lives, the poll with its windows, fallbacks,
\* rotating fan-outs, lost lines and aborted sections counts each finished run at most once,
\* and under its own outcome: it implements the abstract counter.
THEOREM RunsAreCountedOnce ==
    ASSUME Opaque = {}, "restart" \notin Faults, Cardinality(Runs) <= Capacity
    PROVE  Spec => CountsRunsOnce
<1>1. Init => Counter!Init
    BY DEF Init, Counter!Init
<1>2. CountInv /\ [Next]_vars => [Counter!Next]_(Counter!vars)
    BY StepRefinesCounter
<1> QED BY <1>1, <1>2, CountInvariant, PTL DEF Spec, CountsRunsOnce, Counter!Spec

------------------------------------------------------------------------------
(* Type correctness of the whole poll. *)

\* The part of the types that the counting does not need, with the inventory of a poll under way.
FlowOK ==
    /\ history \in Seq(Runs)
    /\ age \in [Runs -> 0..Horizon]
    /\ sincePoll \in Nat /\ windowAt \in Nat /\ errored \in Nat
    /\ phase \in {"idle", "inventory", "runs", "fanout", "claim"}
    /\ order \in Seq(Groups) /\ toAsk \in Seq(Groups) /\ toTry \in Seq(SourceNames)
    /\ phase \in {"runs", "fanout"} => Len(order) = Len(Inventory)
    /\ source \in SourceNames \cup {""}
    /\ cursor \in 0..(Len(Inventory) - 1)
    /\ lost \subseteq Runs

LEMMA LimitsAreNatural ==
    Interval \in Nat \ {0} /\ Overlap \in Nat /\ MaxLate \in Nat /\ MaxDelay \in Nat
  BY LimitsAssumption

LEMMA InventoryFacts == Inventory \in Seq(Groups) /\ Len(Inventory) \in Nat \ {0}
  BY RunsAssumption

LEMMA CursorStarts == 0 \in 0..(Len(Inventory) - 1)
<1>1. \A n \in Nat \ {0} : 0 \in 0..(n - 1)
    OBVIOUS
<1>2. Len(Inventory) \in Nat \ {0}
    BY InventoryFacts
<1> QED BY <1>1, <1>2

LEMMA HorizonIsNatural == Horizon \in Nat
  BY LimitsAreNatural DEF Horizon, Window

LEMMA SourcesTyped ==
    ASSUME FlowOK
    PROVE  SourcesFromWinner \in Seq(SourceNames)
<1>1. SourceNames = {"summary", "list", "groups"}
  <2>1. Sources[1] = "summary" /\ Sources[2] = "list" /\ Sources[3] = "groups"
      BY DEF Sources
  <2>2. \A i \in 1..3 : i = 1 \/ i = 2 \/ i = 3
      OBVIOUS
  <2> QED BY <2>1, <2>2 DEF SourceNames
<1>2. Sources \in Seq(SourceNames)
    BY <1>1 DEF Sources
<1>3. /\ <<"list", "groups", "summary">> \in Seq(SourceNames)
      /\ <<"groups", "summary", "list">> \in Seq(SourceNames)
    BY <1>1
<1>4. source = "" \/ source = "summary" \/ source = "list" \/ source = "groups"
    BY <1>1 DEF FlowOK
<1> QED BY <1>2, <1>3, <1>4 DEF SourcesFromWinner

\* A queue of groups or sources stays one when its head is dropped.
LEMMA TailTyped ==
    ASSUME NEW set, NEW queue \in Seq(set), queue # <<>>
    PROVE  Head(queue) \in set /\ Tail(queue) \in Seq(set)
  OBVIOUS

LEMMA EmptyTyped == \A set : <<>> \in Seq(set)
  OBVIOUS

\* The fan-out asks groups of the list, and leaves its position inside it.
LEMMA RotationTyped ==
    ASSUME FlowOK, Len(order) = Len(Inventory)
    PROVE  /\ Rotated(order, cursor, FanoutCap) \in Seq(Groups)
           /\ NextCursor(order, cursor, FanoutCap) \in 0..(Len(Inventory) - 1)
<1> DEFINE n == Len(order)
           count == RotationCount(n, FanoutCap)
<1>1. n \in Nat \ {0} /\ cursor \in Nat /\ FanoutCap \in Nat \ {0}
  <2>1. n \in Nat \ {0}
      BY InventoryFacts
  <2>2. cursor \in 0..(n - 1)
      BY DEF FlowOK
  <2>3. FanoutCap \in Nat \ {0}
      BY LimitsAssumption
  <2> QED BY <2>1, <2>2, <2>3
<1>2. count \in Nat
    BY <1>1 DEF RotationCount, AtLeastOne
<1>3. \A x \in Nat : x % n \in 0..(n - 1)
    BY <1>1
<1>4. cursor % n \in Nat
    BY <1>1, <1>3
<1>5. NextCursor(order, cursor, FanoutCap) \in 0..(n - 1)
  <2>1. NextCursor(order, cursor, FanoutCap) = ((cursor % n) + count) % n
      BY DEF NextCursor
  <2> HIDE DEF n, count
  <2>2. (cursor % n) + count \in Nat
      BY <1>2, <1>4
  <2> QED BY <1>3, <2>1, <2>2
<1>6. ASSUME NEW i \in 1..count
      PROVE  order[(((cursor % n) + (i - 1)) % n) + 1] \in Groups
  <2>1. (cursor % n) + (i - 1) \in Nat
      BY <1>2, <1>4
  <2>2. (((cursor % n) + (i - 1)) % n) + 1 \in 1..n
    <3> HIDE DEF n, count
    <3>1. ((cursor % n) + (i - 1)) % n \in 0..(n - 1)
        BY <1>3, <2>1
    <3> QED BY <1>1, <3>1
  <2>3. \A k \in 1..n : order[k] \in Groups
    <3>1. order \in Seq(Groups)
        BY DEF FlowOK
    <3> QED BY <3>1
  <2> QED BY <2>2, <2>3
<1>7. Rotated(order, cursor, FanoutCap) \in [1..count -> Groups]
    BY <1>6 DEF Rotated
<1> HIDE DEF count
<1> QED BY <1>2, <1>5, <1>7

\* However a section ends, nothing of it is left.
LEMMA EndKeepsFlow ==
    ASSUME FlowOK, SectionEnds, UNCHANGED <<history, age, sincePoll>>,
           source' \in SourceNames \cup {""}, cursor' \in 0..(Len(Inventory) - 1),
           lost' \subseteq Runs
    PROVE  FlowOK'
<1>1. /\ phase' = "idle" /\ toTry' = <<>> /\ toAsk' = <<>> /\ order' = <<>>
      /\ errored' = 0 /\ windowAt' = 0
    BY DEF SectionEnds
<1>2. <<>> \in Seq(Groups) /\ <<>> \in Seq(SourceNames)
    BY EmptyTyped
<1> QED BY <1>1, <1>2 DEF FlowOK

LEMMA ClusterKeepsFlow ==
    ASSUME CountInv, FlowOK,
           \/ \E r \in Runs : Start(r)
           \/ \E r \in Runs, o \in Outcomes : Finish(r, o)
           \/ Tick
    PROVE  FlowOK'
<1>1. UNCHANGED <<phase, order, windowAt, toTry, toAsk, errored, source, cursor, lost>>
    BY DEF Start, Finish, Tick, pollVars, clientVars, reportVars
<1>2. history' \in Seq(Runs) /\ age' \in [Runs -> 0..Horizon] /\ sincePoll' \in Nat
  <2>0. history \in Seq(Runs) /\ age \in [Runs -> 0..Horizon] /\ sincePoll \in Nat
      BY DEF FlowOK
  <2>1. CASE \E r \in Runs : Start(r)
      BY <2>0, <2>1 DEF Start
  <2>2. CASE \E r \in Runs, o \in Outcomes : Finish(r, o)
    <3>1. PICK r \in Runs : history' = Append(history, r) /\ age' = [age EXCEPT ![r] = 0]
                           /\ sincePoll' = sincePoll
        BY <2>2 DEF Finish
    <3>2. Append(history, r) \in Seq(Runs)
        BY <2>0
    <3>3. 0 \in 0..Horizon
        BY HorizonIsNatural
    <3> QED BY <2>0, <3>1, <3>2, <3>3
  <2>3. CASE Tick
    <3>1. history' = history /\ sincePoll' = sincePoll + 1
        BY <2>3 DEF Tick
    <3>2. \A r \in Runs : age[r] \in 0..Horizon
        BY DEF FlowOK
    <3>3. age' = [r \in Runs |-> IF world[r] \in Outcomes /\ age[r] < Horizon
                                 THEN age[r] + 1 ELSE age[r]]
        BY <2>3 DEF Tick
    <3>4. \A r \in Runs : age[r] < Horizon => age[r] + 1 \in 0..Horizon
        BY <3>2, HorizonIsNatural
    <3>5. age' \in [Runs -> 0..Horizon]
        BY <3>2, <3>3, <3>4
    <3> QED BY <2>0, <3>1, <3>5
  <2> QED BY <2>1, <2>2, <2>3
<1> QED BY <1>1, <1>2 DEF FlowOK

LEMMA PollKeepsFlow ==
    ASSUME CountInv, FlowOK, Poll \/ SectionAborts \/ Restart
    PROVE  FlowOK'
<1> USE DEF clusterVars, clientVars, reportVars
<1>1. CASE BeginPoll
    BY <1>1 DEF BeginPoll, FlowOK
<1>2. CASE ReadInventory
  <2>1. /\ phase' = "runs" /\ windowAt' = sincePoll /\ toTry' = SourcesFromWinner
        /\ order' \in [1..Len(Inventory) -> Groups]
        /\ UNCHANGED <<history, age, sincePoll, toAsk, errored, source, cursor, lost>>
      BY <1>2 DEF ReadInventory
  <2>2. order' \in Seq(Groups) /\ Len(order') = Len(Inventory)
      BY <2>1, InventoryFacts
  <2> QED BY <2>1, <2>2, SourcesTyped DEF FlowOK
<1>3. CASE WindowedAnswer
  <2>1. Head(toTry) \in SourceNames
      BY <1>3, TailTyped DEF WindowedAnswer, FlowOK
  <2> QED BY <1>3, <2>1 DEF WindowedAnswer, FlowOK
<1>4. ASSUME NextSource, UNCHANGED <<history, age, sincePoll, source, cursor, lost>>,
             phase \in {"runs", "fanout"}
      PROVE  FlowOK'
  <2>1. CASE Len(toTry) > 1
    <3>1. /\ toTry' = Tail(toTry) /\ phase' = "runs" /\ toAsk' = <<>> /\ errored' = 0
          /\ UNCHANGED <<order, windowAt>>
        BY <1>4, <2>1 DEF NextSource
    <3>2. Tail(toTry) \in Seq(SourceNames)
      <4>1. toTry \in Seq(SourceNames) /\ toTry # <<>>
        <5>1. toTry \in Seq(SourceNames)
            BY DEF FlowOK
        <5>2. toTry # <<>>
            BY <2>1, <5>1
        <5> QED BY <5>1, <5>2
      <4> QED BY <4>1, TailTyped
    <3>3. <<>> \in Seq(Groups)
        BY EmptyTyped
    <3> QED BY <1>4, <3>1, <3>2, <3>3 DEF FlowOK
  <2>2. CASE ~(Len(toTry) > 1)
    <3>1. SectionEnds
        BY <1>4, <2>2 DEF NextSource
    <3> QED BY <1>4, <3>1, EndKeepsFlow DEF FlowOK
  <2> QED BY <2>1, <2>2
<1>5. CASE WindowedRefusal
    BY <1>4, <1>5 DEF WindowedRefusal
<1>6. CASE OpenFanout
  <2>1. /\ toAsk' = Rotated(order, cursor, FanoutCap)
        /\ cursor' = NextCursor(order, cursor, FanoutCap)
        /\ phase = "runs" /\ phase' = "fanout" /\ errored' = 0
        /\ UNCHANGED <<history, age, sincePoll, order, windowAt, toTry, source, lost>>
      BY <1>6 DEF OpenFanout
  <2>2. Len(order) = Len(Inventory)
      BY <2>1 DEF FlowOK
  <2> QED BY <2>1, <2>2, RotationTyped DEF FlowOK
<1>7. CASE AskGroup \/ GroupRefuses
  <2>1. /\ toAsk # <<>> /\ toAsk' = Tail(toAsk) /\ errored' \in {errored, errored + 1}
        /\ UNCHANGED <<history, age, sincePoll, phase, order, windowAt, toTry, source, cursor, lost>>
      BY <1>7 DEF AskGroup, GroupRefuses
  <2>2. toAsk \in Seq(Groups) /\ errored \in Nat
      BY DEF FlowOK
  <2>3. Tail(toAsk) \in Seq(Groups)
      BY <2>1, <2>2, TailTyped
  <2>4. errored' \in Nat
      BY <2>1, <2>2
  <2> QED BY <2>1, <2>3, <2>4 DEF FlowOK
<1>8. CASE CloseFanout
  <2>1. phase = "fanout" /\ UNCHANGED <<history, age, sincePoll, cursor, lost>>
      BY <1>8 DEF CloseFanout
  <2>2. CASE NextSource /\ UNCHANGED source
      BY <1>4, <2>1, <2>2
  <2>3. CASE /\ source' = "groups" /\ phase' = "claim"
             /\ UNCHANGED <<order, windowAt, toTry, toAsk, errored>>
    <3>1. "groups" \in SourceNames
      <4>1. Sources[3] = "groups"
          BY DEF Sources
      <4> QED BY <4>1 DEF SourceNames
    <3> QED BY <2>1, <2>3, <3>1 DEF FlowOK
  <2> QED BY <1>8, <2>2, <2>3 DEF CloseFanout
<1>9. CASE \E entry \in batch : ClaimRun(entry)
  <2>1. UNCHANGED <<history, age, sincePoll, phase, order, windowAt, toTry, toAsk, errored,
                    source, cursor, lost>>
      BY <1>9 DEF ClaimRun
  <2> QED BY <2>1 DEF FlowOK
<1>10. CASE \E kept \in SUBSET fresh : ReportRuns(kept)
  <2>1. PICK kept \in SUBSET fresh : ReportRuns(kept)
      BY <1>10
  <2>2. SectionEnds /\ UNCHANGED <<history, age, sincePoll, source, cursor>>
      BY <2>1 DEF ReportRuns
  <2>3. \A e \in fresh : e.id \in Runs
      BY DEF CountInv, CountTypeOK, Entry
  <2>4. lost' \subseteq Runs
      BY <2>1, <2>3 DEF ReportRuns, FlowOK
  <2>5. source' \in SourceNames \cup {""} /\ cursor' \in 0..(Len(Inventory) - 1)
      BY <2>2 DEF FlowOK
  <2> QED BY <2>2, <2>4, <2>5, EndKeepsFlow
<1>11. CASE SectionAborts
  <2>1. SectionEnds /\ UNCHANGED <<history, age, sincePoll, source, cursor, lost>>
      BY <1>11 DEF SectionAborts
  <2>2. /\ source' \in SourceNames \cup {""} /\ cursor' \in 0..(Len(Inventory) - 1)
        /\ lost' \subseteq Runs
      BY <2>1 DEF FlowOK
  <2> QED BY <2>1, <2>2, EndKeepsFlow
<1>12. CASE Restart
  <2>1. /\ phase' = "idle" /\ toTry' = <<>> /\ toAsk' = <<>> /\ order' = <<>>
        /\ errored' = 0 /\ windowAt' = 0 /\ sincePoll' = Interval /\ source' = "" /\ cursor' = 0
        /\ UNCHANGED <<history, age, lost>>
      BY <1>12 DEF Restart, SectionEnds
  <2>2. <<>> \in Seq(Groups) /\ <<>> \in Seq(SourceNames)
      BY EmptyTyped
  <2>3. sincePoll' \in Nat /\ windowAt' \in Nat /\ errored' \in Nat
      BY <2>1, LimitsAreNatural
  <2>4. cursor' \in 0..(Len(Inventory) - 1)
      BY <2>1, CursorStarts
  <2>5. order' \in Seq(Groups) /\ toAsk' \in Seq(Groups) /\ toTry' \in Seq(SourceNames)
      BY <2>1, <2>2
  <2> QED BY <2>1, <2>3, <2>4, <2>5 DEF FlowOK
<1> QED BY <1>1, <1>2, <1>3, <1>5, <1>6, <1>7, <1>8, <1>9, <1>10, <1>11, <1>12 DEF Poll

LEMMA FlowHolds == Spec => []FlowOK
<1>1. Init => FlowOK
  <2> SUFFICES ASSUME Init PROVE FlowOK
      OBVIOUS
  <2>1. /\ history = <<>> /\ age = [r \in Runs |-> 0] /\ sincePoll = Interval /\ windowAt = 0
        /\ errored = 0 /\ phase = "idle" /\ order = <<>> /\ toAsk = <<>> /\ toTry = <<>>
        /\ source = "" /\ cursor = 0 /\ lost = {}
      BY DEF Init
  <2>2. <<>> \in Seq(Runs) /\ <<>> \in Seq(Groups) /\ <<>> \in Seq(SourceNames)
      BY EmptyTyped
  <2>3. age \in [Runs -> 0..Horizon]
    <3>1. 0 \in 0..Horizon
        BY HorizonIsNatural
    <3>2. age = [r \in Runs |-> 0]
        BY <2>1
    <3> QED BY <3>1, <3>2
  <2>4. sincePoll \in Nat /\ windowAt \in Nat /\ errored \in Nat
      BY <2>1, LimitsAreNatural
  <2>5. cursor \in 0..(Len(Inventory) - 1)
      BY <2>1, CursorStarts
  <2>6. phase = "idle" /\ lost \subseteq Runs /\ source \in SourceNames \cup {""}
      BY <2>1
  <2>7. /\ history \in Seq(Runs) /\ order \in Seq(Groups) /\ toAsk \in Seq(Groups)
        /\ toTry \in Seq(SourceNames)
      BY <2>1, <2>2
  <2> QED BY <2>3, <2>4, <2>5, <2>6, <2>7 DEF FlowOK
<1>2. CountInv /\ FlowOK /\ [Next]_vars => FlowOK'
  <2> SUFFICES ASSUME CountInv, FlowOK, [Next]_vars PROVE FlowOK'
      OBVIOUS
  <2>1. CASE UNCHANGED vars
      BY <2>1 DEF vars, clusterVars, pollVars, clientVars, reportVars, FlowOK
  <2> QED BY <2>1, ClusterKeepsFlow, PollKeepsFlow DEF Next
<1> QED BY <1>1, <1>2, CountInvariant, PTL DEF Spec

\* The types of the whole poll, under every fault: the fan-out's position stays inside the list,
\* and an age never passes the horizon that stands for "long ago".
THEOREM ProtectionTypeCorrect == Spec => []TypeOK
<1>1. CountInv /\ FlowOK => TypeOK
    BY DEF CountInv, CountTypeOK, FlowOK, TypeOK
<1> QED BY <1>1, FlowHolds, CountInvariant, PTL

------------------------------------------------------------------------------
(* The window.  Polls that are late and slow by no more than the overlap leave no gap between the  *)
(* windows they ask for: an uncounted run is never older than what the next question reaches back. *)

\* Nothing but a source fails, and polls keep within the overlap.
PollsInTime ==
    /\ Faults = {}
    /\ MaxLate + MaxDelay <= Overlap
    /\ MaxDelay <= Interval + MaxLate

ClocksOK ==
    /\ sincePoll \in Nat /\ windowAt \in Nat /\ age \in [Runs -> Nat]
    /\ lost = {}
    /\ phase \in {"idle", "inventory", "runs", "fanout", "claim"}
    /\ phase = "idle" => sincePoll <= Interval + MaxLate
    /\ phase # "idle" => sincePoll <= MaxDelay
    /\ phase \in {"runs", "fanout", "claim"} => windowAt <= sincePoll

\* A source that answers for a window does not fail.
WindowsAnswer == "summary" \notin Refusing \/ "list" \notin Refusing

\* Then the fan-out, which knows no window, is not needed.
Windowed ==
    /\ phase # "fanout"
    /\ source \in {"", "summary", "list"}
    /\ "summary" \notin Refusing => source # "list"
    /\ phase = "runs" => toTry \in {Sources, <<"list", "groups">>, <<"list", "groups", "summary">>}
    /\ phase = "runs" /\ "summary" \notin Refusing => toTry = Sources

Uncounted == {r \in Runs : world[r] \in Outcomes /\ counts[r] = 0}

InHand(r) == \/ \E e \in batch : e.id = r /\ IsTerminal(e)
             \/ \E e \in fresh : e.id = r

WithinReach ==
    \A r \in Uncounted :
        /\ phase = "idle" => age[r] <= sincePoll
        /\ phase \in {"inventory", "runs"} => age[r] <= Interval + MaxLate + sincePoll
        /\ phase = "fanout" =>
              \/ age[r] <= sincePoll
              \/ InHand(r)
              \/ GroupOf[r] \in Held(toAsk) /\ age[r] <= Interval + MaxLate + sincePoll
        /\ phase = "claim" => age[r] <= sincePoll \/ InHand(r)

ReachInv == ClocksOK /\ WithinReach

LEMMA InitReachInv == Init => ReachInv
<1> SUFFICES ASSUME Init PROVE ReachInv
    OBVIOUS
<1>1. /\ sincePoll = Interval /\ windowAt = 0 /\ lost = {} /\ phase = "idle" /\ source = ""
      /\ age = [r \in Runs |-> 0]
    BY DEF Init
<1>2. ClocksOK
  <2>1. age \in [Runs -> Nat] /\ windowAt \in Nat
      BY <1>1
  <2>2. sincePoll \in Nat /\ sincePoll <= Interval + MaxLate
    <3>1. sincePoll = Interval
        BY <1>1
    <3>2. Interval \in Nat /\ Interval <= Interval + MaxLate
        BY LimitsAreNatural
    <3> QED BY <3>1, <3>2
  <2> QED BY <1>1, <2>1, <2>2 DEF ClocksOK
<1>3. Uncounted = {}
    BY RunsAssumption DEF Init, Uncounted
<1> QED BY <1>2, <1>3 DEF ReachInv, WithinReach

\* Runs start and finish; one that finishes has age 0.
LEMMA ClusterKeepsReachInv ==
    ASSUME CountInv, ReachInv,
           \/ \E r \in Runs : Start(r)
           \/ \E r \in Runs, o \in Outcomes : Finish(r, o)
    PROVE  ReachInv'
<1>1. /\ UNCHANGED <<sincePoll, windowAt, phase, toAsk, batch, fresh, counts, lost>>
      /\ age' \in [Runs -> Nat]
      /\ \A r \in Uncounted' : (r \in Uncounted /\ age'[r] = age[r]) \/ age'[r] = 0
  <2>0. age \in [Runs -> Nat] /\ world \in [Runs -> Outcomes \cup {"absent", "Running"}]
      BY DEF ReachInv, ClocksOK, CountInv, CountTypeOK
  <2>1. ASSUME NEW r \in Runs, Start(r)
        PROVE  /\ UNCHANGED <<sincePoll, windowAt, phase, toAsk, batch, fresh, counts, lost>>
               /\ age' \in [Runs -> Nat]
               /\ \A q \in Uncounted' : q \in Uncounted /\ age'[q] = age[q]
      BY <2>0, <2>1, RunsAssumption DEF Start, Uncounted, pollVars, clientVars, reportVars
  <2>2. ASSUME NEW r \in Runs, NEW o \in Outcomes, Finish(r, o)
        PROVE  /\ UNCHANGED <<sincePoll, windowAt, phase, toAsk, batch, fresh, counts, lost>>
               /\ age' \in [Runs -> Nat]
               /\ \A q \in Uncounted' : (q \in Uncounted /\ age'[q] = age[q]) \/ age'[q] = 0
      BY <2>0, <2>2 DEF Finish, Uncounted, pollVars, clientVars, reportVars
  <2> QED BY <2>1, <2>2
<1>2. ClocksOK'
    BY <1>1 DEF ReachInv, ClocksOK
<1>3. WithinReach'
  <2> SUFFICES ASSUME NEW r \in Uncounted'
               PROVE  /\ phase = "idle" => age'[r] <= sincePoll
                      /\ phase \in {"inventory", "runs"} => age'[r] <= Interval + MaxLate + sincePoll
                      /\ phase = "fanout" =>
                            \/ age'[r] <= sincePoll
                            \/ InHand(r)
                            \/ GroupOf[r] \in Held(toAsk) /\ age'[r] <= Interval + MaxLate + sincePoll
                      /\ phase = "claim" => age'[r] <= sincePoll \/ InHand(r)
      BY <1>1 DEF WithinReach, InHand
  <2>1. CASE age'[r] = 0
      BY <2>1, LimitsAreNatural DEF ReachInv, ClocksOK
  <2>2. CASE r \in Uncounted /\ age'[r] = age[r]
      BY <2>2 DEF ReachInv, WithinReach
  <2> QED BY <1>1, <2>1, <2>2
<1> QED BY <1>2, <1>3 DEF ReachInv

\* Time passes for the runs as it does for the poll.
LEMMA TickKeepsReachInv ==
    ASSUME ReachInv, Tick
    PROVE  ReachInv'
<1>1. /\ sincePoll' = sincePoll + 1
      /\ age' = [r \in Runs |-> IF world[r] \in Outcomes /\ age[r] < Horizon
                                THEN age[r] + 1 ELSE age[r]]
      /\ UNCHANGED <<world, windowAt, phase, toAsk, batch, fresh, counts, lost>>
      /\ phase = "idle" => sincePoll < Interval + MaxLate
      /\ phase # "idle" => sincePoll < MaxDelay
    BY DEF Tick, pollVars, clientVars, reportVars
<1>2. /\ sincePoll \in Nat /\ age \in [Runs -> Nat]
      /\ \A r \in Runs : age'[r] \in {age[r], age[r] + 1}
    BY <1>1 DEF ReachInv, ClocksOK
<1>3. \A r \in Runs : age'[r] \in Nat /\ age'[r] <= age[r] + 1
    BY <1>2
<1>4. age' \in [Runs -> Nat]
    BY <1>1, <1>3
<1>5. ClocksOK'
    BY <1>1, <1>2, <1>4, LimitsAreNatural DEF ReachInv, ClocksOK
<1>6. WithinReach'
  <2> SUFFICES ASSUME NEW r \in Uncounted
               PROVE  /\ phase = "idle" => age'[r] <= sincePoll'
                      /\ phase \in {"inventory", "runs"} => age'[r] <= Interval + MaxLate + sincePoll'
                      /\ phase = "fanout" =>
                            \/ age'[r] <= sincePoll'
                            \/ InHand(r)
                            \/ GroupOf[r] \in Held(toAsk) /\ age'[r] <= Interval + MaxLate + sincePoll'
                      /\ phase = "claim" => age'[r] <= sincePoll' \/ InHand(r)
      BY <1>1 DEF WithinReach, InHand, Uncounted
  <2>1. age'[r] \in Nat /\ age[r] \in Nat /\ age'[r] <= age[r] + 1
      BY <1>2, <1>3 DEF Uncounted
  <2>2. /\ phase = "idle" => age[r] <= sincePoll
        /\ phase \in {"inventory", "runs"} => age[r] <= Interval + MaxLate + sincePoll
        /\ phase = "fanout" =>
              \/ age[r] <= sincePoll
              \/ InHand(r)
              \/ GroupOf[r] \in Held(toAsk) /\ age[r] <= Interval + MaxLate + sincePoll
        /\ phase = "claim" => age[r] <= sincePoll \/ InHand(r)
      BY DEF ReachInv, WithinReach
  <2> QED BY <1>1, <1>2, <2>1, <2>2, LimitsAreNatural
<1> QED BY <1>5, <1>6 DEF ReachInv

LEMMA SourceTuples ==
    /\ Sources # <<>> /\ Head(Sources) = "summary" /\ Tail(Sources) = <<"list", "groups">>
    /\ Len(Sources) = 3
    /\ Head(<<"list", "groups">>) = "list" /\ Head(<<"list", "groups", "summary">>) = "list"
  BY DEF Sources

\* A poll begins in time, and what is uncounted then was finished since the last one asked.
LEMMA BeginKeepsReachInv ==
    ASSUME ReachInv, BeginPoll
    PROVE  ReachInv'
<1>1. /\ phase = "idle" /\ phase' = "inventory" /\ sincePoll' = 0
      /\ UNCHANGED <<world, age, windowAt, toTry, source, counts, lost>>
    BY DEF BeginPoll, clusterVars, clientVars, reportVars
<1>2. ClocksOK'
    BY <1>1, LimitsAreNatural DEF ReachInv, ClocksOK
<1>3. WithinReach'
  <2> SUFFICES ASSUME NEW r \in Uncounted
               PROVE  age[r] <= Interval + MaxLate + 0
      BY <1>1 DEF WithinReach, Uncounted
  <2>1. age[r] <= sincePoll /\ sincePoll <= Interval + MaxLate
      BY <1>1 DEF ReachInv, WithinReach, ClocksOK
  <2>2. age[r] \in Nat /\ sincePoll \in Nat
      BY DEF ReachInv, ClocksOK, Uncounted
  <2> QED BY <2>1, <2>2, LimitsAreNatural
<1> QED BY <1>2, <1>3 DEF ReachInv

LEMMA InventoryKeepsReachInv ==
    ASSUME ReachInv, ReadInventory
    PROVE  ReachInv'
<1>1. /\ phase = "inventory" /\ phase' = "runs" /\ windowAt' = sincePoll
      /\ UNCHANGED <<world, age, sincePoll, counts, lost>>
    BY DEF ReadInventory, clusterVars, clientVars, reportVars
<1>2. ClocksOK'
    BY <1>1 DEF ReachInv, ClocksOK
<1>3. WithinReach'
    BY <1>1 DEF ReachInv, WithinReach, Uncounted
<1> QED BY <1>2, <1>3 DEF ReachInv

\* The window reaches back to every uncounted run that had finished when the clock was read.
LEMMA AnswerKeepsReachInv ==
    ASSUME PollsInTime, ReachInv, WindowedAnswer
    PROVE  ReachInv'
<1>1. /\ phase = "runs" /\ phase' = "claim"
      /\ batch' = {EntryOf(r) : r \in {q \in Runs : InWindow(q)}}
      /\ UNCHANGED <<world, age, sincePoll, windowAt, fresh, counts, lost>>
    BY DEF WindowedAnswer, clusterVars, reportVars
<1>2. ClocksOK'
    BY <1>1 DEF ReachInv, ClocksOK
<1>3. WithinReach'
  <2> SUFFICES ASSUME NEW r \in Uncounted
               PROVE  age[r] <= sincePoll \/ \E e \in batch' : e.id = r /\ IsTerminal(e)
      BY <1>1 DEF WithinReach, InHand, Uncounted
  <2>1. /\ r \in Runs /\ world[r] \in Outcomes /\ world[r] # "Running"
        /\ age[r] \in Nat /\ sincePoll \in Nat /\ windowAt \in Nat
        /\ windowAt <= sincePoll /\ sincePoll <= MaxDelay
      BY <1>1, RunsAssumption DEF Uncounted, ReachInv, ClocksOK
  <2>2. age[r] <= Interval + MaxLate + sincePoll
      BY <1>1 DEF ReachInv, WithinReach
  <2>3. CASE age[r] < sincePoll - windowAt
      BY <2>1, <2>3
  <2>4. CASE ~(age[r] < sincePoll - windowAt)
    <3>1. age[r] >= sincePoll - windowAt
        BY <2>1, <2>4
    <3>2. age[r] <= Window + (sincePoll - windowAt)
        BY <2>1, <2>2, LimitsAreNatural DEF Window, PollsInTime
    <3>3. InWindow(r)
        BY <2>1, <3>1, <3>2 DEF InWindow
    <3>4. EntryOf(r) \in batch' /\ EntryOf(r).id = r /\ EntryOf(r).status = world[r]
        BY <1>1, <2>1, <3>3 DEF EntryOf, StatusShown
    <3>5. IsTerminal(EntryOf(r))
        BY <2>1, <3>4 DEF IsTerminal
    <3> QED BY <3>4, <3>5
  <2> QED BY <2>3, <2>4
<1> QED BY <1>2, <1>3 DEF ReachInv

\* A source that refuses while another is left costs no time that the window would not cover.
LEMMA RefusalKeepsReachInv ==
    ASSUME ReachInv, WindowedRefusal, Len(toTry) > 1
    PROVE  ReachInv'
<1>1. /\ phase = "runs" /\ phase' = "runs"
      /\ UNCHANGED <<world, age, sincePoll, windowAt, fresh, counts, lost>>
    BY DEF WindowedRefusal, NextSource, clusterVars, clientVars, reportVars
<1>2. ClocksOK'
    BY <1>1 DEF ReachInv, ClocksOK
<1>3. WithinReach'
    BY <1>1 DEF ReachInv, WithinReach, Uncounted
<1> QED BY <1>2, <1>3 DEF ReachInv

\* What the ledger refuses was counted before, or is claimed already: nothing has been lost.
LEMMA ClaimKeepsReachInv ==
    ASSUME CountInv, ReachInv, NEW entry \in batch, ClaimRun(entry)
    PROVE  ReachInv'
<1>1. /\ phase = "claim" /\ phase' = "claim" /\ batch' = batch \ {entry}
      /\ UNCHANGED <<world, age, sincePoll, windowAt, counts, lost>>
    BY DEF ClaimRun, clusterVars, reportVars
<1>2. ClocksOK'
    BY <1>1 DEF ReachInv, ClocksOK
<1>3. fresh \subseteq fresh'
    BY DEF ClaimRun
<1>4. WithinReach'
  <2> SUFFICES ASSUME NEW r \in Uncounted
               PROVE  age[r] <= sincePoll \/ InHand(r)'
      BY <1>1 DEF WithinReach, Uncounted
  <2>1. age[r] <= sincePoll \/ InHand(r)
      BY <1>1 DEF ReachInv, WithinReach
  <2>2. CASE entry.id = r /\ IsTerminal(entry)
    <3>1. CASE IsFresh(seen, entry.id)
      <4>1. entry \in fresh'
          BY <2>2, <3>1 DEF ClaimRun
      <4> QED BY <2>2, <4>1 DEF InHand
    <3>2. CASE ~IsFresh(seen, entry.id)
      <4>1. counts[r] > 0 \/ r \in lost \/ \E e \in fresh : e.id = r
          BY <2>2, <3>2 DEF CountInv, HeldIsAccountedFor, IsFresh
      <4>2. r \notin lost /\ counts[r] = 0
          BY DEF ReachInv, ClocksOK, Uncounted
      <4>3. \E e \in fresh : e.id = r
          BY <4>1, <4>2
      <4> QED BY <1>3, <4>3 DEF InHand
    <3> QED BY <3>1, <3>2
  <2>3. CASE ~(entry.id = r /\ IsTerminal(entry))
      BY <1>1, <1>3, <2>1, <2>3 DEF InHand
  <2> QED BY <2>2, <2>3
<1> QED BY <1>2, <1>4 DEF ReachInv

\* What was in hand is counted.
LEMMA ReportKeepsReachInv ==
    ASSUME PollsInTime, CountInv, ReachInv, NEW kept \in SUBSET fresh, ReportRuns(kept)
    PROVE  ReachInv'
<1>1. /\ phase = "claim" /\ phase' = "idle" /\ windowAt' = 0 /\ batch = {} /\ kept = fresh
      /\ UNCHANGED <<world, age, sincePoll>>
      /\ lost' = lost \cup {e.id : e \in fresh \ kept}
    BY DEF ReportRuns, SectionEnds, clusterVars, clientVars, PollsInTime
<1>2. counts' = [r \in Runs |-> IF \E e \in kept : e.id = r /\ counts[r] < 2
                                THEN counts[r] + 1 ELSE counts[r]]
    BY DEF ReportRuns
<1>3. lost' = {}
    BY <1>1 DEF ReachInv, ClocksOK
<1>4. ClocksOK'
  <2>1. sincePoll <= Interval + MaxLate
      BY <1>1, LimitsAreNatural DEF PollsInTime, ReachInv, ClocksOK
  <2> QED BY <1>1, <1>3, <2>1 DEF ReachInv, ClocksOK
<1>5. WithinReach'
  <2> SUFFICES ASSUME NEW r \in Uncounted'
               PROVE  age[r] <= sincePoll
      BY <1>1 DEF WithinReach
  <2>1. r \in Runs /\ world[r] \in Outcomes /\ counts'[r] = 0 /\ counts[r] \in 0..2
      BY <1>1 DEF Uncounted, CountInv, CountTypeOK
  <2>2. /\ ~\E e \in kept : e.id = r /\ counts[r] < 2
        /\ counts[r] = 0
      BY <1>2, <2>1
  <2>3. ~\E e \in fresh : e.id = r
      BY <1>1, <2>2
  <2>4. ~InHand(r)
      BY <1>1, <2>3 DEF InHand
  <2>5. r \in Uncounted
      BY <2>1, <2>2 DEF Uncounted
  <2> QED BY <1>1, <2>4, <2>5 DEF ReachInv, WithinReach
<1> QED BY <1>4, <1>5 DEF ReachInv

\* Nothing of it changes when nothing does.
LEMMA StutterKeepsReachInv ==
    ASSUME ReachInv, UNCHANGED vars
    PROVE  ReachInv'
<1>1. UNCHANGED <<world, age, sincePoll, phase, windowAt, toAsk, batch, fresh, counts, lost>>
    BY DEF vars, clusterVars, pollVars, clientVars, reportVars
<1> QED BY <1>1 DEF ReachInv, ClocksOK, WithinReach, Uncounted, InHand

\* What every step does but those of the fan-out; a refusal leaves another source to try.
LEMMA StepKeepsReachInv ==
    ASSUME PollsInTime, CountInv, ReachInv, [Next]_vars,
           WindowedRefusal => Len(toTry) > 1,
           ~(OpenFanout \/ AskGroup \/ GroupRefuses \/ CloseFanout)
    PROVE  ReachInv'
<1>1. ~SectionAborts /\ ~Restart
    BY DEF PollsInTime, SectionAborts, Restart
<1>2. CASE \E entry \in batch : ClaimRun(entry)
    BY <1>2, ClaimKeepsReachInv
<1>3. CASE \E kept \in SUBSET fresh : ReportRuns(kept)
    BY <1>3, ReportKeepsReachInv
<1> QED BY <1>1, <1>2, <1>3, StutterKeepsReachInv, ClusterKeepsReachInv, TickKeepsReachInv,
           BeginKeepsReachInv, InventoryKeepsReachInv, AnswerKeepsReachInv, RefusalKeepsReachInv
        DEF Next, Poll

LEMMA ReachIsEnough ==
    ASSUME PollsInTime, CountInv, ReachInv
    PROVE  NothingMissed
<1> SUFFICES ASSUME phase = "idle", NEW r \in Runs, world[r] \in Outcomes, age[r] > Window
             PROVE  counts[r] > 0
    BY DEF NothingMissed
<1>1. sincePoll \in Nat /\ sincePoll <= Interval + MaxLate /\ age[r] \in Nat
    BY DEF ReachInv, ClocksOK
<1>2. ~(age[r] <= sincePoll)
    BY <1>1, LimitsAreNatural DEF Window, PollsInTime
<1>3. r \notin Uncounted
    BY <1>2 DEF ReachInv, WithinReach
<1>4. counts[r] \in 0..2 /\ counts[r] # 0
    BY <1>3 DEF Uncounted, CountInv, CountTypeOK
<1> QED BY <1>4

------------------------------------------------------------------------------
(* One of the two windowed sources always answers. *)

LEMMA WindowedTries ==
    ASSUME Windowed, phase = "runs"
    PROVE  /\ Head(toTry) \in {"summary", "list"}
           /\ "summary" \notin Refusing => Head(toTry) = "summary"
           /\ Head(toTry) = "summary" => toTry = Sources
  BY SourceTuples DEF Windowed

\* Only runs/summary refuses, and the flat list stands behind it.
LEMMA WindowedRefuses ==
    ASSUME WindowsAnswer, Windowed, WindowedRefusal
    PROVE  /\ Len(toTry) > 1
           /\ phase' = "runs" /\ toTry' = <<"list", "groups">> /\ UNCHANGED source
           /\ "summary" \in Refusing
<1>1. phase = "runs" /\ Head(toTry) \in Refusing /\ NextSource /\ UNCHANGED source
    BY DEF WindowedRefusal, clientVars
<1>2. toTry = Sources /\ "summary" \in Refusing
    BY <1>1, WindowedTries DEF WindowsAnswer
<1>3. Len(toTry) > 1 /\ Tail(toTry) = <<"list", "groups">>
    BY <1>2, SourceTuples
<1> QED BY <1>1, <1>2, <1>3 DEF NextSource

LEMMA StepStaysWindowed ==
    ASSUME WindowsAnswer, PollsInTime, Windowed, [Next]_vars
    PROVE  Windowed' /\ ~(OpenFanout \/ AskGroup \/ GroupRefuses \/ CloseFanout)
<1>1. ~(OpenFanout \/ AskGroup \/ GroupRefuses \/ CloseFanout \/ SectionAborts \/ Restart)
  <2>1. ~OpenFanout
      BY WindowedTries DEF OpenFanout
  <2>2. ~(AskGroup \/ GroupRefuses \/ CloseFanout)
      BY DEF Windowed, AskGroup, GroupRefuses, CloseFanout
  <2> QED BY <2>1, <2>2 DEF PollsInTime, SectionAborts, Restart
<1> SUFFICES Windowed'
    BY <1>1
<1>2. CASE ReadInventory
  <2>1. phase' = "runs" /\ toTry' = SourcesFromWinner /\ UNCHANGED source
      BY <1>2 DEF ReadInventory, clientVars
  <2>2. source \in {"", "summary"} => toTry' = Sources
      BY <2>1 DEF SourcesFromWinner
  <2>3. source = "list" => toTry' = <<"list", "groups", "summary">>
      BY <2>1 DEF SourcesFromWinner
  <2> QED BY <2>1, <2>2, <2>3 DEF Windowed
<1>3. CASE WindowedAnswer
  <2>1. phase = "runs" /\ phase' = "claim" /\ source' = Head(toTry)
      BY <1>3 DEF WindowedAnswer
  <2> QED BY <2>1, WindowedTries DEF Windowed
<1>4. CASE WindowedRefusal
    BY <1>4, WindowedRefuses DEF Windowed
<1>5. CASE BeginPoll
    BY <1>5 DEF BeginPoll, clientVars, Windowed
<1>6. CASE \E entry \in batch : ClaimRun(entry)
    BY <1>6 DEF ClaimRun, Windowed
<1>7. CASE \E kept \in SUBSET fresh : ReportRuns(kept)
    BY <1>7 DEF ReportRuns, SectionEnds, clientVars, Windowed
<1>8. CASE \/ \E r \in Runs : Start(r)
           \/ \E r \in Runs, o \in Outcomes : Finish(r, o)
           \/ Tick
           \/ UNCHANGED vars
  <2>1. UNCHANGED <<phase, toTry, source>>
      BY <1>8 DEF Start, Finish, Tick, vars, pollVars, clientVars
  <2> QED BY <2>1 DEF Windowed
<1> QED BY <1>1, <1>2, <1>3, <1>4, <1>5, <1>6, <1>7, <1>8 DEF Next, Poll

\* Polls that are late and slow by no more than the overlap together miss no run: for any runs,
\* interval, ledger and groups, as long as one of the two windowed sources never fails.
THEOREM NoRunIsMissed ==
    ASSUME PollsInTime, WindowsAnswer
    PROVE  Spec => []NothingMissed
<1>1. Init => ReachInv /\ Windowed
  <2>1. Init => Windowed
      BY DEF Init, Windowed
  <2> QED BY <2>1, InitReachInv
<1>2. CountInv /\ ReachInv /\ Windowed /\ [Next]_vars => ReachInv' /\ Windowed'
    BY StepStaysWindowed, StepKeepsReachInv, WindowedRefuses
<1>3. CountInv /\ ReachInv => NothingMissed
    BY ReachIsEnough
<1> QED BY <1>1, <1>2, <1>3, CountInvariant, PTL DEF Spec

------------------------------------------------------------------------------
(* Both windowed sources may refuse, and the groups are asked for their last runs.  An answer of a *)
(* group knows no window: it holds an uncounted run as long as not too many came after it.         *)

\* The groups answer, and one fan-out asks all of them.
GroupsAnswer ==
    /\ "groups" \notin Refusing
    /\ Len(Inventory) <= FanoutCap

\* How far back a poll may have to look.
Lookback == Interval + MaxLate + MaxDelay

\* No group runs more often than its answer reaches back.
ListsReachBack ==
    \A g \in Groups :
        Cardinality({r \in RunsOf(g) : world[r] = "Running" \/ age[r] <= Lookback})
            <= RunsPerGroup

\* The finishing order is that of the ages.
HistoryInv ==
    /\ \A i \in 1..Len(history) : world[history[i]] \in Outcomes
    /\ \A i, j \in 1..Len(history) : i < j => age[history[j]] <= age[history[i]]

\* Whatever refuses, the groups come before the last source has.
Grouped ==
    /\ phase = "runs" =>
          /\ toTry \in {Sources, <<"list", "groups">>, <<"groups">>, <<"list", "groups", "summary">>,
                        <<"groups", "summary">>, <<"groups", "summary", "list">>}
          /\ \A g \in Groups : g \in Held(order)
    /\ phase = "fanout" => errored = 0

GroupInv == FlowOK /\ HistoryInv /\ Grouped

------------------------------------------------------------------------------

LEMMA InitHistory == Init => HistoryInv
<1> SUFFICES ASSUME Init PROVE HistoryInv
    OBVIOUS
<1>1. history = <<>> /\ Len(history) = 0
    BY DEF Init
<1>2. 1..Len(history) = {}
    BY <1>1
<1> QED BY <1>2 DEF HistoryInv

LEMMA HistoryGrows ==
    ASSUME CountInv, FlowOK, HistoryInv, NEW r \in Runs, NEW o \in Outcomes, Finish(r, o)
    PROVE  HistoryInv'
<1>1. /\ world[r] = "Running" /\ world' = [world EXCEPT ![r] = o]
      /\ history' = Append(history, r) /\ age' = [age EXCEPT ![r] = 0]
    BY DEF Finish
<1>2. history \in Seq(Runs) /\ age \in [Runs -> 0..Horizon] /\ Horizon \in Nat
    BY HorizonIsNatural DEF FlowOK
<1>3. DOMAIN world = Runs
    BY DEF CountInv, CountTypeOK
<1>4. PICK n \in Nat : n = Len(history)
    BY <1>2
<1>5. /\ Len(history') = n + 1 /\ history'[n + 1] = r
      /\ \A i \in 1..n : history'[i] = history[i] /\ history[i] \in Runs
    BY <1>1, <1>2, <1>4
<1>6. \A i \in 1..n : history[i] # r
    BY <1>1, <1>4, RunsAssumption DEF HistoryInv
<1>7. \A i \in 1..n : world'[history'[i]] = world[history[i]] /\ age'[history'[i]] = age[history[i]]
    BY <1>1, <1>2, <1>3, <1>5, <1>6
<1>8. world'[history'[n + 1]] = o /\ age'[history'[n + 1]] = 0
    BY <1>1, <1>2, <1>3, <1>5
<1>9. \A i \in 1..(n + 1) : i \in 1..n \/ i = n + 1
    BY <1>4
<1>10. \A i \in 1..(n + 1) : world'[history'[i]] \in Outcomes
    BY <1>4, <1>7, <1>8, <1>9 DEF HistoryInv
<1>11. ASSUME NEW i \in 1..(n + 1), NEW j \in 1..(n + 1), i < j
       PROVE  age'[history'[j]] <= age'[history'[i]]
  <2>1. i \in 1..n
      BY <1>4, <1>11
  <2>2. age[history[i]] \in 0..Horizon
      BY <1>2, <1>5, <2>1
  <2>3. CASE j \in 1..n
      BY <1>4, <1>7, <1>11, <2>1, <2>3 DEF HistoryInv
  <2>4. CASE j = n + 1
      BY <1>2, <1>7, <1>8, <2>1, <2>2, <2>4
  <2> QED BY <1>9, <2>3, <2>4
<1> QED BY <1>5, <1>10, <1>11 DEF HistoryInv

LEMMA HistoryAges ==
    ASSUME FlowOK, HistoryInv, Tick
    PROVE  HistoryInv'
<1>1. /\ UNCHANGED <<world, history>>
      /\ age' = [r \in Runs |-> IF world[r] \in Outcomes /\ age[r] < Horizon
                                THEN age[r] + 1 ELSE age[r]]
    BY DEF Tick
<1>2. history \in Seq(Runs) /\ age \in [Runs -> 0..Horizon] /\ Horizon \in Nat
    BY HorizonIsNatural DEF FlowOK
<1>3. ASSUME NEW i \in 1..Len(history), NEW j \in 1..Len(history), i < j
      PROVE  age'[history[j]] <= age'[history[i]]
  <2>1. history[i] \in Runs /\ history[j] \in Runs
      BY <1>2
  <2>2. world[history[i]] \in Outcomes /\ world[history[j]] \in Outcomes
      BY DEF HistoryInv
  <2>3. age[history[j]] <= age[history[i]]
      BY <1>3 DEF HistoryInv
  <2>4. age[history[j]] \in 0..Horizon /\ age[history[i]] \in 0..Horizon
      BY <1>2, <2>1
  <2>5. /\ age'[history[i]] =
              IF age[history[i]] < Horizon THEN age[history[i]] + 1 ELSE age[history[i]]
        /\ age'[history[j]] =
              IF age[history[j]] < Horizon THEN age[history[j]] + 1 ELSE age[history[j]]
      BY <1>1, <2>1, <2>2
  <2> QED BY <1>2, <2>3, <2>4, <2>5
<1> QED BY <1>1, <1>3 DEF HistoryInv

LEMMA StepKeepsHistory ==
    ASSUME CountInv, FlowOK, HistoryInv, [Next]_vars
    PROVE  HistoryInv'
<1>1. CASE UNCHANGED clusterVars
    BY <1>1 DEF clusterVars, HistoryInv
<1>2. ASSUME NEW r \in Runs, Start(r)
      PROVE  HistoryInv'
  <2>1. world[r] = "absent" /\ world' = [world EXCEPT ![r] = "Running"] /\ UNCHANGED <<history, age>>
      BY <1>2 DEF Start
  <2>2. DOMAIN world = Runs /\ \A i \in 1..Len(history) : history[i] \in Runs /\ history[i] # r
    <3>1. DOMAIN world = Runs
        BY DEF CountInv, CountTypeOK
    <3>2. \A i \in 1..Len(history) : history[i] \in Runs
      <4>1. history \in Seq(Runs)
          BY DEF FlowOK
      <4> QED BY <4>1
    <3>3. \A i \in 1..Len(history) : history[i] # r
        BY <2>1, RunsAssumption DEF HistoryInv
    <3> QED BY <3>1, <3>2, <3>3
  <2> QED BY <2>1, <2>2 DEF HistoryInv
<1>3. CASE Poll \/ SectionAborts \/ Restart
    BY <1>1, <1>3
       DEF Poll, BeginPoll, ReadInventory, WindowedAnswer, WindowedRefusal, OpenFanout, AskGroup,
           GroupRefuses, CloseFanout, ClaimRun, ReportRuns, SectionAborts, Restart
<1>4. CASE UNCHANGED vars
    BY <1>1, <1>4 DEF vars
<1> QED BY <1>2, <1>3, <1>4, HistoryGrows, HistoryAges DEF Next

------------------------------------------------------------------------------
(* Everything that is uncounted is in the answers of the groups. *)

\* Behind an uncounted run a group has only runs that are no older.
LEMMA FinishedAfterIsYounger ==
    ASSUME FlowOK, HistoryInv, NEW r \in Held(history), NEW q \in FinishedAfter(r)
    PROVE  age[q] <= age[r]
<1>1. PICK k \in 1..Len(history) : history[k] = r
    BY DEF Held
<1>2. PositionOf(history, r) \in 1..Len(history) /\ history[PositionOf(history, r)] = r
    BY <1>1 DEF PositionOf
<1>3. PICK j \in 1..Len(history) : j > PositionOf(history, r) /\ history[j] = q
    BY DEF FinishedAfter
<1>4. PositionOf(history, r) < j
    BY <1>2, <1>3
<1> QED BY <1>2, <1>3, <1>4 DEF HistoryInv

LEMMA UncountedIsListed ==
    ASSUME CountInv, FlowOK, HistoryInv, ListsReachBack,
           NEW r \in Uncounted, age[r] <= Lookback
    PROVE  r \in LastRuns(GroupOf[r])
<1> DEFINE g == GroupOf[r]
           recent == {q \in RunsOf(g) : world[q] = "Running" \/ age[q] <= Lookback}
           newer == {q \in RunsOf(g) \ {r} :
                        \/ world[q] = "Running"
                        \/ r \in Held(history) /\ q \in FinishedAfter(r)}
<1>1. g \in Groups /\ r \in RunsOf(g)
    BY RunsAssumption DEF Uncounted, RunsOf
<1>2. IsFiniteSet(recent)
  <2>1. recent \in SUBSET Runs
      BY DEF RunsOf
  <2> QED BY <2>1, RunsAssumption, FS_Subset
<1>3. newer \subseteq recent
  <2> SUFFICES ASSUME NEW q \in newer, world[q] # "Running"
               PROVE  age[q] <= Lookback
      OBVIOUS
  <2>1. age[q] <= age[r]
      BY FinishedAfterIsYounger
  <2>2. age[q] \in Nat /\ age[r] \in Nat /\ Lookback \in Nat
    <3>1. q \in Runs /\ r \in Runs /\ age \in [Runs -> 0..Horizon]
        BY DEF RunsOf, Uncounted, FlowOK
    <3>2. Lookback \in Nat
        BY LimitsAreNatural DEF Lookback
    <3> QED BY <3>1, <3>2, HorizonIsNatural
  <2> QED BY <2>1, <2>2
<1>4. r \in recent /\ r \notin newer
    BY <1>1
<1>5. Cardinality(newer) < RunsPerGroup
  <2>1. newer \in SUBSET (recent \ {r})
      BY <1>3, <1>4
  <2>2. /\ IsFiniteSet(recent \ {r})
        /\ Cardinality(recent \ {r}) = Cardinality(recent) - 1
      BY <1>2, <1>4, FS_RemoveElement
  <2>3. Cardinality(newer) <= Cardinality(recent \ {r}) /\ IsFiniteSet(newer)
      BY <2>1, <2>2, FS_Subset
  <2>4. Cardinality(newer) \in Nat /\ Cardinality(recent) \in Nat
      BY <1>2, <2>3, FS_CardinalityType
  <2>5. Cardinality(recent) <= RunsPerGroup
      BY <1>1 DEF ListsReachBack
  <2> HIDE DEF recent, newer
  <2> QED BY <2>2, <2>3, <2>4, <2>5, LimitsAssumption
<1> QED BY <1>1, <1>5 DEF LastRuns

------------------------------------------------------------------------------
(* A fan-out that may ask as many groups as there are asks every one of them. *)

LEMMA LastNumber ==
    ASSUME NEW n \in Nat, NEW S \in SUBSET (1..n), S # {}
    PROVE  \E i \in S : \A j \in S : j <= i
<1> DEFINE Less == OpToRel(<, Nat)
           fromTheEnd == {n - i : i \in S}
<1>1. IsWellFoundedOn(Less, Nat)
    BY NatLessThanWellFounded
<1>2. \A a, b \in Nat : <<a, b>> \in Less <=> a < b
    BY DEF OpToRel
<1> HIDE DEF Less
<1>3. fromTheEnd \in SUBSET Nat /\ fromTheEnd # {}
  <2>1. \A i \in S : n - i \in Nat
      OBVIOUS
  <2>2. \E i \in S : n - i \in fromTheEnd
      OBVIOUS
  <2> QED BY <2>1, <2>2
<1>4. PICK d \in fromTheEnd : \A c \in fromTheEnd : <<c, d>> \notin Less
    BY <1>1, <1>3, WFMin
<1>5. PICK i \in S : d = n - i
    OBVIOUS
<1>6. ASSUME NEW j \in S PROVE j <= i
  <2>1. n - j \in fromTheEnd /\ n - j \in Nat /\ n - i \in Nat /\ i \in Nat /\ j \in Nat
      OBVIOUS
  <2>2. ~(n - j < n - i)
      BY <1>2, <1>4, <1>5, <2>1
  <2> QED BY <2>1, <2>2
<1> QED BY <1>6

LEMMA NotBeforeItself ==
    ASSUME FlowOK, NEW g \in Groups
    PROVE  ~Before(g, g)
<1> DEFINE ended == {i \in 1..Len(history) : GroupOf[history[i]] = g}
<1>1. Len(history) \in Nat
  <2>1. history \in Seq(Runs)
      BY DEF FlowOK
  <2> QED BY <2>1
<1>2. LastEnd(g) \in Nat
  <2>1. CASE ended = {} \/ \E r \in RunsOf(g) : world[r] = "Running"
      BY <2>1 DEF LastEnd
  <2>2. CASE ~(ended = {} \/ \E r \in RunsOf(g) : world[r] = "Running")
    <3>1. LastEnd(g) = CHOOSE i \in ended : \A j \in ended : j <= i
        BY <2>2 DEF LastEnd
    <3>2. ended \in SUBSET (1..Len(history)) /\ ended # {}
        BY <2>2
    <3>3. \E i \in ended : \A j \in ended : j <= i
      <4> HIDE DEF ended
      <4> QED BY <1>1, <3>2, LastNumber
    <3>4. LastEnd(g) \in ended
      <4> HIDE DEF ended
      <4> QED BY <3>1, <3>3
    <3> QED BY <1>1, <3>4
  <2> QED BY <2>1, <2>2
<1>3. PositionOf(Inventory, g) \in Nat
  <2>1. \E i \in 1..Len(Inventory) : Inventory[i] = g
      BY DEF Groups
  <2>2. PositionOf(Inventory, g) \in 1..Len(Inventory)
      BY <2>1 DEF PositionOf
  <2> QED BY <2>2, InventoryFacts
<1> QED BY <1>2, <1>3 DEF Before

LEMMA OrderIsWhole ==
    ASSUME FlowOK, NEW s \in [1..Len(Inventory) -> Groups], IsFanoutOrder(s)
    PROVE  \A g \in Groups : \E k \in 1..Len(Inventory) : s[k] = g
<1> DEFINE n == Len(Inventory)
           places == 1..n
<1>1. n \in Nat /\ Inventory \in Seq(Groups)
    BY InventoryFacts
<1>2. IsFiniteSet(places) /\ Cardinality(places) = n
  <2>1. 1 \in Int /\ n \in Int
      BY <1>1
  <2>2. /\ IsFiniteSet(1..n)
        /\ Cardinality(1..n) = IF 1 > n THEN 0 ELSE (n - 1) + 1
    <3> HIDE DEF n
    <3> QED BY <2>1, FS_Interval
  <2> HIDE DEF n
  <2> QED BY <1>1, <2>2
<1>3. IsFiniteSet(Groups) /\ Cardinality(Groups) = n
  <2>1. Inventory \in [places -> Groups]
      BY <1>1
  <2>2. \A g \in Groups : \E i \in places : Inventory[i] = g
      BY DEF Groups
  <2>3. \A i, j \in places : Inventory[i] = Inventory[j] => i = j
      BY RunsAssumption DEF Distinct
  <2>4. Inventory \in Bijection(places, Groups)
      BY <2>1, <2>2, <2>3 DEF Bijection, Injection, Surjection, IsInjective
  <2>5. ExistsBijection(places, Groups)
      BY <2>4 DEF ExistsBijection
  <2> QED BY <1>2, <2>5, FS_Bijection
<1>4. ASSUME NEW i \in places, NEW j \in places, s[i] = s[j]
      PROVE  i = j
  <2>1. ~(i < j)
      BY <1>4, NotBeforeItself DEF IsFanoutOrder
  <2>2. ~(j < i)
      BY <1>4, NotBeforeItself DEF IsFanoutOrder
  <2> QED BY <1>1, <2>1, <2>2
<1>5. s \in Injection(places, Groups)
    BY <1>4 DEF Injection, IsInjective
<1>6. s \in Surjection(places, Groups)
    BY <1>2, <1>3, <1>5, FS_Injection
<1> QED BY <1>6 DEF Surjection

LEMMA RotationCovers ==
    ASSUME GroupsAnswer, FlowOK, Len(order) = Len(Inventory), NEW g \in Held(order)
    PROVE  g \in Held(Rotated(order, cursor, FanoutCap))
<1> DEFINE n == Len(order)
           count == RotationCount(n, FanoutCap)
           asked == Rotated(order, cursor, FanoutCap)
<1>1. n \in Nat \ {0} /\ cursor \in 0..(n - 1) /\ FanoutCap \in Nat /\ n <= FanoutCap
    BY InventoryFacts, LimitsAssumption DEF FlowOK, GroupsAnswer
<1>2. count = n
    BY <1>1 DEF RotationCount, AtLeastOne
<1>3. cursor % n = cursor
    BY <1>1
<1>4. PICK k \in 1..n : order[k] = g
    BY DEF Held
<1>5. PICK i \in 1..n : (cursor + (i - 1)) % n = k - 1
  <2>1. CASE cursor <= k - 1
    <3>1. k - cursor \in 1..n /\ cursor + ((k - cursor) - 1) = k - 1
        BY <1>1, <2>1
    <3>2. (k - 1) % n = k - 1
        BY <1>1
    <3> QED BY <3>1, <3>2
  <2>2. CASE ~(cursor <= k - 1)
    <3>1. (k + n) - cursor \in 1..n /\ cursor + (((k + n) - cursor) - 1) = (k - 1) + n
        BY <1>1, <2>2
    <3>2. ((k - 1) + n) % n = k - 1
        BY <1>1
    <3> QED BY <3>1, <3>2
  <2> QED BY <2>1, <2>2
<1>6. asked[i] = order[(k - 1) + 1]
    BY <1>2, <1>3, <1>5 DEF Rotated
<1>7. (k - 1) + 1 = k /\ DOMAIN asked = 1..n /\ Len(asked) = n
    BY <1>1, <1>2 DEF Rotated
<1> QED BY <1>4, <1>6, <1>7 DEF Held

------------------------------------------------------------------------------
(* The steps of the fan-out. *)

LEMMA GroupsAreTried ==
    ASSUME Grouped, phase = "runs"
    PROVE  /\ Head(toTry) \in SourceNames
           /\ Head(toTry) # "groups" => Len(toTry) > 1
           /\ Head(toTry) # "groups" => Tail(toTry) \in
                 {<<"list", "groups">>, <<"groups">>, <<"groups", "summary">>}
<1>1. /\ Len(Sources) = 3 /\ Head(Sources) = "summary" /\ Tail(Sources) = <<"list", "groups">>
      /\ SourceNames = {"summary", "list", "groups"}
  <2>1. \A i \in 1..3 : i = 1 \/ i = 2 \/ i = 3
      OBVIOUS
  <2> QED BY <2>1 DEF Sources, SourceNames
<1>2. /\ Len(<<"list", "groups">>) = 2 /\ Head(<<"list", "groups">>) = "list"
      /\ Tail(<<"list", "groups">>) = <<"groups">>
      /\ Len(<<"list", "groups", "summary">>) = 3 /\ Head(<<"list", "groups", "summary">>) = "list"
      /\ Tail(<<"list", "groups", "summary">>) = <<"groups", "summary">>
      /\ Head(<<"groups">>) = "groups" /\ Head(<<"groups", "summary">>) = "groups"
      /\ Head(<<"groups", "summary", "list">>) = "groups"
    OBVIOUS
<1>3. CASE toTry = Sources
    BY <1>1, <1>3
<1>4. CASE toTry = <<"list", "groups">>
    BY <1>1, <1>2, <1>4
<1>5. CASE toTry = <<"list", "groups", "summary">>
    BY <1>1, <1>2, <1>5
<1>6. CASE toTry \in {<<"groups">>, <<"groups", "summary">>, <<"groups", "summary", "list">>}
  <2>1. Head(toTry) = "groups"
      BY <1>2, <1>6
  <2> QED BY <1>1, <2>1
<1> QED BY <1>3, <1>4, <1>5, <1>6 DEF Grouped

\* The fan-out sets out to ask every group.
LEMMA OpenKeepsReachInv ==
    ASSUME GroupsAnswer, GroupInv, ReachInv, OpenFanout
    PROVE  ReachInv'
<1>1. /\ phase = "runs" /\ phase' = "fanout" /\ toAsk' = Rotated(order, cursor, FanoutCap)
      /\ UNCHANGED <<world, age, sincePoll, windowAt, counts, lost>>
    BY DEF OpenFanout, clusterVars, reportVars
<1>2. ClocksOK'
    BY <1>1 DEF ReachInv, ClocksOK
<1>3. WithinReach'
  <2> SUFFICES ASSUME NEW r \in Uncounted
               PROVE  GroupOf[r] \in Held(toAsk') /\ age[r] <= Interval + MaxLate + sincePoll
      BY <1>1 DEF WithinReach, Uncounted
  <2>1. age[r] <= Interval + MaxLate + sincePoll
      BY <1>1 DEF ReachInv, WithinReach
  <2>2. GroupOf[r] \in Groups
      BY RunsAssumption DEF Uncounted
  <2>3. GroupOf[r] \in Held(order) /\ Len(order) = Len(Inventory)
      BY <1>1, <2>2 DEF GroupInv, Grouped, FlowOK
  <2> QED BY <1>1, <2>1, <2>3, RotationCovers DEF GroupInv
<1> QED BY <1>2, <1>3 DEF ReachInv

\* The group's answer holds what of it is uncounted; what finishes later is young.
LEMMA AskKeepsReachInv ==
    ASSUME CountInv, GroupInv, ListsReachBack, ReachInv, AskGroup
    PROVE  ReachInv'
<1>1. /\ phase = "fanout" /\ phase' = "fanout" /\ toAsk # <<>> /\ toAsk' = Tail(toAsk)
      /\ batch' = batch \cup {EntryOf(r) : r \in LastRuns(Head(toAsk))}
      /\ UNCHANGED <<world, age, sincePoll, windowAt, fresh, counts, lost>>
    BY DEF AskGroup, clusterVars, reportVars
<1>2. ClocksOK'
    BY <1>1 DEF ReachInv, ClocksOK
<1>3. Held(toAsk) \subseteq {Head(toAsk)} \cup Held(Tail(toAsk))
  <2>1. toAsk \in Seq(Groups)
      BY DEF GroupInv, FlowOK
  <2>2. PICK n \in Nat : n = Len(toAsk)
      BY <2>1
  <2>3. /\ n > 0 /\ Len(Tail(toAsk)) = n - 1 /\ Head(toAsk) = toAsk[1]
        /\ \A i \in 1..(n - 1) : Tail(toAsk)[i] = toAsk[i + 1]
      BY <1>1, <2>1, <2>2
  <2>4. \A i \in 1..n : i = 1 \/ (i - 1 \in 1..(n - 1) /\ (i - 1) + 1 = i)
      BY <2>3
  <2> QED BY <2>2, <2>3, <2>4 DEF Held
<1>4. WithinReach'
  <2> SUFFICES ASSUME NEW r \in Uncounted
               PROVE  \/ age[r] <= sincePoll
                      \/ InHand(r)'
                      \/ GroupOf[r] \in Held(toAsk') /\ age[r] <= Interval + MaxLate + sincePoll
      BY <1>1 DEF WithinReach, Uncounted
  <2>1. \/ age[r] <= sincePoll
        \/ InHand(r)
        \/ GroupOf[r] \in Held(toAsk) /\ age[r] <= Interval + MaxLate + sincePoll
      BY <1>1 DEF ReachInv, WithinReach
  <2>2. InHand(r) => InHand(r)'
      BY <1>1 DEF InHand
  <2>3. CASE GroupOf[r] = Head(toAsk) /\ age[r] <= Interval + MaxLate + sincePoll
    <3>1. age[r] \in Nat /\ sincePoll \in Nat /\ sincePoll <= MaxDelay
        BY <1>1 DEF ReachInv, ClocksOK, Uncounted
    <3>2. age[r] <= Lookback
        BY <2>3, <3>1, LimitsAreNatural DEF Lookback
    <3>3. EntryOf(r) \in batch'
        BY <1>1, <2>3, <3>2, UncountedIsListed DEF GroupInv
    <3>4. EntryOf(r).id = r /\ IsTerminal(EntryOf(r))
        BY RunsAssumption DEF Uncounted, EntryOf, StatusShown, IsTerminal
    <3> QED BY <3>3, <3>4 DEF InHand
  <2> QED BY <1>1, <1>3, <2>1, <2>2, <2>3
<1> QED BY <1>2, <1>4 DEF ReachInv

\* Having asked every group, a fan-out without refusals has an answer.
LEMMA CloseKeepsReachInv ==
    ASSUME GroupInv, ReachInv, CloseFanout
    PROVE  ReachInv' /\ phase' = "claim"
<1>1. phase = "fanout" /\ toAsk = <<>> /\ errored = 0 /\ Len(order) = Len(Inventory)
      /\ UNCHANGED <<world, age, sincePoll, counts, lost>>
    BY DEF CloseFanout, clusterVars, reportVars, GroupInv, Grouped, FlowOK
<1>2. errored # RotationCount(Len(order), FanoutCap)
  <2>1. RotationCount(Len(order), FanoutCap) > 0
      BY <1>1, InventoryFacts, LimitsAssumption DEF RotationCount, AtLeastOne
  <2> QED BY <1>1, <2>1
<1>3. phase' = "claim" /\ UNCHANGED <<windowAt, batch, fresh>>
    BY <1>2 DEF CloseFanout
<1>4. ClocksOK'
    BY <1>1, <1>3 DEF ReachInv, ClocksOK
<1>5. Held(toAsk) = {}
    BY <1>1, HeldOfEmpty
<1>6. WithinReach'
    BY <1>1, <1>3, <1>5 DEF ReachInv, WithinReach, Uncounted, InHand
<1> QED BY <1>3, <1>4, <1>6 DEF ReachInv

LEMMA StepStaysGrouped ==
    ASSUME GroupsAnswer, PollsInTime, FlowOK, Grouped, [Next]_vars
    PROVE  Grouped'
<1>1. ~(GroupRefuses \/ SectionAborts \/ Restart)
    BY DEF GroupsAnswer, PollsInTime, GroupRefuses, SectionAborts, Restart
<1>2. CASE ReadInventory
  <2>1. /\ phase' = "runs" /\ toTry' = SourcesFromWinner
        /\ order' \in [1..Len(Inventory) -> Groups] /\ IsFanoutOrder(order')
      BY <1>2 DEF ReadInventory
  <2>2. SourcesFromWinner \in {Sources, <<"list", "groups", "summary">>,
                               <<"groups", "summary", "list">>}
    <3>1. SourceNames = {"summary", "list", "groups"}
      <4>1. \A i \in 1..3 : i = 1 \/ i = 2 \/ i = 3
          OBVIOUS
      <4> QED BY <4>1 DEF Sources, SourceNames
    <3>2. source = "" \/ source = "summary" \/ source = "list" \/ source = "groups"
        BY <3>1 DEF FlowOK
    <3> QED BY <3>2 DEF SourcesFromWinner
  <2>3. \A g \in Groups : g \in Held(order')
    <3>1. \A g \in Groups : \E k \in 1..Len(Inventory) : order'[k] = g
        BY <2>1, OrderIsWhole
    <3>2. Len(order') = Len(Inventory)
        BY <2>1, InventoryFacts
    <3> QED BY <3>1, <3>2 DEF Held
  <2> QED BY <2>1, <2>2, <2>3 DEF Grouped
<1>3. CASE WindowedRefusal
  <2>1. phase = "runs" /\ Head(toTry) # "groups" /\ NextSource
      BY <1>3 DEF WindowedRefusal
  <2>2. phase' = "runs" /\ toTry' = Tail(toTry) /\ UNCHANGED order
      BY <2>1, GroupsAreTried DEF NextSource
  <2> QED BY <2>1, <2>2, GroupsAreTried DEF Grouped
<1>4. CASE OpenFanout
    BY <1>4 DEF OpenFanout, Grouped
<1>5. CASE AskGroup
    BY <1>5 DEF AskGroup, Grouped
<1>6. CASE CloseFanout
  <2>1. phase = "fanout" /\ errored = 0 /\ Len(order) = Len(Inventory)
      BY <1>6 DEF CloseFanout, Grouped, FlowOK
  <2>2. RotationCount(Len(order), FanoutCap) > 0
      BY <2>1, InventoryFacts, LimitsAssumption DEF RotationCount, AtLeastOne
  <2>3. phase' = "claim"
      BY <1>6, <2>1, <2>2 DEF CloseFanout
  <2> QED BY <2>3 DEF Grouped
<1>7. CASE BeginPoll \/ WindowedAnswer
    BY <1>7 DEF BeginPoll, WindowedAnswer, Grouped
<1>8. CASE \E entry \in batch : ClaimRun(entry)
    BY <1>8 DEF ClaimRun, Grouped
<1>9. CASE \E kept \in SUBSET fresh : ReportRuns(kept)
    BY <1>9 DEF ReportRuns, SectionEnds, Grouped
<1>10. CASE \/ \E r \in Runs : Start(r)
            \/ \E r \in Runs, o \in Outcomes : Finish(r, o)
            \/ Tick
            \/ UNCHANGED vars
  <2>1. UNCHANGED <<phase, toTry, order, errored>>
      BY <1>10 DEF Start, Finish, Tick, vars, pollVars
  <2> QED BY <2>1 DEF Grouped
<1> QED BY <1>1, <1>2, <1>3, <1>4, <1>5, <1>6, <1>7, <1>8, <1>9, <1>10 DEF Next, Poll

LEMMA GroupStepKeepsReachInv ==
    ASSUME GroupsAnswer, PollsInTime, CountInv, GroupInv, ListsReachBack, ReachInv, [Next]_vars
    PROVE  ReachInv'
<1>1. WindowedRefusal => Len(toTry) > 1
    BY GroupsAreTried DEF WindowedRefusal, GroupInv
<1>2. ~GroupRefuses
    BY DEF GroupsAnswer, GroupRefuses
<1> QED BY <1>1, <1>2, StepKeepsReachInv, OpenKeepsReachInv, AskKeepsReachInv, CloseKeepsReachInv

\* Where both windowed sources refuse at will, the groups make up for them: if one fan-out may ask
\* them all and no group ever has more runs, as far back as a poll has to look, than it lists, no
\* run is missed; for any runs, interval, ledger and groups, whichever source answers when.
THEOREM GroupsMakeUpForWindows ==
    ASSUME PollsInTime, GroupsAnswer
    PROVE  Spec /\ []ListsReachBack => []NothingMissed
<1>1. Init => ReachInv /\ HistoryInv /\ Grouped
  <2>1. Init => Grouped
      BY DEF Init, Grouped
  <2> QED BY <2>1, InitReachInv, InitHistory
<1>2. /\ CountInv /\ FlowOK /\ ListsReachBack /\ ReachInv /\ HistoryInv /\ Grouped
      /\ [Next]_vars
      => ReachInv' /\ HistoryInv' /\ Grouped'
    BY StepKeepsHistory, StepStaysGrouped, GroupStepKeepsReachInv DEF GroupInv
<1>3. CountInv /\ ReachInv => NothingMissed
    BY ReachIsEnough
<1> QED BY <1>1, <1>2, <1>3, CountInvariant, FlowHolds, PTL DEF Spec

==============================================================================
