---------------------------- MODULE ProtectionRuns ----------------------------
(***************************************************************************)
(* How the extension counts protection runs: the protection section of a   *)
(* poll (src/cohesity_storage/__main__.py, _report_protection), the client *)
(* methods it calls (new_protection_runs and the three run sources behind  *)
(* it, src/cohesity_storage/client.py) and the dedup ledger                *)
(* (src/cohesity_storage/domain.py), beside a cluster on which runs start  *)
(* and finish at any moment.                                               *)
(*                                                                         *)
(* Time is discrete.  `age` is the time since a run finished, saturated at *)
(* Horizon, and `sincePoll` the time since the last poll was stamped, so   *)
(* no clock grows without bound.                                           *)
(***************************************************************************)
EXTENDS LedgerOps, FanoutOps, FiniteSets

CONSTANTS
    Runs,           \* the runs that happen while the extension watches
    Inventory,      \* the protection groups, in the order the cluster lists them
    GroupOf,        \* the group each run belongs to
    Outcomes,       \* the terminal statuses a run can finish with
    Opaque,         \* runs whose status the cluster does not state while in flight
    Capacity,       \* RUN_LEDGER_CAPACITY
    RunsPerGroup,   \* RUNS_PER_GROUP
    FanoutCap,      \* max_run_fanout_groups
    Interval,       \* the poll interval
    Overlap,        \* RUNS_WINDOW_OVERLAP_SECONDS
    MaxLate,        \* how late the scheduler may start a due poll
    MaxDelay,       \* how long a poll takes to finish its protection section
    Refusing,       \* the run sources that may answer with a CohesityError
    Faults          \* what else may go wrong, a subset of FaultKinds

FaultKinds == {"abort", "emit", "restart"}

Groups == {Inventory[i] : i \in 1..Len(Inventory)}

Sources == <<"summary", "list", "groups">>

SourceNames == {Sources[i] : i \in 1..3}

ASSUME RunsAssumption ==
    /\ IsFiniteSet(Runs)
    /\ Inventory \in Seq(Groups) /\ Len(Inventory) > 0 /\ Distinct(Inventory)
    /\ GroupOf \in [Runs -> Groups]
    /\ Outcomes \cap {"absent", "Running", "unknown", "none"} = {}
    /\ Opaque \subseteq Runs

ASSUME LimitsAssumption ==
    /\ Capacity \in Nat \ {0}
    /\ {RunsPerGroup, FanoutCap, Interval} \subseteq Nat \ {0}
    /\ {Overlap, MaxLate, MaxDelay} \subseteq Nat
    /\ Refusing \subseteq SourceNames
    /\ Faults \subseteq FaultKinds

VARIABLES
    world,      \* run -> "absent", "Running" or an outcome
    history,    \* the finished runs, oldest first
    age,        \* run -> time since it finished
    sincePoll,  \* time since _last_run was stamped
    phase,      \* where the poll's protection section stands
    order,      \* the groups as this poll's inventory sorted them
    windowAt,   \* sincePoll at the moment protection_runs() read the clock
    toTry,      \* run sources still to be tried, in order
    toAsk,      \* groups the fan-out has still to ask
    errored,    \* groups that refused in this fan-out
    batch,      \* the parsed answer not yet offered to the ledger
    fresh,      \* runs claimed in this poll and not yet reported
    source,     \* _runs_source, "" until a source has answered
    cursor,     \* _runs_group_cursor
    seen,       \* _run_ledger
    counts,     \* how often Dynatrace has counted each run, saturated at 2
    outcome,    \* the status it was last counted under
    lost        \* runs that were claimed and whose lines never left

clusterVars == <<world, history, age>>
pollVars == <<phase, order, windowAt, toTry, toAsk, errored, batch, fresh>>
clientVars == <<source, cursor, seen>>
reportVars == <<counts, outcome, lost>>
vars == <<clusterVars, sincePoll, pollVars, clientVars, reportVars>>

Window == Interval + Overlap
Horizon == Window + MaxDelay + 1

Shown == Outcomes \cup {"Running", "unknown"}
Entry == [id : Runs, status : Shown]

------------------------------------------------------------------------------
(* What the cluster says. *)

\* run_status: a run whose status is in none of the known places reads "unknown".
StatusShown(r) ==
    IF world[r] = "Running" /\ r \in Opaque THEN "unknown" ELSE world[r]

EntryOf(r) == [id |-> r, status |-> StatusShown(r)]

\* A mistake: a run in flight is taken for a finished one.
IsTerminalAlways(entry) == TRUE

\* ProtectionRun.is_terminal: everything not listed as non-terminal, "unknown" included.
IsTerminal(entry) == entry.status # "Running"

\* A mistake: a window as wide as the interval, without the overlap.
InWindowWithoutOverlap(r) ==
    \/ world[r] = "Running"
    \/ /\ world[r] \in Outcomes
       /\ age[r] >= sincePoll - windowAt
       /\ age[r] <= Interval + (sincePoll - windowAt)

\* A run is in the window [now - Window, now] if it is in flight or finished inside it; `now`
\* was read when the sources were first tried and does not move while they are.
InWindow(r) ==
    \/ world[r] = "Running"
    \/ /\ world[r] \in Outcomes
       /\ age[r] >= sincePoll - windowAt
       /\ age[r] <= Window + (sincePoll - windowAt)

RunsOf(g) == {r \in Runs : GroupOf[r] = g /\ world[r] # "absent"}

FinishedAfter(r) ==
    {history[j] : j \in {i \in 1..Len(history) : i > PositionOf(history, r)}}

\* numRuns: a group's newest runs; the one in flight is the newest.
LastRuns(g) ==
    {r \in RunsOf(g) :
        LET newer == {q \in RunsOf(g) \ {r} :
                        \/ world[q] = "Running"
                        \/ r \in Held(history) /\ q \in FinishedAfter(r)}
        IN  Cardinality(newer) < RunsPerGroup}

\* lastRun's end time as a place in the finishing order; 0 stands for a group whose last run
\* is in flight or that has never run, which sort last.
LastEnd(g) ==
    LET ended == {i \in 1..Len(history) : GroupOf[history[i]] = g}
    IN  IF ended = {} \/ \E r \in RunsOf(g) : world[r] = "Running"
        THEN 0
        ELSE CHOOSE i \in ended : \A j \in ended : j <= i

\* _runs_fanout_order: most recently finished first, otherwise as the cluster listed them.
Before(g, h) ==
    \/ LastEnd(g) > LastEnd(h)
    \/ LastEnd(g) = LastEnd(h) /\ PositionOf(Inventory, g) < PositionOf(Inventory, h)

IsFanoutOrder(s) ==
    \A i, j \in 1..Len(Inventory) : i < j => Before(s[i], s[j])

\* _runs_sources: the last winner first, then the rest in order, wrapping.
SourcesFromWinner ==
    CASE source \in {"", "summary"} -> Sources
      [] source = "list"            -> <<"list", "groups", "summary">>
      [] source = "groups"          -> <<"groups", "summary", "list">>

------------------------------------------------------------------------------
Init ==
    /\ world = [r \in Runs |-> "absent"]
    /\ history = <<>>
    /\ age = [r \in Runs |-> 0]
    /\ sincePoll = Interval
    /\ phase = "idle"
    /\ order = <<>>
    /\ windowAt = 0
    /\ toTry = <<>>
    /\ toAsk = <<>>
    /\ errored = 0
    /\ batch = {}
    /\ fresh = {}
    /\ source = ""
    /\ cursor = 0
    /\ seen = <<>>
    /\ counts = [r \in Runs |-> 0]
    /\ outcome = [r \in Runs |-> "none"]
    /\ lost = {}

------------------------------------------------------------------------------
(* The cluster. *)

\* A group runs one job at a time.
Start(r) ==
    /\ world[r] = "absent"
    /\ \A q \in Runs : GroupOf[q] = GroupOf[r] => world[q] # "Running"
    /\ world' = [world EXCEPT ![r] = "Running"]
    /\ UNCHANGED <<history, age, sincePoll, pollVars, clientVars, reportVars>>

Finish(r, o) ==
    /\ world[r] = "Running"
    /\ world' = [world EXCEPT ![r] = o]
    /\ history' = Append(history, r)
    /\ age' = [age EXCEPT ![r] = 0]
    /\ UNCHANGED <<sincePoll, pollVars, clientVars, reportVars>>

\* Time passes until the next poll is overdue, or until this one must have finished.
Tick ==
    /\ sincePoll < IF phase = "idle" THEN Interval + MaxLate ELSE MaxDelay
    /\ sincePoll' = sincePoll + 1
    /\ age' = [r \in Runs |-> IF world[r] \in Outcomes /\ age[r] < Horizon
                              THEN age[r] + 1 ELSE age[r]]
    /\ UNCHANGED <<world, history, pollVars, clientVars, reportVars>>

------------------------------------------------------------------------------
(* The protection section of one poll. *)

\* A mistake: what one poll claimed is left lying around for the next.
SectionEndsKeepingFresh ==
    /\ phase' = "idle"
    /\ toTry' = <<>>
    /\ toAsk' = <<>>
    /\ errored' = 0
    /\ batch' = {}
    /\ fresh' = fresh
    /\ order' = <<>>
    /\ windowAt' = 0

\* The section is over, whether it reported or an exception left it.
SectionEnds ==
    /\ phase' = "idle"
    /\ toTry' = <<>>
    /\ toAsk' = <<>>
    /\ errored' = 0
    /\ batch' = {}
    /\ fresh' = {}
    /\ order' = <<>>
    /\ windowAt' = 0

\* A due cluster is stamped before it is polled.
BeginPoll ==
    /\ phase = "idle"
    /\ sincePoll >= Interval
    /\ sincePoll' = 0
    /\ phase' = "inventory"
    /\ UNCHANGED <<clusterVars, order, windowAt, toTry, toAsk, errored, batch, fresh,
                   clientVars, reportVars>>

\* protection_groups() answers; protection_runs() reads the clock and lines its sources up.
ReadInventory ==
    /\ phase = "inventory"
    /\ order' \in {s \in [1..Len(Inventory) -> Groups] : IsFanoutOrder(s)}
    /\ windowAt' = sincePoll
    /\ toTry' = SourcesFromWinner
    /\ phase' = "runs"
    /\ UNCHANGED <<clusterVars, sincePoll, toAsk, errored, batch, fresh, clientVars, reportVars>>

\* The cluster did not answer, the inventory was refused, or something that is not a
\* CohesityError came out of a request: _section swallows it and the poll goes on without
\* its runs.
SectionAborts ==
    /\ "abort" \in Faults
    /\ phase \in {"inventory", "runs", "fanout"}
    /\ SectionEnds
    /\ UNCHANGED <<clusterVars, sincePoll, clientVars, reportVars>>

\* runs/summary or the flat list answers for the window.
WindowedAnswer ==
    /\ phase = "runs"
    /\ toTry # <<>>
    /\ Head(toTry) # "groups"
    /\ source' = Head(toTry)
    /\ batch' = {EntryOf(r) : r \in {q \in Runs : InWindow(q)}}
    /\ phase' = "claim"
    /\ UNCHANGED <<clusterVars, sincePoll, order, windowAt, toTry, toAsk, errored, fresh,
                   cursor, seen, reportVars>>

\* A source refused: the next one is tried, and when none is left the first failure is raised.
NextSource ==
    IF Len(toTry) > 1
    THEN /\ toTry' = Tail(toTry)
         /\ phase' = "runs"
         /\ toAsk' = <<>> /\ errored' = 0 /\ batch' = {}
         /\ UNCHANGED <<order, windowAt, fresh>>
    ELSE SectionEnds

WindowedRefusal ==
    /\ phase = "runs"
    /\ toTry # <<>>
    /\ Head(toTry) \in Refusing \ {"groups"}
    /\ NextSource
    /\ UNCHANGED <<clusterVars, sincePoll, clientVars, reportVars>>

\* _runs_from_groups picks its groups and moves the cursor before it sends a request.
OpenFanout ==
    /\ phase = "runs"
    /\ toTry # <<>>
    /\ Head(toTry) = "groups"
    /\ toAsk' = Rotated(order, cursor, FanoutCap)
    /\ cursor' = NextCursor(order, cursor, FanoutCap)
    /\ errored' = 0
    /\ phase' = "fanout"
    /\ UNCHANGED <<clusterVars, sincePoll, order, windowAt, toTry, batch, fresh,
                   source, seen, reportVars>>

AskGroup ==
    /\ phase = "fanout"
    /\ toAsk # <<>>
    /\ batch' = batch \cup {EntryOf(r) : r \in LastRuns(Head(toAsk))}
    /\ toAsk' = Tail(toAsk)
    /\ UNCHANGED <<clusterVars, sincePoll, phase, order, windowAt, toTry, errored, fresh,
                   clientVars, reportVars>>

\* One group failing is skipped and counted.
GroupRefuses ==
    /\ phase = "fanout"
    /\ toAsk # <<>>
    /\ "groups" \in Refusing
    /\ toAsk' = Tail(toAsk)
    /\ errored' = errored + 1
    /\ UNCHANGED <<clusterVars, sincePoll, phase, order, windowAt, toTry, batch, fresh,
                   clientVars, reportVars>>

\* Every group failing is raised instead of being read as "no runs".
CloseFanout ==
    /\ phase = "fanout"
    /\ toAsk = <<>>
    /\ IF errored = RotationCount(Len(order), FanoutCap)
       THEN NextSource /\ UNCHANGED source
       ELSE /\ source' = "groups"
            /\ phase' = "claim"
            /\ UNCHANGED <<order, windowAt, toTry, toAsk, errored, batch, fresh>>
    /\ UNCHANGED <<clusterVars, sincePoll, cursor, seen, reportVars>>

\* A mistake: a run in flight is recorded, so that it cannot be counted when it finishes.
ClaimRunInFlightToo(entry) ==
    /\ phase = "claim"
    /\ batch' = batch \ {entry}
    /\ seen' = Claim(seen, entry.id, Capacity)
    /\ fresh' = IF IsTerminal(entry) /\ IsFresh(seen, entry.id)
                THEN fresh \cup {entry} ELSE fresh
    /\ UNCHANGED <<clusterVars, sincePoll, phase, order, windowAt, toTry, toAsk, errored,
                   source, cursor, reportVars>>

\* new_terminal_runs, one run at a time in whatever order the answer listed them: a run in
\* flight is skipped without being recorded, a finished one is offered to the ledger.
ClaimRun(entry) ==
    /\ phase = "claim"
    /\ batch' = batch \ {entry}
    /\ IF IsTerminal(entry)
       THEN /\ seen' = Claim(seen, entry.id, Capacity)
            /\ fresh' = IF IsFresh(seen, entry.id) THEN fresh \cup {entry} ELSE fresh
       ELSE UNCHANGED <<seen, fresh>>
    /\ UNCHANGED <<clusterVars, sincePoll, phase, order, windowAt, toTry, toAsk, errored,
                   source, cursor, reportVars>>

\* The lines of the claimed runs leave.  The ones the SDK rejects, or that come after an
\* exception, are gone: their ids stay claimed.
ReportRuns(kept) ==
    /\ phase = "claim"
    /\ batch = {}
    /\ kept = fresh \/ "emit" \in Faults
    /\ counts' = [r \in Runs |-> IF \E e \in kept : e.id = r /\ counts[r] < 2
                                 THEN counts[r] + 1 ELSE counts[r]]
    /\ outcome' = [r \in Runs |-> IF \E e \in kept : e.id = r
                                  THEN (CHOOSE e \in kept : e.id = r).status
                                  ELSE outcome[r]]
    /\ lost' = lost \cup {e.id : e \in fresh \ kept}
    /\ SectionEnds
    /\ UNCHANGED <<clusterVars, sincePoll, clientVars>>

\* The ActiveGate restarts the extension: the client and its ledger are in memory only, and a
\* cluster without a stamp is due at once.
Restart ==
    /\ "restart" \in Faults
    /\ SectionEnds
    /\ sincePoll' = Interval
    /\ source' = ""
    /\ cursor' = 0
    /\ seen' = <<>>
    /\ UNCHANGED <<clusterVars, reportVars>>

Poll ==
    \/ BeginPoll
    \/ ReadInventory
    \/ WindowedAnswer
    \/ WindowedRefusal
    \/ OpenFanout
    \/ AskGroup
    \/ GroupRefuses
    \/ CloseFanout
    \/ \E entry \in batch : ClaimRun(entry)
    \/ \E kept \in SUBSET fresh : ReportRuns(kept)

Next ==
    \/ \E r \in Runs : Start(r)
    \/ \E r \in Runs, o \in Outcomes : Finish(r, o)
    \/ Tick
    \/ Poll
    \/ SectionAborts
    \/ Restart

Spec == Init /\ [][Next]_vars

------------------------------------------------------------------------------
\* Types.
TypeOK ==
    /\ world \in [Runs -> Outcomes \cup {"absent", "Running"}]
    /\ history \in Seq(Runs)
    /\ age \in [Runs -> 0..Horizon]
    /\ sincePoll \in Nat
    /\ phase \in {"idle", "inventory", "runs", "fanout", "claim"}
    /\ order \in Seq(Groups)
    /\ windowAt \in Nat
    /\ toTry \in Seq(SourceNames)
    /\ toAsk \in Seq(Groups)
    /\ errored \in Nat
    /\ batch \subseteq Entry
    /\ fresh \subseteq Entry
    /\ source \in SourceNames \cup {""}
    /\ cursor \in 0..(Len(Inventory) - 1)
    /\ seen \in Seq(Runs)
    /\ counts \in [Runs -> 0..2]
    /\ outcome \in [Runs -> Shown \cup {"none"}]
    /\ lost \subseteq Runs

\* No finished run falls out of reach uncounted: once it is older than any window a later
\* poll can ask for, it has been counted.  What the overlap is for: polls start late, take
\* time to reach their runs request, and a source's answer may come after its window closed.
NothingMissed ==
    phase = "idle" =>
        \A r \in Runs : world[r] \in Outcomes /\ age[r] > Window => counts[r] > 0

\* Between polls the ledger holds nothing that was not counted, or lost on its way to Dynatrace:
\* a failed source, a fan-out that was abandoned or a section that aborted must not have claimed
\* a run on its way out.
ClaimedIsCounted ==
    phase = "idle" => \A r \in Held(seen) : counts[r] > 0 \/ r \in lost

\* A run whose status the cluster states is counted as what it finished as: neither while it was
\* in flight nor from an answer that was overtaken.
CountedUnderItsOutcome ==
    \A r \in Runs \ Opaque : counts[r] > 0 => outcome[r] = world[r]

\* The run metric as the rest of the product sees it.
Counter == INSTANCE RunCounter

\* The protection poll implements the abstract counter: every report adds runs that have ended
\* and were never counted before, each once.
CountsRunsOnce == Counter!Spec

------------------------------------------------------------------------------
(* The inductive invariant behind the safety properties, as named parts.   *)

CountTypeOK ==
    /\ world \in [Runs -> Outcomes \cup {"absent", "Running"}]
    /\ counts \in [Runs -> 0..2]
    /\ outcome \in [Runs -> Shown \cup {"none"}]
    /\ batch \subseteq Entry
    /\ fresh \subseteq Entry
    /\ seen \in Seq(Runs) /\ Distinct(seen) /\ Len(seen) <= Capacity

\* A terminal status in an answer is the run's final one, however old the answer is.
AnswersAreFinal ==
    \A e \in batch \cup fresh :
        /\ e.status \in Outcomes => world[e.id] = e.status
        /\ e.id \notin Opaque => e.status # "unknown"

FreshIsTerminal == \A e \in fresh : IsTerminal(e)

FreshOnlyWhileClaiming == phase # "claim" => fresh = {}

\* Every id the ledger holds was counted or lost, or is about to be in this poll.
HeldIsAccountedFor ==
    \A r \in Held(seen) : counts[r] > 0 \/ r \in lost \/ \E e \in fresh : e.id = r

\* With a ledger that holds every run and a process that lives, a counted run stays claimed.
CountedStaysClaimed ==
    "restart" \notin Faults /\ Cardinality(Runs) <= Capacity =>
        /\ \A r \in Runs : counts[r] <= 1 /\ (counts[r] > 0 => r \in Held(seen))
        /\ \A e \in fresh : e.id \in Held(seen) /\ counts[e.id] = 0

CountedFinal ==
    \A r \in Runs \ Opaque : counts[r] > 0 => world[r] \in Outcomes /\ outcome[r] = world[r]

\* The inductive invariant of the counting: what an answer, the claimed entries, the ledger and
\* the counts know of each other at every step of a poll.
CountInv ==
    /\ CountTypeOK
    /\ AnswersAreFinal
    /\ FreshIsTerminal
    /\ FreshOnlyWhileClaiming
    /\ HeldIsAccountedFor
    /\ CountedStaysClaimed
    /\ CountedFinal

==============================================================================
