------------------------------ MODULE RunCounter ------------------------------
(***************************************************************************)
(* What the run metric promises, without windows, sources, ledgers or      *)
(* polls: protection runs start and finish on the cluster, and each        *)
(* finished run is counted at most once, under the outcome it finished     *)
(* with.  ProtectionRuns implements this while the runs fit its ledger and *)
(* its process lives.                                                      *)
(***************************************************************************)
EXTENDS Naturals

CONSTANTS Runs, Outcomes

VARIABLES
    world,      \* what each run is doing on the cluster
    counts,     \* how often each run has been counted
    outcome     \* the status each run was last counted under

vars == <<world, counts, outcome>>

Init ==
    /\ world = [r \in Runs |-> "absent"]
    /\ counts = [r \in Runs |-> 0]
    /\ outcome = [r \in Runs |-> "none"]

Start(r) ==
    /\ world[r] = "absent"
    /\ world' = [world EXCEPT ![r] = "Running"]
    /\ UNCHANGED <<counts, outcome>>

Finish(r, o) ==
    /\ world[r] = "Running"
    /\ world' = [world EXCEPT ![r] = o]
    /\ UNCHANGED <<counts, outcome>>

\* One interval's delta counters: any set of finished runs that were not counted before.
Count(batch) ==
    /\ \A r \in batch : world[r] \in Outcomes /\ counts[r] = 0
    /\ counts' = [r \in Runs |-> IF r \in batch THEN 1 ELSE counts[r]]
    /\ outcome' = [r \in Runs |-> IF r \in batch THEN world[r] ELSE outcome[r]]
    /\ UNCHANGED world

Next ==
    \/ \E r \in Runs : Start(r)
    \/ \E r \in Runs, o \in Outcomes : Finish(r, o)
    \/ \E batch \in SUBSET Runs : Count(batch)

Spec == Init /\ [][Next]_vars

==============================================================================
