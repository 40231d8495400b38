---------------------------- MODULE FanoutRotation ----------------------------
(***************************************************************************)
(* The rotation behind the capped fan-outs of                              *)
(* src/cohesity_storage/client.py (_runs_from_groups, _host_link_fanout):  *)
(* _rotate keeps a position in a list of groups that _runs_fanout_order    *)
(* sorts anew for every poll.  Groups start and finish runs, are created   *)
(* and are deleted, so any order and any choice of them may come next.     *)
(***************************************************************************)
EXTENDS FanoutOps

CONSTANTS
    Groups,     \* every group the cluster may ever list
    MaxGroups,  \* how many of them at most at a time
    Cap         \* the cap of this fan-out

RotationAssumption ==
    /\ MaxGroups \in Nat
    /\ Cap \in Nat

VARIABLES
    ordered,    \* the groups as the next poll sorts them
    cursor,     \* where the next poll starts
    steady      \* history, read by no guard: for each position the polls since it was selected, or
                \* since the order changed

vars == <<ordered, cursor, steady>>

\* What _runs_fanout_order can make of an inventory.
IsOrder(list) ==
    /\ list \in Seq(Groups)
    /\ Len(list) <= MaxGroups
    /\ \A i, j \in 1..Len(list) : list[i] = list[j] => i = j

\* ceil(total / cap)
Sweep(total) == (total + AtLeastOne(Cap) - 1) \div AtLeastOne(Cap)

Fresh(list) == [i \in 1..Len(list) |-> 0]

\* A new client, whatever the cluster lists.
Init ==
    /\ IsOrder(ordered)
    /\ cursor = 0
    /\ steady = Fresh(ordered)

\* The next inventory sorts differently.
Relist ==
    /\ IsOrder(ordered') /\ ordered' # ordered
    /\ steady' = Fresh(ordered')
    /\ UNCHANGED cursor

\* One poll's fan-out.  Without groups it asks nothing and leaves the cursor alone.
Ask ==
    /\ ordered # <<>>
    /\ LET selected == Rotated(ordered, cursor, Cap)
       IN  steady' = [i \in 1..Len(ordered) |->
                        IF \E j \in 1..Len(selected) : selected[j] = ordered[i] THEN 0
                        ELSE steady[i] + 1]
    /\ cursor' = NextCursor(ordered, cursor, Cap)
    /\ UNCHANGED ordered

\* A new client starts at the front.
Restart ==
    /\ cursor' = 0
    /\ steady' = Fresh(ordered)
    /\ UNCHANGED ordered

Next ==
    \/ Relist
    \/ Ask
    \/ Restart

Spec == Init /\ [][Next]_vars

------------------------------------------------------------------------------
\* Types.
TypeOK ==
    /\ IsOrder(ordered)
    /\ cursor \in 0..MaxGroups
    /\ steady \in [1..Len(ordered) -> Nat]

\* While the groups keep their order the cap is a rate and not a filter: every group is asked
\* again within ceil(total / cap) polls, wherever the cursor stood when the order came about,
\* also when it was left by a longer list.
SweptWhileSteady == \A i \in 1..Len(ordered) : steady[i] < Sweep(Len(ordered))

==============================================================================
