------------------------------ MODULE FanoutOps ------------------------------
(***************************************************************************)
(* _rotate of src/cohesity_storage/client.py: which groups a capped        *)
(* fan-out asks in one poll, and where the next poll starts.  The runs     *)
(* fan-out and the host-link fan-out both use it, each with its own        *)
(* cursor.  The cursor counts from 0, the sequence from 1.                 *)
(***************************************************************************)
EXTENDS Naturals, Sequences

AtLeastOne(cap) == IF cap < 1 THEN 1 ELSE cap

\* count = min(max(cap, 1), total)
RotationCount(total, cap) == IF AtLeastOne(cap) < total THEN AtLeastOne(cap) ELSE total

Rotated(ordered, cursor, cap) ==
    [i \in 1..RotationCount(Len(ordered), cap) |->
        ordered[(((cursor % Len(ordered)) + (i - 1)) % Len(ordered)) + 1]]

\* A mistake: a position that does not wrap.
CursorWithoutWrap(ordered, cursor, cap) ==
    (cursor % Len(ordered)) + RotationCount(Len(ordered), cap)

\* A mistake: a position that skips a group.
CursorThatSkips(ordered, cursor, cap) ==
    ((cursor % Len(ordered)) + RotationCount(Len(ordered), cap) + 1) % Len(ordered)

NextCursor(ordered, cursor, cap) ==
    ((cursor % Len(ordered)) + RotationCount(Len(ordered), cap)) % Len(ordered)

==============================================================================
