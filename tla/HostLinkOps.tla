----------------------------- MODULE HostLinkOps -----------------------------
(***************************************************************************)
(* What the host-link collection reads out of one answer of the per-group  *)
(* runs endpoint with object details: which of a VM's identifiers is taken *)
(* for its BIOS uuid, and what the diagnostics are told about the rest     *)
(* (src/cohesity_storage/domain.py, from uuid_shape to                     *)
(* parse_protected_object_links, and _host_link_event of metrics.py).      *)
(*                                                                         *)
(* A uuid is a positive number; those of the fifties carry vCenter's       *)
(* signature.  A field's value is [as, of]: how it is spelled, and the     *)
(* uuid behind the spelling.  An object is a function from labels          *)
(* <<block, name>> to values, "" being the block of the object itself.     *)
(***************************************************************************)
EXTENDS Naturals, Sequences, SequencesExt, FiniteSets

NoUuid == 0

\* The verdict for every spelling a value may have.  VMware's prefix has hex digits of its own,
\* so the verdict on it is worse than what normalise_object_uuid makes of it.
UuidShape == [
    blank     |-> "missing",
    numeric   |-> "numeric-id",
    canonical |-> "uuid-8-4-4-4-12",
    hex32     |-> "uuid-32-hex-undashed",
    braced    |-> "uuid-after-normalisation",
    prefixed  |-> "not-a-uuid",
    other     |-> "not-a-uuid"]

Spellings == DOMAIN UuidShape

\* The decimal ids of Cohesity's own are refused although their digits are hex digits, too.
Normalised(value) ==
    IF value.as \in {"canonical", "hex32", "braced", "prefixed"} THEN value.of ELSE NoUuid

LooksLikeInstanceUuid(uuid) == uuid \in 50..59

\* A mistake: object.uuid is a last resort.
BiosUuidFieldsAndUuid ==
    <<"biosUuid", "biosUUID", "vmBiosUuid", "smbiosUuid", "smBiosUuid", "hardwareUuid",
      "biosUuidHex", "uuid">>

BiosUuidFields ==
    <<"biosUuid", "biosUUID", "vmBiosUuid", "smbiosUuid", "smBiosUuid", "hardwareUuid",
      "biosUuidHex">>

InstanceUuidFields == <<"instanceUuid", "instanceUUID", "uuid">>

Blocks == <<"", "vCenterSummary", "vmwareParams", "vmWareParams", "vmwareObjectParams",
            "esxiParams">>

\* Every place a field of these names may be: a better name goes before a better block.
Labels(names) ==
    [i \in 1..(Len(names) * Len(Blocks)) |->
        <<Blocks[((i - 1) % Len(Blocks)) + 1], names[((i - 1) \div Len(Blocks)) + 1]>>]

\* The places an object fills in, and those of them whose value is a uuid: one whose value is not
\* falls through to the next.
Present(object, names) == {i \in DOMAIN Labels(names) : Labels(names)[i] \in DOMAIN object}
Usable(object, names) ==
    {i \in Present(object, names) : Normalised(object[Labels(names)[i]]) # NoUuid}

FirstLabel(places, names) == Labels(names)[Min(places)]

UuidFrom(object, names) ==
    LET places == Usable(object, names)
    IN  IF places = {} THEN NoUuid ELSE Normalised(object[FirstLabel(places, names)])

BiosUuid(object) == UuidFrom(object, BiosUuidFields)
InstanceUuid(object) == UuidFrom(object, InstanceUuidFields)

BiosUuidVerdict(object) ==
    LET places == Present(object, BiosUuidFields)
    IN  IF places = {} THEN "missing"
        ELSE UuidShape[object[FirstLabel(places, BiosUuidFields)].as]

CandidateUuidFields(object) ==
    LET names == BiosUuidFields \o InstanceUuidFields
    IN  {Labels(names)[i] : i \in Present(object, names)}

------------------------------------------------------------------------------
(* parse_protected_object_links: an answer is a sequence of runs [group, objects]. *)

\* Where the objects of this group's runs are; a run that names no group was asked for by its group.
ObjectsOf(answer, group) ==
    UNION {{<<r, o>> : o \in DOMAIN answer[r].objects} :
              r \in {k \in DOMAIN answer : answer[k].group \in {"", group}}}

ObjectAt(answer, place) == answer[place[1]].objects[place[2]]

Before(p, q) == p[1] < q[1] \/ (p[1] = q[1] /\ p[2] < q[2])

FirstOf(places) == CHOOSE p \in places : \A q \in places : p = q \/ Before(p, q)
LastOf(places) == CHOOSE p \in places : \A q \in places : p = q \/ Before(q, p)

\* The objects seen, those with a BIOS uuid, and what is said of the others.  There is one link per
\* uuid, and what is said last about a VM counts.
ParsedLinks(answer, group) ==
    LET seen == ObjectsOf(answer, group)
        Uuid(p) == BiosUuid(ObjectAt(answer, p))
        joinable == {p \in seen : Uuid(p) # NoUuid}
        Latest(uuid) == ObjectAt(answer, LastOf({p \in joinable : Uuid(p) = uuid}))
    IN  [seen |-> seen,
         uuids |-> {Uuid(p) : p \in joinable},
         instance |-> [uuid \in {Uuid(p) : p \in joinable} |-> InstanceUuid(Latest(uuid))],
         instanceShaped |-> {p \in joinable : LooksLikeInstanceUuid(Uuid(p))},
         verdicts |-> {BiosUuidVerdict(ObjectAt(answer, p)) : p \in seen \ joinable},
         biosField |-> IF joinable = {} THEN <<>>
                       ELSE FirstLabel(Usable(ObjectAt(answer, FirstOf(joinable)), BiosUuidFields),
                                       BiosUuidFields),
         candidates |-> UNION {CandidateUuidFields(ObjectAt(answer, p)) : p \in seen}]

------------------------------------------------------------------------------
(* parse_protected_object_shape and what the diagnostics make of it: the one question the probe *)
(* asks, of one group, in one request.                                                          *)

MaxUuidSamples == 3

ProtectedObjectShape(answer) ==
    LET objects == FlattenSeq([i \in 1..Len(answer) |-> answer[i].objects])
        RootUuid(o) == IF <<"", "uuid">> \in DOMAIN o THEN o[<<"", "uuid">>] ELSE [as |-> "blank"]
    IN  [seen |-> Len(objects),
         fields |-> UNION {{l[2] : l \in {k \in DOMAIN objects[i] : k[1] = ""}}
                             : i \in DOMAIN objects},
         blocks |-> UNION {{l[1] : l \in DOMAIN objects[i]} \ {""} : i \in DOMAIN objects},
         verdicts |-> [i \in 1..(IF Len(objects) < MaxUuidSamples
                                 THEN Len(objects) ELSE MaxUuidSamples)
                         |-> UuidShape[RootUuid(objects[i]).as]]]

\* Nothing is missing from the metrics when the probe is refused or comes back without objects.
ProbeSeverity(shape) == IF shape.seen = 0 THEN "WARN" ELSE "INFO"

------------------------------------------------------------------------------
(* _host_link_event: how loud the diagnostics are about one fact. *)

SuspectSeverity(fact) ==
    IF Cardinality(fact.instanceShaped) = Cardinality(fact.bios) THEN "ERROR" ELSE "WARN"

OutcomeSeverity(fact) ==
    CASE fact.vmware = 0 -> "INFO"
      [] fact.vmware > 0 /\ fact.seen # {} /\ fact.links = {} -> "ERROR"
      [] fact.vmware > 0 /\ fact.capped -> "WARN"
      [] OTHER -> IF fact.errored # {} THEN "WARN" ELSE "INFO"

ErrorSeverity == "WARN"

==============================================================================
