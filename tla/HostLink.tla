------------------------------- MODULE HostLink -------------------------------
(***************************************************************************)
(* How a client finds out, poll by poll, which VMs each VMware protection  *)
(* group protects (src/cohesity_storage/client.py: probe_protected_objects,*)
(* protected_object_links, _host_link_fanout, _host_link_for_group), and   *)
(* what of it leaves: the bridge metric's lines                            *)
(* (metrics.protected_object_samples) and one diagnostic per outcome.      *)
(*                                                                         *)
(* The cluster lists groups of every environment, and starting, finishing, *)
(* created and deleted jobs change what is listed and how it sorts.  A     *)
(* poll works on one inventory; what changes meanwhile is seen by the next.*)
(***************************************************************************)
EXTENDS HostLinkOps, FanoutOps

CONSTANTS
    Inventories,        \* the listings considered, in the order the fan-out sorts them
    VMware,             \* the groups whose environment says VMware
    MaxRunFanoutGroups, \* maxRunFanoutGroups
    GroupsPerPoll,      \* HOST_LINK_GROUPS_PER_POLL
    ObjectCap,          \* maxHostLinkObjects
    Answers,            \* group -> what its runs endpoint may answer, besides a refusal
    Firmware            \* group -> the BIOS uuids of the VMs it protects

Groups == UNION {ToSet(list) : list \in Inventories}

ASSUME SettingsAssumption ==
    /\ VMware \subseteq Groups
    /\ {MaxRunFanoutGroups, GroupsPerPoll, ObjectCap} \subseteq Nat \ {0}

\* An answer is a list of runs with lists of objects, whose fields hold values.
ASSUME AnswersAssumption ==
    \A g \in Groups : \A answer \in Answers[g] :
        /\ answer \in Seq(ToSet(answer))
        /\ \A run \in ToSet(answer) :
              /\ run.objects \in Seq(ToSet(run.objects))
              /\ \A object \in ToSet(run.objects) : \A label \in DOMAIN object :
                    object[label].as \in Spellings /\ object[label].of \in Nat

\* What an object carries in a field that is neither vCenter's id of it nor Cohesity's is the BIOS
\* uuid of a VM of its group, if it is a uuid at all.
ASSUME FieldsAssumption ==
    \A g \in Groups : \A answer \in Answers[g] : \A place \in ObjectsOf(answer, g) :
        \A label \in DOMAIN ObjectAt(answer, place) :
            \/ label[2] \in ToSet(InstanceUuidFields)
            \/ Normalised(ObjectAt(answer, place)[label]) \in Firmware[g] \cup {NoUuid}

Refused == <<[group |-> "refused", objects |-> <<>>]>>

\* The operator's dial for the runs fan-out turns this one down, too.
Budget == IF MaxRunFanoutGroups < GroupsPerPoll THEN MaxRunFanoutGroups ELSE GroupsPerPoll

Markers == {"none", "capped", "linked", "empty", "error", "instance_shaped", "protectedObjects"}

VARIABLES
    inventory,  \* the groups listed, in the order of _runs_fanout_order
    mode,       \* "live"; "off": collectHostLink is off; "replay": answers come from fixtures
    cursor,     \* _host_link_cursor
    probed,     \* _object_details_probed
    told,       \* the severity each marker of _diagnosed was reported with, "" if it is not there
    links,      \* the pairs the last poll published
    \* History, read by no guard.
    probes,     \* requests the probe has made in this client's life, saturated at 2
    cut,        \* did the object cap ever keep something back?
    suspect,    \* was a uuid with vCenter's signature ever published?
    steady      \* per VMware group, the polls since it was selected, see FanoutRotation

historyVars == <<cut, suspect>>
vars == <<inventory, mode, cursor, probed, told, links, probes, historyVars, steady>>

\* The groups out of vSphere.
OnlyVMware(list) == SelectSeq(list, LAMBDA g : g \in VMware)
vmware == OnlyVMware(inventory)

Largest == Max({Len(OnlyVMware(list)) : list \in Inventories})

\* The fan-out as a rotation over the VMware groups alone.
LinkRotation == INSTANCE FanoutRotation WITH
    Groups <- VMware,
    MaxGroups <- Largest,
    Cap <- Budget,
    ordered <- vmware

ASSUME LinkRotationAssumption == LinkRotation!RotationAssumption

\* A cluster lists a group once.
ASSUME InventoriesAssumption == \A list \in Inventories : LinkRotation!IsOrder(OnlyVMware(list))

ClientStarts(some) ==
    /\ mode = some
    /\ cursor = 0
    /\ probed = FALSE
    /\ told = [m \in Markers |-> ""]
    /\ links = {}
    /\ probes = 0
    /\ cut = FALSE /\ suspect = FALSE

Init ==
    /\ inventory \in Inventories
    /\ ClientStarts("live")
    /\ steady = LinkRotation!Fresh(vmware)

------------------------------------------------------------------------------
(* The cluster. *)

\* Jobs finish, start, are created and are deleted.
Relist(list) ==
    /\ list \in Inventories \ {inventory}
    /\ inventory' = list
    /\ steady' = IF OnlyVMware(list) = vmware THEN steady ELSE LinkRotation!Fresh(OnlyVMware(list))
    /\ UNCHANGED <<mode, cursor, probed, told, links, probes, historyVars>>

------------------------------------------------------------------------------
(* The probe, once in a client's life. *)

\* What it may report: a refusal and "no group" are reported like an answer without objects.
\* _object_details_group settles on the group whose last run went best, which may be any.
ProbeSeverities ==
    {"WARN"} \cup {ProbeSeverity(ProtectedObjectShape(answer)) :
                     answer \in UNION {Answers[g] : g \in ToSet(inventory)}}

ProbeEvents ==
    IF probed \/ mode = "replay" THEN {{}}
    ELSE {{<<"protectedObjects", severity>>} : severity \in ProbeSeverities}

\* A mistake: the probe counts as made once it is answered.
ProbeWhenAnswered(events) ==
    /\ probed' = (probed \/ <<"protectedObjects", "INFO">> \in events)
    /\ probes' = IF events = {} \/ inventory = <<>> \/ probes = 2 THEN probes ELSE probes + 1

\* probe_protected_objects: the flag is set before anything can fail.
Probe(events) ==
    /\ probed' = TRUE
    /\ probes' = IF events = {} \/ inventory = <<>> \/ probes = 2 THEN probes ELSE probes + 1

------------------------------------------------------------------------------
(* The fan-out. *)

\* _diagnose and the log record made of the fact: the first report under a marker is the only one.
Tell(events) ==
    told' = [m \in Markers |->
                IF told[m] = "" /\ \E e \in events : e[1] = m
                THEN (CHOOSE e \in events : e[1] = m)[2] ELSE told[m]]

\* _host_link_for_group, of every answer there is.
Parsed == [g \in Groups |-> [answer \in Answers[g] |-> ParsedLinks(answer, g)]]

NoFacts == [vmware |-> 0, errored |-> {}, seen |-> {}, bios |-> {}, instanceShaped |-> {},
            verdicts |-> {}, candidates |-> {}, biosField |-> <<>>, links |-> {},
            capped |-> FALSE]

\* The links the answers hold, as places <<i, uuid>> of the i-th group selected; they are taken in
\* the order of the groups, and within a group in that of the uuids.
FoundLinks(answered, parsed) == UNION {{<<i, u>> : u \in parsed[i].uuids} : i \in answered}

\* The object cap keeps the first ones.
KeptLinks(found) == {p \in found : Cardinality({q \in found : Before(q, p)}) < ObjectCap}

\* What the loop over the selected groups adds up to.  A refusal costs the others nothing; once the
\* cap has cut something off no further group is asked.
FactsOf(selected, answers) ==
    LET places == DOMAIN selected
        AnswerOf(i) == answers[selected[i]]
        parsed == [i \in {j \in places : AnswerOf(j) # Refused} |->
                      Parsed[selected[i]][AnswerOf(i)]]
        found == FoundLinks(DOMAIN parsed, parsed)
        kept == KeptLinks(found)
        asked == {i \in places : \A p \in found \ kept : i <= p[1]}
        heard == asked \cap DOMAIN parsed
        fielded == {i \in heard : parsed[i].uuids # {}}
        InAll(part) == UNION {{<<i, p>> : p \in part[i]} : i \in heard}
    IN  [vmware |-> Len(vmware),
         errored |-> asked \ heard,
         seen |-> InAll([i \in heard |-> parsed[i].seen]),
         bios |-> {p \in found : p[1] \in asked},
         instanceShaped |-> InAll([i \in heard |-> parsed[i].instanceShaped]),
         verdicts |-> UNION {parsed[i].verdicts : i \in heard},
         candidates |-> UNION {parsed[i].candidates : i \in heard},
         biosField |-> IF fielded = {} THEN <<>> ELSE parsed[Min(fielded)].biosField,
         links |-> {[group |-> selected[p[1]], uuid |-> p[2],
                     instance |-> parsed[p[1]].instance[p[2]]] : p \in kept},
         capped |-> kept # found]

\* A mistake: the mapping is called linked as soon as there are links.
MarkerLinkedFirst(facts) ==
    IF facts.links # {} THEN "linked" ELSE IF facts.capped THEN "capped" ELSE "empty"

Marker(facts) ==
    IF facts.capped THEN "capped" ELSE IF facts.links # {} THEN "linked" ELSE "empty"

\* A mistake: the doubt about the uuids is a branch of the outcome.
EventsOneMarker(facts) ==
    IF facts.instanceShaped # {} /\ facts.links = {}
    THEN {<<"instance_shaped", SuspectSeverity(facts)>>}
    ELSE {<<Marker(facts), OutcomeSeverity(facts)>>}

\* The doubt about the uuids is a fact beside the outcome.
Events(facts) ==
    (IF facts.instanceShaped # {}
     THEN {<<"instance_shaped", SuspectSeverity(facts)>>} ELSE {})
    \cup {<<Marker(facts), OutcomeSeverity(facts)>>}

\* protected_object_samples: half a pair is not sent.
Published(pairs) == {l \in pairs : l.uuid # NoUuid}

\* A mistake: the position is one among the groups of every environment.
TurnOverAll ==
    /\ cursor' = NextCursor(inventory, cursor, Budget)
    /\ steady' = [i \in 1..Len(vmware) |->
                    IF vmware[i] \in ToSet(Rotated(vmware, cursor, Budget)) THEN 0
                    ELSE steady[i] + 1]

\* The cursor moves past all that was selected, before any of it is asked.
Turn ==
    /\ cursor' = NextCursor(vmware, cursor, Budget)
    /\ steady' = [i \in 1..Len(vmware) |->
                    IF vmware[i] \in ToSet(Rotated(vmware, cursor, Budget)) THEN 0
                    ELSE steady[i] + 1]

\* What the groups may answer, each for itself.
AnswersOf(groups) ==
    {a \in [groups -> {Refused} \cup UNION {Answers[g] : g \in groups}] :
        \A g \in groups : a[g] = Refused \/ a[g] \in Answers[g]}

\* The section gets as far as the links, and there are VMware groups to ask.
PollAsks ==
    /\ mode = "live" /\ vmware # <<>>
    /\ \E answers \in AnswersOf(ToSet(Rotated(vmware, cursor, Budget))), events \in ProbeEvents :
          LET facts == FactsOf(Rotated(vmware, cursor, Budget), answers)
          IN  /\ Probe(events)
              /\ Tell(events \cup Events(facts))
              /\ links' = Published(facts.links)
              /\ cut' = (cut \/ facts.capped)
              /\ suspect' = (suspect \/ \E l \in links' : LooksLikeInstanceUuid(l.uuid))
    /\ Turn
    /\ UNCHANGED <<inventory, mode>>

\* Anything but a CohesityError out of the loop, an answer of an unheard-of form: the wrapper turns
\* it into a fact and no links, but the cursor has moved.
PollRaises ==
    /\ mode = "live" /\ vmware # <<>>
    /\ \E events \in ProbeEvents :
          Probe(events) /\ Tell(events \cup {<<"error", ErrorSeverity>>})
    /\ links' = {}
    /\ Turn
    /\ UNCHANGED <<inventory, mode, historyVars>>

\* There is no VMware group.
PollFindsNone ==
    /\ mode = "live" /\ vmware = <<>>
    /\ \E events \in ProbeEvents :
          Probe(events) /\ Tell(events \cup {<<"none", OutcomeSeverity(NoFacts)>>})
    /\ links' = {}
    /\ UNCHANGED <<inventory, mode, cursor, historyVars, steady>>

\* The toggle is off, the answers come from fixtures, or the runs end the section before the links.
PollWithoutLinks ==
    /\ \E events \in ProbeEvents : Probe(events) /\ Tell(events)
    /\ links' = {}
    /\ UNCHANGED <<inventory, mode, cursor, historyVars, steady>>

\* A new client, under whatever the configuration says then.
Restart ==
    /\ \E some \in {"live", "off", "replay"} : mode' = some
    /\ cursor' = 0
    /\ probed' = FALSE
    /\ told' = [m \in Markers |-> ""]
    /\ links' = {}
    /\ probes' = 0
    /\ cut' = FALSE /\ suspect' = FALSE
    /\ steady' = LinkRotation!Fresh(vmware)
    /\ UNCHANGED inventory

Poll == PollAsks \/ PollRaises \/ PollFindsNone \/ PollWithoutLinks

Next ==
    \/ \E list \in Inventories : Relist(list)
    \/ Poll
    \/ Restart

Spec == Init /\ [][Next]_vars

------------------------------------------------------------------------------
\* Types.
TypeOK ==
    /\ LinkRotation!TypeOK
    /\ mode \in {"live", "off", "replay"}
    /\ told \in [Markers -> {"", "INFO", "WARN", "ERROR"}]
    /\ \A l \in links : l.group \in VMware
    /\ probes \in 0..2

\* The fan-out is a rotation over the VMware groups: groups of other environments, answers, caps
\* and failures do not move it, and it implements FanoutRotation.
ImplementsRotation == LinkRotation!Spec

\* While the VMware groups keep their order each of them is selected again within
\* ceil(total / budget) polls, whatever the groups in between do.
SweptWhileSteady == LinkRotation!SweptWhileSteady

\* No wrong edge: what is published for a group is the BIOS uuid of a VM that this group protects,
\* never what vCenter or Cohesity itself call the VM, and never another group's VM.
JoinableOnly == \A l \in links : l.uuid \in Firmware[l.group]

\* Half a mapping looks like half an estate without hosts: whatever the object cap keeps back,
\* objects or whole groups behind the one that filled it, has been told.
TruncationIsTold == cut => told["capped"] = "WARN"

\* Uuids that look like vCenter's are told however healthy the poll that published them was.
SuspicionIsTold == suspect => told["instance_shaped"] # ""

\* The question about object details costs one request in a client's life, answered or not.
ProbedOnce == probes <= 1

==============================================================================
