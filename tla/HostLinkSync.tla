----------------------------- MODULE HostLinkSync -----------------------------
(***************************************************************************)
(* The workflow task that turns the bridge metric into edges               *)
(* (src/dynatrace/sync-host-link-task.js; src/tools/host_link.py is its    *)
(* twin).  Every hour it reads which VM each protection group protects,    *)
(* reads which host each VM is, joins the two, and rewrites the two lookup *)
(* tables in the settings object of the OpenPipeline pipeline.             *)
(*                                                                         *)
(* Meanwhile rows enter and leave the metric's window, hosts come and go,  *)
(* the platform the task runs on has its outages, and the extension        *)
(* deploys new versions of the pipeline, with the tables empty.  A VM is   *)
(* known by its canonical uuid on both sides.                              *)
(***************************************************************************)
EXTENDS Naturals

CONSTANTS
    Hosts,      \* HOST entities there may be
    Uuids,      \* the uuids of the VMs
    Serials,    \* host -> the values its serial may normalise to
    Groups,     \* protection group ids, numbered in the order of the ids
    ClusterOf,  \* group -> the cluster whose id is part of its id
    Links,      \* the rows [uuid, group] the bridge metric may carry
    MaxDeploys  \* bound on the versions of the pipeline

NoUuid == 0

ASSUME EstateAssumption ==
    /\ Groups \subseteq Nat /\ NoUuid \notin Uuids /\ DOMAIN ClusterOf = Groups
    /\ Serials \in [Hosts -> SUBSET (Uuids \cup {NoUuid})]
    /\ \A host \in Hosts : NoUuid \in Serials[host]
    /\ Links \subseteq [uuid : Uuids, group : Groups]
    /\ MaxDeploys \in Nat

VARIABLES
    published,  \* the rows [uuid, group] of the bridge metric within LOOKBACK
    serial,     \* host -> the uuid its serial normalises to, NoUuid for physical hardware
    up,         \* does the platform answer every request? (if not, it may refuse any)
    pipeline,   \* the settings object: [version, groups, clusters]; version 0 is some other object
    stage,      \* "idle", "hosts", "join", "settings" or "write"
    rows,       \* links: the rows read and not yet joined
    hostOf,     \* hostByUuid: uuid -> the host it is the serial of
    pairs,      \* groupPairs and clusterPairs: [groups, clusters], host -> value
    current,    \* the version of the settings object that was read
    overtaken   \* history: has the pipeline been deployed since it was read?

estate == <<published, serial, up>>
task == <<stage, rows, hostOf, pairs, current>>
vars == <<estate, pipeline, task, overtaken>>

EmptyTable == [h \in {} |-> 0]
NoPairs == [groups |-> EmptyTable, clusters |-> EmptyTable]

Deployed(version) == [version |-> version, groups |-> EmptyTable, clusters |-> EmptyTable]

Init ==
    /\ published = {}
    /\ serial = [h \in Hosts |-> NoUuid]
    /\ up = TRUE
    /\ pipeline = Deployed(0)
    /\ stage = "idle" /\ rows = {} /\ hostOf = EmptyTable /\ pairs = NoPairs /\ current = 0
    /\ overtaken = FALSE

------------------------------------------------------------------------------
(* The estate. *)

\* A row is published again, or the last line with it leaves the window.
LinksChange(row) ==
    /\ published' = IF row \in published THEN published \ {row} ELSE published \cup {row}
    /\ UNCHANGED <<serial, up, pipeline, task, overtaken>>

\* A host appears, is reinstalled, or is no longer a VM's.
HostChanges(host, uuid) ==
    /\ uuid # serial[host]
    /\ serial' = [serial EXCEPT ![host] = uuid]
    /\ UNCHANGED <<published, up, pipeline, task, overtaken>>

\* An outage begins or ends.
PlatformTurns ==
    /\ up' = ~up
    /\ UNCHANGED <<published, serial, pipeline, task, overtaken>>

\* The extension is installed or upgraded.
Deploy ==
    /\ pipeline.version < MaxDeploys
    /\ pipeline' = Deployed(pipeline.version + 1)
    /\ overtaken' = TRUE
    /\ UNCHANGED <<estate, task>>

EstateChanges ==
    \/ \E row \in Links : LinksChange(row)
    \/ \E host \in Hosts : \E uuid \in Serials[host] : HostChanges(host, uuid)
    \/ PlatformTurns
    \/ Deploy

------------------------------------------------------------------------------
(* The task. *)

Return ==
    /\ stage' = "idle" /\ rows' = {} /\ hostOf' = EmptyTable /\ pairs' = NoPairs

\* Nothing within the window: the task leaves the tables as they are.  So it does when the query
\* ends in a failure, which runDql answers like one without rows, or throws.
FindsNoLinks ==
    /\ stage = "idle" /\ (published = {} \/ ~up)
    /\ Return
    /\ UNCHANGED <<estate, pipeline, current, overtaken>>

ReadLinks ==
    /\ stage = "idle" /\ published # {}
    /\ rows' = published
    /\ stage' = "hosts"
    /\ UNCHANGED <<estate, pipeline, hostOf, pairs, current, overtaken>>

\* hostByUuid: of two hosts with one serial the one listed last counts, and they are listed in any
\* order.
Resolutions ==
    LET known == {serial[h] : h \in Hosts} \ {NoUuid}
    IN  {f \in [known -> Hosts] : \A u \in known : serial[f[u]] = u}

ReadHosts ==
    /\ stage = "hosts"
    /\ hostOf' \in Resolutions
    /\ stage' = "join"
    /\ UNCHANGED <<estate, pipeline, rows, pairs, current, overtaken>>

\* A query that ends FAILED or CANCELLED is no exception: the task goes on as if there were no host.
HostsQueryFails ==
    /\ stage = "hosts" /\ ~up
    /\ hostOf' = EmptyTable
    /\ stage' = "join"
    /\ UNCHANGED <<estate, pipeline, rows, pairs, current, overtaken>>

With(table, host, value) ==
    [h \in DOMAIN table \cup {host} |-> IF h = host THEN value ELSE table[h]]

\* A mistake: the cluster is taken from a row that loses.
JoinedClusterFirst(row) ==
    IF row.uuid \notin DOMAIN hostOf THEN pairs
    ELSE LET host == hostOf[row.uuid]
         IN  [groups |-> IF host \in DOMAIN pairs.groups /\ pairs.groups[host] <= row.group
                         THEN pairs.groups ELSE With(pairs.groups, host, row.group),
              clusters |-> With(pairs.clusters, host, ClusterOf[row.group])]

\* What one row adds: nothing if its VM is no host, or if the host's group is a lower one.
Joined(row) ==
    IF row.uuid \notin DOMAIN hostOf THEN pairs
    ELSE LET host == hostOf[row.uuid]
         IN  IF host \in DOMAIN pairs.groups /\ pairs.groups[host] < row.group THEN pairs
             ELSE [groups |-> With(pairs.groups, host, row.group),
                   clusters |-> With(pairs.clusters, host, ClusterOf[row.group])]

\* One turn of the loop.  The rows come in any order.
Join(row) ==
    /\ stage = "join" /\ row \in rows
    /\ pairs' = Joined(row)
    /\ rows' = rows \ {row}
    /\ IF rows' = {} THEN stage' = "settings" /\ hostOf' = EmptyTable
                     ELSE UNCHANGED <<stage, hostOf>>
    /\ UNCHANGED <<estate, pipeline, current, overtaken>>

\* A mistake: only which hosts are mapped is compared, not to what.
SameHosts ==
    /\ pairs.groups # EmptyTable
    /\ DOMAIN pipeline.groups = DOMAIN pairs.groups

\* The tables are compared as they are spelled, and the task spells an empty one "[]", which is not
\* how the pipeline ships it.
SameTables ==
    /\ pairs.groups # EmptyTable
    /\ pipeline.groups = pairs.groups /\ pipeline.clusters = pairs.clusters

\* A mistake: the shape of the pipeline is remembered from run to run.
ReadSettingsOnce ==
    /\ stage = "settings"
    /\ IF pipeline.version = 0 \/ SameTables
       THEN Return /\ UNCHANGED <<current, overtaken>>
       ELSE /\ current' = IF current = 0 THEN pipeline.version ELSE current
            /\ overtaken' = FALSE
            /\ stage' = "write"
            /\ UNCHANGED <<rows, hostOf, pairs>>
    /\ UNCHANGED <<estate, pipeline>>

\* A mistake: the tables are put into whatever object there is.
ReadSettingsUnchecked ==
    /\ stage = "settings"
    /\ IF SameTables
       THEN Return /\ UNCHANGED <<current, overtaken>>
       ELSE /\ current' = pipeline.version
            /\ overtaken' = FALSE
            /\ stage' = "write"
            /\ UNCHANGED <<rows, hostOf, pairs>>
    /\ UNCHANGED <<estate, pipeline>>

\* Without the two processors it is some other object and the task throws; with the tables in it
\* already there is nothing to write.
ReadSettings ==
    /\ stage = "settings"
    /\ IF pipeline.version = 0 \/ SameTables
       THEN Return /\ UNCHANGED <<current, overtaken>>
       ELSE /\ current' = pipeline.version
            /\ overtaken' = FALSE
            /\ stage' = "write"
            /\ UNCHANGED <<rows, hostOf, pairs>>
    /\ UNCHANGED <<estate, pipeline>>

\* The object is put back as it was read, but for the tables.  The API refuses an empty one.
Write ==
    /\ stage = "write"
    /\ pipeline' = IF pairs.groups = EmptyTable THEN pipeline
                   ELSE [version |-> current, groups |-> pairs.groups,
                         clusters |-> pairs.clusters]
    /\ Return
    /\ UNCHANGED <<estate, current, overtaken>>

\* The client of a query or of the settings API throws, and that ends the task.
RequestThrows ==
    /\ ~up
    /\ stage \in {"hosts", "settings", "write"}
    /\ Return
    /\ UNCHANGED <<estate, pipeline, current, overtaken>>

Step ==
    \/ FindsNoLinks \/ ReadLinks \/ ReadHosts
    \/ \E row \in rows : Join(row)
    \/ ReadSettings \/ Write

Next == EstateChanges \/ Step \/ HostsQueryFails \/ RequestThrows

Spec == Init /\ [][Next]_vars

\* The workflow runs every hour, and a run in which no request fails comes to its end.
FairSpec == Spec /\ WF_vars(Step)

------------------------------------------------------------------------------
\* Types.
TypeOK ==
    /\ published \subseteq Links
    /\ \A host \in Hosts : serial[host] \in Serials[host]
    /\ up \in BOOLEAN
    /\ pipeline.version \in 0..MaxDeploys
    /\ stage \in {"idle", "hosts", "join", "settings", "write"}
    /\ rows \subseteq Links
    /\ \A uuid \in DOMAIN hostOf : uuid \in Uuids /\ hostOf[uuid] \in Hosts
    /\ \A tables \in {pairs, pipeline} :
          DOMAIN tables.groups \subseteq Hosts /\ DOMAIN tables.clusters = DOMAIN tables.groups
    /\ current \in 0..pipeline.version /\ (stage = "write" => current > 0)

\* The pipeline computes a group's node from a row of each table, so the two never disagree: the
\* cluster stored for a host is the cluster of the group stored for it, also when groups of several
\* clusters protect the same VM.
TablesAgree ==
    \A h \in DOMAIN pipeline.groups :
        h \in DOMAIN pipeline.clusters /\ pipeline.clusters[h] = ClusterOf[pipeline.groups[h]]

\* The task puts back the processors it does not own as they stand: a deployed version is only ever
\* lost to a task that had read the one before it.
DeploysSurvive == [][pipeline'.version < pipeline.version => overtaken]_vars

OneHostPerVm == \A g, h \in Hosts : serial[g] = serial[h] => g = h \/ serial[g] = NoUuid

GroupsOf(host) == {row.group : row \in {r \in published : r.uuid = serial[host]}}

\* What the tables say of an estate: every host that is a protected VM, and the lowest group of it.
Wanted == [h \in {k \in Hosts : GroupsOf(k) # {}} |->
              CHOOSE g \in GroupsOf(h) : \A other \in GroupsOf(h) : g <= other]

\* Once the estate rests, with a protected host in it, and the platform answers again, the tables
\* come to say just that and are left alone: whatever was half read, read as nothing or overwritten
\* before, and although a run that finds the tables in place writes nothing.
Converges ==
    /\ <>[][~EstateChanges]_vars
    /\ <>[](up /\ pipeline.version > 0 /\ OneHostPerVm /\ Wanted # EmptyTable)
    => <>[](pipeline.groups = Wanted)

==============================================================================
