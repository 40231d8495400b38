-------------------------- MODULE HostLinkSync_proofs --------------------------
(***************************************************************************)
(* Proofs about HostLinkSync, for any hosts, VMs, groups and clusters:     *)
(* the tables stay well formed, never disagree, and the task's             *)
(* read-modify-write loses a deployment only when it was overtaken.        *)
(***************************************************************************)
EXTENDS HostLinkSync, TLAPS

Agree(tables) ==
    \A h \in DOMAIN tables.groups :
        h \in DOMAIN tables.clusters /\ tables.clusters[h] = ClusterOf[tables.groups[h]]

\* What is about to be written goes into the object that was read, unless that is history.
ReadIsCurrent == stage = "write" => overtaken \/ current = pipeline.version

\* The tables agree as soon as they are joined, and before that there is nothing to disagree.
SyncInv ==
    /\ TypeOK
    /\ Agree(pairs) /\ Agree(pipeline)
    /\ ReadIsCurrent

Typed(tables) ==
    DOMAIN tables.groups \subseteq Hosts /\ DOMAIN tables.clusters = DOMAIN tables.groups

LEMMA EmptyTables ==
    /\ Typed(NoPairs) /\ Agree(NoPairs)
    /\ \A version : Typed(Deployed(version)) /\ Agree(Deployed(version))
                    /\ Deployed(version).version = version
  BY DEF Typed, Agree, NoPairs, Deployed, EmptyTable

LEMMA InitSync == Init => SyncInv
<1> SUFFICES ASSUME Init PROVE SyncInv
  OBVIOUS
<1>1. Typed(pairs) /\ Agree(pairs) /\ Typed(pipeline) /\ Agree(pipeline) /\ pipeline.version = 0
  BY EmptyTables DEF Init
<1>2. /\ published = {} /\ serial = [h \in Hosts |-> NoUuid] /\ up = TRUE /\ stage = "idle" /\ rows = {}
      /\ hostOf = EmptyTable /\ current = 0
  BY DEF Init
<1>3. TypeOK
  BY <1>1, <1>2, EstateAssumption DEF TypeOK, Typed, EmptyTable
<1> QED
  BY <1>1, <1>2, <1>3 DEF SyncInv, ReadIsCurrent

\* What one row adds keeps the tables in step, whether it wins or loses.
LEMMA JoinedFacts ==
    ASSUME SyncInv, NEW row \in rows
    PROVE  Typed(Joined(row)) /\ Agree(Joined(row))
<1>1. Typed(pairs) /\ Agree(pairs)
  BY DEF SyncInv, TypeOK, Typed
<1>2. CASE row.uuid \notin DOMAIN hostOf
  BY <1>1, <1>2 DEF Joined
<1>3. CASE row.uuid \in DOMAIN hostOf
  <2> DEFINE host == hostOf[row.uuid]
             grown == [groups |-> With(pairs.groups, host, row.group),
                       clusters |-> With(pairs.clusters, host, ClusterOf[row.group])]
  <2>1. host \in Hosts
    BY <1>3 DEF SyncInv, TypeOK
  <2>2. Joined(row) = pairs \/ Joined(row) = grown
    BY <1>3 DEF Joined
  <2> HIDE DEF host
  <2>3. /\ DOMAIN grown.groups = DOMAIN pairs.groups \cup {host}
        /\ DOMAIN grown.clusters = DOMAIN pairs.clusters \cup {host}
        /\ \A h \in DOMAIN grown.groups :
              grown.groups[h] = IF h = host THEN row.group ELSE pairs.groups[h]
        /\ \A h \in DOMAIN grown.clusters :
              grown.clusters[h] = IF h = host THEN ClusterOf[row.group] ELSE pairs.clusters[h]
    BY DEF With
  <2> HIDE DEF grown
  <2>4. Typed(grown) /\ Agree(grown)
    BY <1>1, <2>1, <2>3 DEF Typed, Agree
  <2> QED
    BY <1>1, <2>2, <2>4
<1> QED
  BY <1>2, <1>3

LEMMA TypedTables ==
    TypeOK => Typed(pairs) /\ Typed(pipeline)
  BY DEF TypeOK, Typed

\* hostByUuid holds uuids of VMs and hosts.
LEMMA ResolutionFacts ==
    ASSUME SyncInv, NEW f \in Resolutions
    PROVE  \A uuid \in DOMAIN f : uuid \in Uuids /\ f[uuid] \in Hosts
<1>1. \A h \in Hosts : serial[h] \in Uuids \cup {NoUuid}
  BY EstateAssumption DEF SyncInv, TypeOK
<1> QED
  BY <1>1 DEF Resolutions

\* The cluster's and the host's side of the estate is not the task's to change.
LEMMA EstateKeepsSync ==
    ASSUME SyncInv, EstateChanges
    PROVE  SyncInv'
<1>1. ASSUME NEW row \in Links, LinksChange(row)
      PROVE  SyncInv'
  BY <1>1 DEF LinksChange, SyncInv, TypeOK, Agree, ReadIsCurrent, task
<1>2. ASSUME NEW host \in Hosts, NEW uuid \in Serials[host], HostChanges(host, uuid)
      PROVE  SyncInv'
  <2>1. \A h \in Hosts : serial'[h] \in Serials[h]
    BY <1>2 DEF HostChanges, SyncInv, TypeOK
  <2> QED
    BY <1>2, <2>1 DEF HostChanges, SyncInv, TypeOK, Agree, ReadIsCurrent, task
<1>3. ASSUME PlatformTurns
      PROVE  SyncInv'
  BY <1>3 DEF PlatformTurns, SyncInv, TypeOK, Agree, ReadIsCurrent, task
<1>4. ASSUME Deploy
      PROVE  SyncInv'
  <2>1. /\ pipeline.version < MaxDeploys /\ pipeline' = Deployed(pipeline.version + 1)
        /\ overtaken' = TRUE /\ UNCHANGED <<published, serial, up, stage, rows, hostOf, pairs, current>>
    BY <1>4 DEF Deploy, estate, task
  <2>2. /\ Typed(pipeline') /\ Agree(pipeline') /\ pipeline'.version = pipeline.version + 1
    BY <2>1, EmptyTables
  <2>3. pipeline'.version \in 0..MaxDeploys /\ current \in 0..pipeline'.version
    BY <2>1, <2>2, EstateAssumption DEF SyncInv, TypeOK
  <2>4. TypeOK'
    BY <2>1, <2>2, <2>3 DEF SyncInv, TypeOK, Typed
  <2>5. Agree(pairs)' /\ Agree(pipeline)'
    BY <2>1, <2>2 DEF SyncInv, Agree
  <2>6. ReadIsCurrent'
    BY <2>1 DEF ReadIsCurrent
  <2> QED
    BY <2>4, <2>5, <2>6 DEF SyncInv
<1> QED
  BY <1>1, <1>2, <1>3, <1>4 DEF EstateChanges

\* A run that comes to its end, wherever it comes to it, leaves nothing half done behind.
LEMMA ReturnKeepsSync ==
    ASSUME SyncInv, Return, UNCHANGED <<estate, current>>,
           Typed(pipeline'), Agree(pipeline'),
           pipeline'.version \in 0..MaxDeploys, current \in 0..pipeline'.version
    PROVE  SyncInv'
<1>1. /\ stage' = "idle" /\ rows' = {} /\ hostOf' = EmptyTable /\ pairs' = NoPairs
      /\ UNCHANGED <<published, serial, up, current>>
  BY DEF Return, estate
<1>2. Typed(pairs') /\ Agree(pairs') /\ DOMAIN hostOf' = {}
  BY <1>1, EmptyTables DEF EmptyTable
<1>3. TypeOK'
  BY <1>1, <1>2 DEF SyncInv, TypeOK, Typed
<1>4. Agree(pairs)' /\ Agree(pipeline)' /\ ReadIsCurrent'
  BY <1>1, <1>2 DEF Agree, ReadIsCurrent
<1> QED
  BY <1>3, <1>4 DEF SyncInv

LEMMA ReadingKeepsSync ==
    ASSUME SyncInv, ReadLinks \/ ReadHosts \/ HostsQueryFails \/ \E row \in rows : Join(row)
    PROVE  SyncInv'
<1>1. UNCHANGED <<published, serial, up, pipeline, current>>
  BY DEF ReadLinks, ReadHosts, HostsQueryFails, Join, estate
<1>2. stage' \in {"hosts", "join", "settings"}
  BY DEF ReadLinks, ReadHosts, HostsQueryFails, Join
<1>3. /\ rows' \subseteq Links
      /\ \A uuid \in DOMAIN hostOf' : uuid \in Uuids /\ hostOf'[uuid] \in Hosts
  <2>1. CASE ReadLinks
    BY <2>1 DEF ReadLinks, SyncInv, TypeOK
  <2>2. CASE ReadHosts
    BY <2>2, ResolutionFacts DEF ReadHosts, SyncInv, TypeOK
  <2>3. CASE HostsQueryFails
    BY <2>3 DEF HostsQueryFails, EmptyTable, SyncInv, TypeOK
  <2>4. CASE \E row \in rows : Join(row)
    BY <2>4 DEF Join, EmptyTable, SyncInv, TypeOK
  <2> QED
    BY <2>1, <2>2, <2>3, <2>4
<1>4. Typed(pairs') /\ Agree(pairs')
  <2>1. CASE ReadLinks \/ ReadHosts \/ HostsQueryFails
    BY <2>1, TypedTables DEF ReadLinks, ReadHosts, HostsQueryFails, SyncInv
  <2>2. CASE \E row \in rows : Join(row)
    BY <2>2, JoinedFacts DEF Join
  <2> QED
    BY <2>1, <2>2
<1>5. TypeOK'
  BY <1>1, <1>2, <1>3, <1>4 DEF SyncInv, TypeOK, Typed
<1>6. Agree(pairs)' /\ Agree(pipeline)' /\ ReadIsCurrent'
  BY <1>1, <1>2, <1>4 DEF SyncInv, Agree, ReadIsCurrent
<1> QED
  BY <1>5, <1>6 DEF SyncInv

LEMMA ReadSettingsKeepsSync ==
    ASSUME SyncInv, ReadSettings
    PROVE  SyncInv'
<1>1. UNCHANGED <<published, serial, up, pipeline>> /\ UNCHANGED estate
  BY DEF ReadSettings, estate
<1>2. CASE pipeline.version = 0 \/ SameTables
  <2>1. Return /\ UNCHANGED current
    BY <1>2 DEF ReadSettings
  <2> QED
    BY <1>1, <2>1, ReturnKeepsSync, TypedTables DEF SyncInv, TypeOK
<1>3. CASE ~(pipeline.version = 0 \/ SameTables)
  <2>1. /\ current' = pipeline.version /\ stage' = "write" /\ UNCHANGED <<rows, hostOf, pairs>>
    BY <1>3 DEF ReadSettings
  <2>2. pipeline.version \in 0..MaxDeploys /\ pipeline.version # 0 /\ MaxDeploys \in Nat
    BY <1>3, EstateAssumption DEF SyncInv, TypeOK
  <2>3. current' \in 0..pipeline'.version /\ current' > 0
    BY <1>1, <2>1, <2>2
  <2>4. TypeOK'
    BY <1>1, <2>1, <2>3 DEF SyncInv, TypeOK
  <2>5. Agree(pairs)' /\ Agree(pipeline)' /\ ReadIsCurrent'
    BY <1>1, <2>1 DEF SyncInv, Agree, ReadIsCurrent
  <2> QED
    BY <2>4, <2>5 DEF SyncInv
<1> QED
  BY <1>2, <1>3

LEMMA WriteKeepsSync ==
    ASSUME SyncInv, Write
    PROVE  SyncInv'
<1>1. Return /\ UNCHANGED <<estate, current>>
  BY DEF Write
<1>2. Typed(pipeline) /\ Typed(pairs) /\ Agree(pipeline) /\ Agree(pairs)
  BY TypedTables DEF SyncInv
<1>3. /\ pipeline.version \in 0..MaxDeploys /\ current \in 0..pipeline.version
      /\ MaxDeploys \in Nat
  BY EstateAssumption DEF SyncInv, TypeOK
<1>4. CASE pairs.groups = EmptyTable
  <2>1. pipeline' = pipeline
    BY <1>4 DEF Write
  <2> QED
    BY <1>1, <1>2, <1>3, <2>1, ReturnKeepsSync
<1>5. CASE pairs.groups # EmptyTable
  <2>1. /\ pipeline'.version = current
        /\ pipeline'.groups = pairs.groups /\ pipeline'.clusters = pairs.clusters
    BY <1>5 DEF Write
  <2>2. Typed(pipeline') /\ Agree(pipeline')
    BY <1>2, <2>1 DEF Typed, Agree
  <2>3. pipeline'.version \in 0..MaxDeploys /\ current \in 0..pipeline'.version
    BY <1>3, <2>1
  <2> QED
    BY <1>1, <2>2, <2>3, ReturnKeepsSync
<1> QED
  BY <1>4, <1>5

LEMMA EndKeepsSync ==
    ASSUME SyncInv, FindsNoLinks \/ RequestThrows
    PROVE  SyncInv'
<1>1. Return /\ UNCHANGED <<estate, current>> /\ pipeline' = pipeline
  BY DEF FindsNoLinks, RequestThrows
<1> QED
  BY <1>1, ReturnKeepsSync, TypedTables DEF SyncInv, TypeOK

LEMMA StutterKeepsSync == SyncInv /\ UNCHANGED vars => SyncInv'
  BY DEF vars, estate, task, SyncInv, TypeOK, Agree, ReadIsCurrent

LEMMA StepKeepsSync == SyncInv /\ [Next]_vars => SyncInv'
  BY EstateKeepsSync, ReadingKeepsSync, ReadSettingsKeepsSync, WriteKeepsSync, EndKeepsSync,
     StutterKeepsSync DEF Next, Step

LEMMA SyncAlways == Spec => []SyncInv
  BY InitSync, StepKeepsSync, PTL DEF Spec

\* The tables name hosts, both of them the same ones, and no run puts back a version that never was.
THEOREM SyncTypeCorrect == Spec => []TypeOK
<1>1. SyncInv => TypeOK
  BY DEF SyncInv
<1> QED
  BY <1>1, SyncAlways, PTL

\* Whatever hosts share a serial, in whatever order the rows come, and however many groups of
\* however many clusters protect a VM: the two tables never disagree about a host.
THEOREM TablesNeverDisagree == Spec => []TablesAgree
<1>1. SyncInv => TablesAgree
  BY DEF SyncInv, Agree, TablesAgree
<1> QED
  BY <1>1, SyncAlways, PTL

\* A deployed version of the pipeline is lost only to a run that had read the one before it.
THEOREM DeploysAreNotUndone == Spec => DeploysSurvive
<1>1. SyncInv /\ [Next]_vars => [pipeline'.version < pipeline.version => overtaken]_vars
  <2> SUFFICES ASSUME SyncInv, [Next]_vars, pipeline'.version < pipeline.version PROVE overtaken
    OBVIOUS
  <2>1. pipeline.version \in Nat
    BY DEF SyncInv, TypeOK
  <2>2. pipeline' # pipeline
    BY <2>1
  <2>3. ~Deploy
    BY <2>1, EmptyTables DEF Deploy
  <2>4. Write
    BY <2>2, <2>3 DEF Next, EstateChanges, LinksChange, HostChanges, PlatformTurns, Step,
                      FindsNoLinks, ReadLinks, ReadHosts, HostsQueryFails, Join, ReadSettings,
                      RequestThrows, vars
  <2>5. stage = "write" /\ pipeline'.version = current
    BY <2>2, <2>4 DEF Write
  <2> QED
    BY <2>1, <2>5 DEF SyncInv, ReadIsCurrent
<1> QED
  BY <1>1, SyncAlways, PTL DEF Spec, DeploysSurvive

==============================================================================
