# Verification of the Cohesity storage extension

TLA+ models of the Dynatrace extension in `src/cohesity_storage`, checked with TLC on small
instances, with theorems checked by TLAPS.  Paths below are relative to the repository's `src/`;
`main`, `client`, `domain`, `config` stand for `cohesity_storage/__main__.py`, `client.py`,
`domain.py`, `config.py`.

## 1. The system

The extension is one Python process on an ActiveGate.  The SDK calls `query()` once a minute.  Each
call reads the configuration, picks the clusters whose interval has elapsed and polls them one
after the other: status, then six sections (capacity, capacity forecast, storage domains, views,
protection, alerts), then the diagnostics.  Nothing is persisted: every client, ledger, cursor and
cache lives and dies with the process.  There are no threads of its own; what is concurrent is the
cluster, which changes between any two requests, the passing of time, the editing of the
configuration and the restarting of the process.

| Component | State | Operations | Hard behaviour | What makes it correct |
|---|---|---|---|---|
| Dedup ledger (`domain.RunLedger`) | `_seen`, an `OrderedDict` bounded by `RUN_LEDGER_CAPACITY` | `claim` | eviction at the boundary, refresh on re-offer | it forgets an id only after a full turnover of other ids |
| Protection runs (`client.protection_runs`, `new_protection_runs`, `main._report_protection`) | `_runs_source`, `_runs_group_cursor`, `_run_ledger` | three sources in turn, fan-out per group, claim, report | windows of polls that are late or slow; sources that take over from each other; stale answers; aborts between claim and report; restarts | a finished run is counted once, under its final outcome, and none is missed |
| Fan-out rotation (`client._rotate`, `_runs_fanout_order`) | one cursor per fan-out | pick the groups of a poll | a position in a list that is sorted anew for each poll | the cap is a rate and not a filter |
| Scheduler (`main.query`, `_due_clusters`, `_client_for`, `on_shutdown`) | `_last_run`, `_clients` | prune, stamp, build, close | jittering ticks, long queries, edits, clients that cannot be built | each cluster on its interval; nothing is left of a removed one |
| Cluster poll (`main._poll`, `_fail`, `_section`, `_report_diagnostics`; `client.cluster_status`, `_diagnose`, `take_diagnostics`) | `_cluster_status`, `_diagnosed`, `_diagnostics` | status, sections, drain | outages between any two requests, refused sections, failed sends, early returns | sections are independent; each fact leaves once |
| Alert feed (`client.alerts`, `new_alerts`, `main._report_alerts`) | `_alert_source`, `_alert_ledger` | two sources, floor, cap, claim, send | the cap against the ledger; the floor applied twice; claim before send | each occurrence is sent once, and the severe ones are sent |
| Statistics probes (`client._get_with_variants`, `_probe_param_variants`, `entity_id_candidates`, `cluster_time_series`) | `_param_variants`, `_variant_budget`, `_entity_id_candidates`, `_entity_id_cache` | probe a request's shape, probe an entityId, cache both | the budget is shared by all endpoints; cached answers go stale; failures half-way through a variant | every endpoint is probed in time, no wrong winner is kept, data comes back |
| Host links (`client.probe_protected_objects`, `protected_object_links`, `_host_link_fanout`, `_host_link_for_group`; `domain` from `uuid_shape` to `parse_protected_object_links`; `metrics.protected_object_samples`) | `_host_link_cursor`, `_object_details_probed`, the host-link markers of `_diagnosed` | probe once, fan out over the VMware groups, take each VM's BIOS uuid, tell what went wrong | the object cap ends a sweep; uuids that look alike in fields of many names; one marker per outcome | every group is reached; no wrong edge; what is kept back or doubtful is told |
| Host-link sync task (`dynatrace/sync-host-link-task.js`, `tools/host_link.py`) | the two lookup tables in the pipeline's settings object | read rows, read hosts, join, read settings, write | the estate and the pipeline change between any two steps; requests fail; rows in any order | the tables agree, and come to say what the estate is |
| Configuration (`config.load_clusters`, `ClusterConfig.from_dict`) | none | parse, validate, default, key | which fields exclude each other; keys that depend on the place in the list | one bad endpoint costs only itself |
| Parsing, metric lines, transport, fixtures | none | pure functions and I/O | nullable JSON | total |

They interact by calls: `query` drives the scheduler, which hands a cluster to the poll, which runs
the sections; the protection and alert sections each own a ledger inside the client; the runs
fan-out and the host-link fan-out share the rotation but not the cursor.  The bridge metric's lines
and the sync task meet only in Dynatrace, an hour apart.  All of a client's state
dies when its cluster leaves the configuration or the process ends, which is why the scheduler's
pruning, the ledger and the diagnostics belong together.

## 2. Modules

| Module | Models | Notes |
|---|---|---|
| `LedgerOps` | `RunLedger.claim` as operators on the sequence of keys, oldest first | shared, no state, no recursion |
| `RunLedger` | the ledger alone, offered any ids in any order | history: what was counted, and what was offered since |
| `FanoutOps` | `_rotate` as operators | shared by both fan-outs |
| `FanoutRotation` | the rotation over a list whose order, length and members change | abstract specification; `Cap` is any natural number, as `max(cap, 1)` allows |
| `HostLinkOps` | what is read out of one answer with object details | pure operators, no state |
| `HostLink` | the probe, the fan-out with both caps, the links and the facts, poll by poll | uses `HostLinkOps` and `FanoutOps`; implements `FanoutRotation` |
| `HostLinkSync` | the workflow task beside hosts, VMs and deployments | |
| `Configuration` | `load_clusters` as operators on the endpoints as they are written | no state |
| `RunCounter` | what the run metric promises | abstract specification |
| `ProtectionRuns` | the protection section beside a live cluster | uses `LedgerOps` and `FanoutOps`; implements `RunCounter` |
| `Scheduler` | `query`, `_due_clusters`, `_client_for`, `on_shutdown` | extends `Configuration`: what it polls is what `LoadClusters` makes of the endpoints |
| `ClusterPoll` | `_poll` from the status to the diagnostics | sections abstracted to requests that answer or fail |
| `AlertFeed` | the alert section beside a cluster that lists what it likes | extends `RunLedger`: a claim is its `Offer` |
| `StatsProbe` | request shapes and entityId candidates over the calls of a poll | the cluster's mood changes between any two requests |
| `MC*` | values for the constants | |
| `*_proofs` | theorems | |

Operators whose comment begins "A mistake" (`EvictLate`, `InWindowWithoutOverlap`, ...) are not part
of a specification.  Each is a plausible bug of the definition it stands beside, kept to show that
the property named for it in `PROJECT.json` would notice.

### ProtectionRuns

The state of the client is `source` (`_runs_source`), `cursor` (`_runs_group_cursor`) and `seen`
(`_run_ledger`).  A poll is a sequence of actions, one per request and one per claim, so that the
cluster can start and finish runs between any two of them:

    BeginPoll -> ReadInventory -> WindowedAnswer | WindowedRefusal ... -> ClaimRun* -> ReportRuns
                               -> OpenFanout -> (AskGroup | GroupRefuses)* -> CloseFanout -> ClaimRun* ...

`SectionAborts` is `_section` swallowing an exception before any run was claimed.  `ReportRuns(kept)`
with `kept` smaller than `fresh` is a line the SDK rejects, or an exception while the lines are
built.  `Restart` is the process starting again: the client's state is gone, the cluster is due at
once.  `world`, `history` and `age` are the cluster; `counts` and `outcome` are what Dynatrace has
been told, read by no guard.  A group runs one job at a time.  An answer is a set: the parser keeps the
cluster's order, which nothing depends on, and `ClaimRun` takes the entries in any order.

Times are ages, saturated where no window can tell them apart, so the state space is finite without
a bound on the clock.  Both ends of the window are computed once, before the first source is tried
(`windowAt`), and an answer may come later.  Windowed sources are assumed to select runs by end time
and to include the ones in flight; that is the cluster's side and is marked external.  An
inventory without groups, on which the fan-out returns nothing and claims nothing, is not modelled.

### Scheduler

`lastRun` and `waited` are ages too.  The tick is the SDK's: every `TickEvery` units, up to `Jitter`
late, skipped while a query is running (how the SDK schedules is external; the code in `main` relies
on it, `main` 38-40).  `Query` reads the configuration, prunes, and stamps; `Poll` takes one due
cluster.  `BuildFails` is the constructor raising because the CA file does not exist.
`left` is a set of positions, so an entry that occurs twice is told apart from its twin.

### Configuration

An endpoint is a record of what is written in it: texts are atoms, a number or a switch that is absent
or null is `Null`, a secret says whether it is in one piece.  `Parses` is the conjunction of every
condition on which `from_dict` raises: the host, the ranges, the two credential modes (`AuthModeHolds`,
`KeyHolds`) and the CA with the verification off.  `LoadClusters` is a function on the places of the
endpoints that parse, because the place is what an endpoint without a name is called after (`config` 239).
The wording of the refusals is left out.

### ClusterPoll

`ClusterTurns` is the outage.  A section is a number of requests; it reports each as it arrives, as
`_report_views` and the others do.  `SectionFails` stands for a `CohesityError` and for any other
exception alike, because `_section` treats them alike.  A fact is a label; `_diagnose` records it
once in a client's life.  The facts the sections record on their own are left out: most use the same
two lines of code and leave with the same drain.  The fan-out's counters do not: `_report_fanout` (`client` 1336) passes
`_diagnose` by, replaces the one pending and sends again in every poll, so `FactsLeaveOnce` is not about them.

### AlertFeed

An `Id` of the ledger is one occurrence of an alert: the dedup key is the alert's id with its latest
timestamp, so an alert that fires again is another `Id`.  Each answer is drawn from a set the cluster
lists at that moment, arbitrary and different every time: the lookback window, alerts that open, and
alerts that are closed are all in that choice.  A source that honours `alertSeverityList` chooses from
what it was asked for, the others choose from everything, and both cut at `maxAlerts`.

    BeginPoll -> SourceAnswers -> ClaimNext* -> ClaimedAll -> SendEvents
              -> SourceRefuses ...

`SendEvents` ends the section whether or not `report_log_events` raises: the occurrences stay claimed and
are not handed over again, which `ClaimedIsHanded` accepts.  `alert_log_events` runs between claim
and hand-over; it is a total function over parsed alerts and an exception in it is not modelled.
`Restart` begins a new history: a process that has forgotten what it sent sends it again.  That both
sources give an occurrence the same key is assumed, as the code does.

### StatsProbe

A call is what `_report_cluster_series` and `_report_views` ask for: an endpoint, a schema,
a number of metrics and the candidate under which the cluster has the data.  `shape`, `budget`,
`candidates` and `winner` are the client's `_param_variants`, `_variant_budget`, `_entity_id_candidates` and
`_entity_id_cache`.  `mood` is the cluster: which shapes of a request it answers at the moment, and
what the others run into ("500" is any server error, which alone starts a probe).  `VariantFails` spends
some of a variant's requests, because `one-metric-per-request` may fail at any of them.
An exception ends the section of its call (`AfterSection`).  `FallBack` is `view_stats` on a 404: the
deprecated path is asked in the same call, with shapes of its own (`fellBack`, `Path`), and `IsVersionFork` says
which failures lead there.  The diagnostics of the probes are left out.

### FanoutRotation and HostLink

`FanoutRotation` is what a capped fan-out promises whatever it asks for.  `ordered` is the list as
`_runs_fanout_order` sorts it for the next poll; since jobs start, finish, come and go, any list without
repetitions may follow any other (`Relist`).  `Ask` is one poll's `_rotate`, `Restart` a new client.  `steady`
counts, for each place, the polls since it was selected, from when the order last changed.

`HostLink` is the detailed one, and implements it through

    LinkRotation == INSTANCE FanoutRotation WITH Groups <- VMware, Cap <- Budget, ordered <- vmware, ...

so the groups of other environments, which are listed in between, must not move the rotation.  A poll is
one action: nothing is handed out in the course of it, and it works on one inventory.  `PollAsks` chooses an
answer for each selected group.  What the loop of `_host_link_fanout` makes of them is said without the loop
(`FactsOf`): the links found are places in the order of the groups (`FoundLinks`), the object cap keeps those
with fewer than so many before them (`KeptLinks`), and a group is asked unless a link before it was cut off.
`PollRaises` is the wrapper around any other exception, after which the cursor has moved all the
same; `PollFindsNone` and `PollWithoutLinks` are the early returns.  `told` is the part of `_diagnosed` that
this code writes, with the severity of the record.  `HostLinkOps` reads the answers: an object is a function
from places (a block and a field name) to values, a value is a spelling and the uuid behind it, and which
place wins, which spelling normalises and which verdict the others get are as in the source.

### HostLinkSync

    ReadLinks -> ReadHosts -> Join* -> ReadSettings -> Write

`ReadLinks`, `ReadHosts`, `ReadSettings` and `Write` are requests of the task, with `EstateChanges` between any two steps: a row
enters or leaves the metric's window (`LinksChange`), a host appears or is reinstalled (`HostChanges`), the
extension is deployed and its tables are empty again (`Deploy`), an outage of the platform begins or ends (`PlatformTurns`).

In an outage (`~up`) any request may fail, in one of two ways.  If the client throws, the task ends there
(`RequestThrows`; nothing in the task catches).  A query that ends FAILED or CANCELLED does not throw: `runDql` (lines 113-117) answers
it like one without rows.  For the links that is the early return (`FindsNoLinks`); for the hosts
the task goes on with no host known (`HostsQueryFails`), joins nothing and tries to write empty tables.  `hostOf`
says which host a uuid resolves to, one of those with its serial (`Resolutions`).  `Join` takes one row, any of those
left, through the loop's body (`Joined`).  `pipeline.version = 0` is a settings object without the two processors, on which the task
throws.  That the API refuses an empty table is taken from `tools/host_link.py` (line 37).

## 3. Runs

| Run | Properties | Shows |
|---|---|---|
| `ProtectionRuns_window` | `NothingMissed`, `CountsRunsOnce` | polls late by up to one unit and slow by up to one, overlap two, `runs/summary` and the flat list refusing at will: no run is missed, and the poll implements `RunCounter` |
| `ProtectionRuns_faults` | `TypeOK`, `ClaimedIsCounted`, `CountedUnderItsOutcome`, `CountInv` | any source may refuse, sections abort, lines are rejected, processes restart, the ledger is too small |
| `Scheduler_cadence` | `TypeOK`, `PolledOnTime`, `ForgottenWhole`, `PolledOncePerQuery`, `EditsTouchNoOther` | jitter, queries that outlast a tick, edits, duplicates, mistyped endpoints, a client that cannot be built, shutdowns: clusters keep their interval, and an edit costs no other endpoint its client |
| `ClusterPoll_poll` | `TypeOK`, `EverySectionHeard`, `FactsLeaveOnce`, `FailuresLeave`, `Recovers` | outages between any two requests, refusals, failed sends, restarts; under fairness, once an outage has ended every section reports again and again |
| `AlertFeed_feed` | `AlertTypeOK`, `LedgerInv`, `HoldsMostRecent`, `OnceWhileTheyFit`, `NotResentWhileListed`, `SevereNotCrowdedOut`, `ClaimedIsHanded`, `FeedInv`, `FeedComesBack` | the ledger and the feed on it: an id is held exactly while fewer ids than the capacity came after it; an alert that stays listed is sent once; on an endpoint that filters, severe alerts are not crowded out by mild ones; while one source answers, the other cannot silence the feed |
| `StatsProbe_probe` | `TypeOK`, `WinnersHaveData`, `NoEndpointStarves`, `Recovers` | moods that change between any two requests, and a views path that may not be there: no candidate without data is kept, the endpoint that probes last is still found out within the budget, and a cluster that is well again is read again whatever was cached |
| `HostLink_fanout` | `TypeOK`, `SweptWhileSteady`, `JoinableOnly`, `TruncationIsTold`, `SuspicionIsTold`, `ProbedOnce`, `ImplementsRotation` | groups of two environments that are sorted anew at any moment, answers that lack, misspell or misplace BIOS uuids, refusals, exceptions, an object cap that one group fills, restarts: the fan-out is the abstract rotation, only joinable uuids leave, and what is kept back or doubtful is told |
| `HostLinkSync_edges` | `TypeOK`, `TablesAgree`, `DeploysSurvive`, `Converges` | everything changes between any two steps of a sync run, and requests fail: the tables agree, a deployment is lost only to a run that had read the version before it, and once the estate rests the tables come to say what it is |

`ClaimedIsCounted` and `FailuresLeave` allow for what is lost on its way to Dynatrace (a rejected line,
a failed send) through the history variable `lost`, and for nothing else.

### Disagreements with the documentation

Each has a run in which TLC finds the counterexample.

* `Scheduler_badclient`: a client that cannot be built raises out of `query()`; the clusters behind it
  are stamped and never polled (`config` 393 says one mistyped cluster must not stop the rest).
* `ClusterPoll_stale`: `collection_success` is 1 from the cached status, also while the cluster is down
  (`e2e/README.md` 154 says: reached this interval).
* `AlertFeed_unmapped`: an alert whose severity could not be mapped is never filtered out, whatever the
  floor (`README.md` 494, `domain` 1669).  The local floor keeps it, but the request names the severities
  it wants, and an endpoint that honours that does not return it.
* `StatsProbe_part`: no variant changes what is asked for (`client` 241-242), and the probe is about the
  same data (`client` 629); `README.md` 821-822 says that with repeated `metricNames` the server reads
  the last one only.  The answer is accepted and its shape is cached, and every metric of the call
  but one is missing from then on, with no error anywhere.

Other things a reader of the code may trip over are modelled without being held against it, or follow
from a bound that is stated in the source.

* No group can be starved, says `client` 1668; the cursor is a position in a list that is sorted anew, and a
  group that does nothing can be passed over for as long as others keep changing places around it
  (`client` 1672 calls it an approximation).  This is why `SweptWhileSteady` speaks of an order that stands.
* "Nothing answered" and "no BIOS uuid" are told under one marker (`client` 1099-1104): after a poll of the first
  kind the ERROR of the second is not told in the client's life, although `client` 176-178 says loudly, once.
  `SuspicionIsTold` and `TruncationIsTold` are about markers that nothing else uses.
* The cursor passes over all selected groups before the object cap ends the loop (`client` 1073), so with a cap
  that one group fills the groups behind it may never be asked; that it happened is told.
* Uuids that look like vCenter's are counted per object, BIOS uuids per link (`metrics` 1126 compares the two),
  so "all of them" and "some" can be confused where an object is listed twice.
* When the last link is gone the sync task returns before it touches the tables
  (`dynatrace/sync-host-link-task.js` 131), and the API refuses an empty table, so the last edges stay, although
  the comment on `lookupTable` (lines 92-94) says that an empty input restores the inert state.  This is why
  `Converges` asks for a protected host.
* A hosts query that ends FAILED or CANCELLED is read as an estate without hosts (`runDql`, lines 113-117), and the task goes
  on to write empty tables.  Only the same refusal keeps the edges of every host then.
* An endpoint without a name takes its key from its place in the list (`config` 239): removing one
  before it gives it a new client, which counts and sends again.  `EditsTouchNoOther` speaks of endpoints
  that stay where they were.
* A run in flight whose status the cluster does not state reads "unknown", which is terminal on
  purpose (`domain` 31), so its outcome is dropped (`Opaque`).
* With an interval longer than the overlap, one poll without its runs loses those that finished before
  it, because the next window is no wider (`client` 106 calls a skipped poll survivable).
* The per-group path offers the same last runs again however old they are.  Once more of them than the
  ledger's capacity are in its reach, ids are evicted and counted again (`domain` 34 and `client` 1674
  promise once).  With 2000 ids and three runs per group that takes some seven hundred groups, which is why
  `RunsAreCountedOnce` has the assumption that the runs fit.
* Diagnostics are drained before they are sent, so a failed send loses them for the life of the client
  (`lost` in `ClusterPoll`).
* A cached shape is sent until the process ends.  When the cluster turns to answering some other
  shape only, every call fails and none is probed again, although which shape works varies
  (`README.md` 43).  This is why `Recovers` asks for a cluster that answers every shape.
* entityId candidates are built once; a source that refuses at that moment is never asked again.
  This is the second condition of `Recovers`.

## 4. Bounds, and why they are enough

* The ledger and the feed: five occurrences over a capacity of three give one that is evicted, one that
  is refreshed and one offered again after eviction, in every order.  Answers hold two, so that two
  answers fit the ledger with one entry to spare, as with the shipped numbers (2000 and at
  most 1000, `AnswersFitAssumption`).  There is an alert of every severity, one that did not map, and two of
  the highest.  The theorems remove the bounds.
* `StatsProbe`: a schema of two metrics, one of one metric (to which a shape does not apply) and the views,
  in two sections, are the calls as far as their shapes differ.  The budget is the real one, twelve; the
  dearest poll of this instance spends ten (the shipped schemas have more metrics), and TLC
  refutes `NoEndpointStarves` on it with a budget of nine.  The time-series endpoint
  answers every shape, none, or only its last variant; the views path every shape or is not there; the
  deprecated path every shape, none, or only its last variant, which is the one that costs most to find.
* Protection runs: three runs in two groups, two of them in one, are the least with which the groups
  change places in the fan-out order while a run is behind another.  The run with faults takes two
  runs and a ledger of one, which overflows.  One outcome suffices for what is counted, two for under
  what.  The intervals are in units
  of the overlap; only their order matters to the windows.
* `HostLink`: three VMware groups around one of another environment, in six listings of none to four; the
  budget of two divides some of them and not others, and a cursor left by a longer list occurs.  One
  group fills the object cap of two.  The answers hold every kind of object a verdict tells apart: plain,
  a better field that is no uuid before a lesser one that is, none at all, and one that begins like
  vCenter's.  The theorems remove the bounds on the rotation.
* `HostLinkSync`: two hosts, two VMs and three rows of two groups in two clusters: a VM that two groups protect, two
  hosts with one serial, and a host that turns into another VM.  Two deployments put one before and one
  after a read.
* `Scheduler`: a unit is 15 s, the tolerance one unit, the jitter one.  Six configurations, any of which may
  follow any other.  Two clusters, one on every tick
  and one on every other, are the least in which one waits behind the other; the third is the one
  whose client cannot be built.  A query of three units that starts one late runs into the next tick, which is then skipped.  `Horizon` is one
  more than any wait the property admits, so saturation hides no violation.
* `ClusterPoll`: one section of three requests between two of one: a failure can come before,
  between and after requests, and the sections before and behind it are seen.
* Counters saturate at two (`counts`, `sent`): the properties tell none, once and more apart.

No configuration uses a state constraint or symmetry.

## 5. Fairness

`ClusterPoll!FairSpec` and `StatsProbe!FairSpec` are `WF_vars(Poll)`, `AlertFeed!FairAlertSpec` is
`WF_alertVars(Poll)`.  The SDK calls `query()` every minute, every request has a timeout and every loop
in a poll is over a finite list, so a poll that can take its next step takes one.  Nothing is assumed of
the cluster: an outage need not end, a mood need not settle, a source may refuse for ever, and the
process may restart for ever; what a property needs of them it has as a premise (`Recovers`,
`FeedComesBack`).  The fairness is of the poll as a whole and never of one of its outcomes.

`HostLinkSync!FairSpec` is `WF_vars(Step)`: the workflow runs every hour, and a run in which no request fails comes to
its end.  Which step comes next is determined by the stage; nothing is assumed of the estate and of the platform, and `Converges` has
as its premise that the estate comes to rest and the platform to answer.  The premise speaks of the outage (`up`) and not of
failed steps: a run that a request ends and one that finds its tables in place leave the same state behind,
and a premise that excluded such steps would exclude every settled estate.  A task that compares only which hosts
are mapped, that never writes, or that always returns before the write violates it.

## 6. Proofs

All are checked by `tlapm`, for every value of the constants that meets the assumptions of the modules
(finite sets, capacities and limits at least one).

**The ledger** (`LedgerOps_proofs`, `AlertFeed_proofs`).  `LedgerOps_proofs` states what claiming does to a
sequence of distinct ids: which ids it holds, in what order, how many, and what it evicts.
`HoldsMostRecent` is not inductive.  `LedgerInv` adds `HeldAreInOfferOrder`: the ids offered since a
held id was last offered are exactly those behind it in the ledger, so their number is its distance
from the end.  Eviction then removes the id with exactly `Capacity` others behind it, and
`DroppedAfterTurnover` keeps what was true of it at that moment, since the set of later offers only
grows until the id is offered again.  From it `LedgerHoldsMostRecent` and `LedgerCountsOnce` follow by
cardinality (`SinceIsCounted` says that what was offered since was counted too).

**Counting** (`ProtectionRuns_proofs`).  `ClaimedIsCounted` and `CountedUnderItsOutcome` speak of the
state between polls and after the count; what makes them inductive is what is under way:
an answer's terminal statuses are final however old the answer is (`AnswersAreFinal`, because a run
that has finished does not change), only terminal entries are claimed, and every held id was counted or
is in `fresh`.  With a ledger that holds every run and a process that lives, counted runs stay
claimed (`CountedStaysClaimed`), which is what the refinement needs: `RunsAreCountedOnce` maps
`ReportRuns` to one `Count` of the reported runs and every other step of the poll to a stutter.
Its assumptions (no restart, the runs fit the ledger, every status is stated) are those under
which the source promises it: section 3 says what happens without the ledger's, and the
repository's `README.md` (line 56) concedes the restart.

**The alert feed** (`AlertFeed_proofs`).  To the ledger a poll is a number of offers, so `LedgerInv`
carries over step by step, and `FeedHoldsMostRecent` with it.  `NotResentWhileListed` needs to know how far
back in the ledger an occurrence can be that both the last answer and this one hold.  Between answers, what
was offered since an occurrence of the last answer is what stood behind it there (`AnswerBehindIt`): at most
`MaxAlerts - 1` others.  Each claim of the new answer adds one at most (`RepeatedIsRecent`), and before
the last claim `MaxAlerts - 1` have been made, so there are at most `2 * MaxAlerts - 2` in all.
`AnswersFitAssumption` puts that below the capacity, and `LedgerInvRemembers` says that the occurrence is then
still held.  `ClaimedSoFar` rebuilds `AnswerBehindIt` for the new answer while it is claimed.  `FeedHandsOver`
follows from `counted` being within what was handed over and what is `fresh`.

`SevereIsNotCrowdedOut` needs a second invariant, `WantedAnswered`: on an endpoint that is asked for severities,
every listed alert at or above the floor is in the answer if those fit it, since nothing else is.  That a floor above
`info` leads to such a request at all is `FloorIsAskedFor`.

**No run is missed** (`ProtectionRuns_proofs`).  For any interval, overlap, ledger and groups, under
`PollsInTime`: nothing but a source fails (`Faults = {}`), lateness and poll time together stay within the
overlap, and a poll ends before the next one is overdue.  `ReachInv` is the invariant: the clocks stay in step
(`ClocksOK`), and a finished run that has not been counted, and is in no answer in hand, is never older than what the
next window reaches back (`WithinReach`).  Two theorems use it:

* `NoRunIsMissed`: one of the two windowed sources never refuses (`WindowsAnswer`), so the poll never has to turn to
  the groups (`Windowed`).
* `GroupsMakeUpForWindows`: both refuse at will, and the groups make up for them.  A group's answer knows no window:
  it lists the last `RunsPerGroup` runs.  So the theorem asks two things of the settings and the cluster: one fan-out
  may ask every group (`GroupsAnswer`), and at no time does a group have more runs that are in progress or have
  finished within `Interval + MaxLate + MaxDelay` than its answer lists (`ListsReachBack`).  Then an uncounted run of a group is in
  that group's answer (`UncountedIsListed`), because what finished after it is no older (`HistoryInv`: the finishing order is that
  of the ages).  Until its group is asked it waits in `toAsk`, which `WithinReach` says during the fan-out, because
  the order of a fan-out lists every group (`OrderIsWhole`: as many places as groups, none named twice, since no group
  comes `Before` itself) and a rotation with so large a budget covers it from any cursor (`RotationCovers`).
  `Grouped` says which sources are left to try, whichever has won before.

  With one run a group listed, or with one group asked a poll, TLC refutes `NothingMissed` on the instance of
  `ProtectionRuns_window`, and with `ListsReachBack` as a constraint on the former it holds again: neither hypothesis
  can be dropped.  That run itself satisfies both, so it is covered by the second theorem.

`ProtectionTypeCorrect` gives the types under every fault; `FlowOK` adds to them that the fan-out's order is as long as
the inventory, which keeps the cursor inside it.

**The rotation** (`HostLink_proofs`).  `SweptWhileSteady` bounds polls; what is inductive bounds places.  `Ahead(i)` is
how far the cursor has to go until it stands on place `i`, and `Near` says that this distance and
the places passed since `i` was last selected add up to less than one turn.  A poll that does not select `i`
comes nearer by as much as the second term grows; one that does makes that term zero.  Dividing by the rate
gives the bound (`NearIsSwept`), for any list, any budget (zero included, which `max(cap, 1)` turns into one) and any
cursor a longer list left behind.  The argument uses nothing but the steps of `FanoutRotation`.
`HostLinkImplementsRotation` maps every poll that reaches the fan-out to an `Ask` and every other step to a
`Relist`, a `Restart` or a stutter; it needs that the listings are free of
repetitions (`InventoriesAssumption`) and the caps numbers (`LinkRotationAssumption`), and no more: answers,
failures and groups of other environments are arbitrary.  `EveryVMwareGroupIsSwept` puts the two together.

**The host links** (`HostLink_proofs`).  `LinkInv` says of the links published last that each is of a VMware group and
joinable, and of the markers that "capped" is told as a warning or not at all (`TellInv`), which makes `TruncationIsTold`
and `SuspicionIsTold` inductive: what is told is not unsaid (`TellFacts`), and every poll that cuts something off, or
publishes a suspect uuid, reports it (`FanoutReports`).  `ParsedFacts` is about a single answer: whichever place wins,
a published uuid is normalised from a field that is not one of vCenter's or Cohesity's own.
`FieldsAssumption` then says what such a field holds, if it holds a uuid: the BIOS uuid of a VM of the group asked.  That is
the cluster's side, and what the comment over `BIOS_UUID_FIELDS` (`domain` 954-967) relies on; the assumption is about
places and says nothing of which of them the code prefers.  `KeptFacts` has the one argument about numbers: if any
link is found some are kept, and none of them stands behind one that is cut off.  `AnswersAssumption` is the shape of an answer.  `TheProbeIsMadeOnce` needs the flag beside the
count (`ProbeInv`), and `HostLinkTypeCorrect` all of these.

**The sync task** (`HostLinkSync_proofs`).  `SyncInv` says of the tables under construction, and of those
in the settings object, that they name the same hosts (`Typed`) and that the cluster of each host is that of its group
(`Agree`), after every row: a row writes into both tables or into neither, whether it wins or loses (`JoinedFacts`).  `ReadIsCurrent`
relates the version the task has read to the deployed one, from which `DeploysAreNotUndone` follows: only a run that read the
version before can write over it.  Hosts, serials, rows, groups, clusters and the order of the
rows are arbitrary.

**The statistics probes** (`StatsProbe_proofs`), for any calls, any moods and any budget.  `ClientInv` is about what is kept
from poll to poll, `CallInv` about the call under way.  Two parts are more than types: what a call has still to try
are candidates of its schema, and an answer with data came under the id that has it.  So the winner that is kept has had
data (`KeptHasData`), and since all calls of a schema have their data under one id (`CallsAssumption`, which is
what caching one winner per schema presumes, `client` `_entity_id_cache`), it is the right one for each of them.  A variant is only sent when
all of its requests fit what is left, so the budget is not overdrawn even where a variant fails half-way (`SpentFits`).

**The poll** (`ClusterPoll_proofs`).  `PollInv` has two independent halves.  `FactsInv` says where a fact can be:
learned, then waiting, sent or lost, and never two of the last three; `NoFactLeavesTwice` and
`FailuresAreHandedOver` follow.  `SectionsInv` says that the sections still to do are a tail of the list
(`InOrder`), that those before it were heard (`HeardSoFar`) and that those behind have reported nothing
(`Underway`), whichever of them failed; `SectionsAreIndependent` is the case in which the tail is empty.

**The scheduler** (`Scheduler_proofs`), for any configurations, intervals, lateness and query times.
`SchedulerInv` strengthens `ForgottenWhole` and `PolledOncePerQuery` by what is between stamping and polling: the
places still left are stamped (`LeftIsStamped`).  That a stamp makes a second entry with the same key not due is
where the order of picking and stamping in `_due_clusters` is used.
`EditsLeaveOthersAlone` is an action property from the same invariant: pruning removes keys that
are not live, and the key of an endpoint depends on nothing but itself and its place (`KeyOf`).

`EveryClusterIsPolledOnTime` has one hypothesis, that a tick is answered no later than the tolerance allows for
(`Jitter <= Tolerance`).  `TimingInv` relates the clocks.  A key the query under way will reach (`Pending`) has waited no
longer than leaves time for the rest of the query.  Any other key has waited no longer than its stamp is old, and by
the time the next query begins (`TillQuery`) no longer than it may (`OnItsWay`).  What decides is the query that passes
a key over: every stamp lies at most `Jitter` behind a tick (`Aligned`), so a stamp that is short of the interval by more than
the tolerance is short of it by a whole tick (`PassedOver`), and the next query comes in time.  With the tolerance
smaller than the lateness, or on the wrong side, that step fails.  The bound is tight: on the run some cluster
waits its interval and exactly `Slack`, and with `MaxQuery + Jitter + MaxQuery` for `Slack` TLC refutes it.  A cluster behind one
whose client may be impossible to build is left out (`Ahead`): `OthersStillRun` is violated there.

Only model-checked: the liveness properties (`Recovers`, `FeedComesBack`, `NoEndpointStarves`, `Converges`; fairness
and `ENABLED` are beyond TLAPS).  Every invariant and action
property of the passing runs is stated by a theorem.  The modules with theorems declare
no recursive operator.

## 7. Not modelled

* `fastcheck` and `_probe`: a process of its own, which shares the client code and no state with `query`.
* The transport (`transport.py`, `errors.py`): `urllib`, TLS and the error taxonomy.  Its outcomes
  appear as answers, refusals and aborts, told apart where the code above tells them apart (a 404, a server
  error, anything else).
* Payload parsing other than the run status and the host links' identifiers, and the metric and log
  lines: total functions on nullable JSON and formatting, without state.  What they make of an unusual
  answer is a matter for unit tests.
* What capacity, forecast and storage domains collect: in `ClusterPoll` they are requests that answer
  or fail.
* Fixture replay (no state that outlives a call), except that it silences the host links' probe.
* The declarative parts (`extension.yaml`, schemas, dashboards, pipelines), the end-to-end loop and the other tools.

## 8. What is left

1. A composition of `Scheduler` with `ClusterPoll`, so that forgetting a cluster and draining its facts meet in
   one run.
2. A run for the last link's edges (`Converges` without its premise), and one for the shared host-link marker.
3. The error taxonomy as a decision table, and the numeric helpers against a reference definition.
