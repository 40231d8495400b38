------------------------------ MODULE Scheduler ------------------------------
(***************************************************************************)
(* Which clusters one query() polls, and with which client                 *)
(* (src/cohesity_storage/__main__.py: query, _due_clusters, _client_for,   *)
(* _ensure_state, on_shutdown).                                            *)
(*                                                                         *)
(* The SDK calls query() once per TickEvery units, up to Jitter late, and  *)
(* skips a call while the last one is still running.  A query polls its    *)
(* due clusters one after the other, in configuration order, and takes up  *)
(* to MaxQuery units for all of them.  Ages saturate at Horizon.           *)
(***************************************************************************)
EXTENDS Configuration

CONSTANTS
    Configurations, \* the activation configurations: sequences of endpoints
    MissingFiles,   \* CA paths at which there may be no file
    TickEvery,      \* the SDK's 60 s
    Tolerance,      \* INTERVAL_TOLERANCE_SECONDS
    Jitter,         \* how late the SDK may call query()
    MaxQuery        \* how long a query may take

\* load_clusters() of every configuration, and of none.
Loaded == [c \in Configurations \cup {<<>>} |-> LoadClusters(c)]

EntriesOf(c) == {Loaded[c][i] : i \in DOMAIN Loaded[c]}
LiveKeys(c) == {e.key : e \in EntriesOf(c)}

\* ClusterConfig.key of every cluster ever configured.
Keys == UNION {LiveKeys(c) : c \in Configurations}

Interval(e) == e.minutes * TickEvery

ASSUME ConfigurationsAssumption ==
    /\ Configurations # {}
    /\ \A c \in Configurations : c \in Seq({c[i] : i \in 1..Len(c)})

ASSUME TimesAssumption ==
    /\ {TickEvery, Tolerance, Jitter, MaxQuery} \subseteq Nat
    /\ Jitter < TickEvery
    /\ Tolerance < TickEvery

VARIABLES
    conf,       \* what activation_config says now
    lastRun,    \* _last_run: key -> time since it was stamped, Never if it is not
    clients,    \* the keys of _clients
    open,       \* transports built and not closed, by key
    polling,    \* the configuration this query read, or the last one did
    left,       \* places in polling that are due and not polled yet
    clock,      \* time since the last tick
    called,     \* has this tick's query() been called, or been skipped?
    spent,      \* time this query has taken
    waited      \* history: time since the cluster was polled, or came to stand where it can be

configVars == <<conf, waited>>
stateVars == <<lastRun, clients, open>>
queryVars == <<polling, left, spent>>
timeVars == <<clock, called>>
vars == <<conf, lastRun, clients, open, polling, left, clock, called, spent, waited>>

Every(c, k) == Interval(CHOOSE e \in EntriesOf(c) : e.key = k)

\* The file the client's transport opens is not there; a client that replays opens none.
LacksFile(e) == ~e.replays /\ e.caCertPath \in MissingFiles

Slowest ==
    LET intervals == {Interval(e) : e \in UNION {EntriesOf(c) : c \in Configurations}} \cup {0}
    IN  CHOOSE n \in intervals : \A other \in intervals : other <= n

\* How late a poll may be: the query before it may start late and run on past its tick, the tick
\* that follows may come late, and the clusters ahead of it in the query may take their time.
Slack == (Jitter + MaxQuery) + (Jitter + MaxQuery)

Horizon == Slowest + Slack + 1

Never == Horizon + 1

Later(t) == IF t = Never THEN Never ELSE IF t < Horizon THEN t + 1 ELSE t

Idle == left = {}

\* No cluster whose client may be impossible to build is listed ahead of this one.
Ahead(c, k) ==
    \A i \in DOMAIN Loaded[c] : Loaded[c][i].key = k =>
        \A j \in DOMAIN Loaded[c] : j <= i => ~LacksFile(Loaded[c][j])

Init ==
    /\ conf \in Configurations
    /\ lastRun = [k \in Keys |-> Never]
    /\ clients = {}
    /\ open = [k \in Keys |-> 0]
    /\ polling = <<>>
    /\ left = {}
    /\ clock = 0
    /\ called = FALSE
    /\ spent = 0
    /\ waited = [k \in Keys |-> 0]

------------------------------------------------------------------------------
\* The configuration is edited: a cluster is added, removed, mistyped or given a new interval.
Reconfigure(c) ==
    /\ c # conf
    /\ conf' = c
    /\ waited' = [k \in Keys |->
                    IF /\ k \in LiveKeys(c) \cap LiveKeys(conf)
                       /\ Every(c, k) = Every(conf, k) /\ Ahead(conf, k)
                    THEN waited[k] ELSE 0]
    /\ UNCHANGED <<stateVars, queryVars, timeVars>>

\* A tick that falls into a running query is skipped; one that does not is answered in time.
Tick ==
    /\ Idle => called \/ clock < Jitter
    /\ ~Idle => spent < MaxQuery
    /\ clock' = (clock + 1) % TickEvery
    /\ called' = IF clock + 1 = TickEvery THEN ~Idle ELSE called
    /\ spent' = IF Idle THEN 0 ELSE spent + 1
    /\ lastRun' = [k \in Keys |-> Later(lastRun[k])]
    /\ waited' = [k \in Keys |-> IF k \in LiveKeys(conf) THEN Later(waited[k]) ELSE 0]
    /\ UNCHANGED <<conf, clients, open, polling, left>>

\* A mistake: the tolerance is added to the interval and not taken off it.
IsDueWithTheWrongSign(e) ==
    \/ lastRun[e.key] = Never
    \/ lastRun[e.key] >= Interval(e) + Tolerance

\* The entries whose interval has elapsed.  An entry stamps its key as it is picked, so a second
\* entry with the same key finds it stamped just now.
IsDue(e) ==
    \/ lastRun[e.key] = Never
    \/ lastRun[e.key] + Tolerance >= Interval(e)

\* A mistake: every due entry is picked before any key is stamped.
DuePositionsStampedLater == {i \in DOMAIN Loaded[conf] : IsDue(Loaded[conf][i])}

DuePositions ==
    LET configs == Loaded[conf]
    IN  {i \in DOMAIN configs :
            /\ IsDue(configs[i])
            /\ \A j \in DOMAIN configs :
                  j < i /\ configs[j].key = configs[i].key => ~IsDue(configs[j])}

\* A mistake: the clients of removed clusters are kept.
QueryKeepingClients ==
    /\ Idle
    /\ ~called
    /\ called' = TRUE
    /\ polling' = conf
    /\ left' = DuePositions
    /\ spent' = 0
    /\ lastRun' = [k \in Keys |-> IF k \notin LiveKeys(conf) THEN Never
                                  ELSE IF \E i \in DuePositions : Loaded[conf][i].key = k THEN 0
                                  ELSE lastRun[k]]
    /\ UNCHANGED <<conf, clock, waited, clients, open>>

\* A mistake: the configuration read before is polled.
QueryOfOldConfiguration ==
    /\ Idle
    /\ ~called
    /\ called' = TRUE
    /\ left' = DuePositions
    /\ spent' = 0
    /\ UNCHANGED <<conf, clock, waited, clients, open, polling, lastRun>>

\* query() reads the configuration and _due_clusters() forgets what is gone, closes its clients
\* and stamps what is due, before any of it is polled.
Query ==
    /\ Idle
    /\ ~called
    /\ called' = TRUE
    /\ polling' = conf
    /\ left' = DuePositions
    /\ spent' = 0
    /\ lastRun' = [k \in Keys |-> IF k \notin LiveKeys(conf) THEN Never
                                  ELSE IF \E i \in DuePositions : Loaded[conf][i].key = k THEN 0
                                  ELSE lastRun[k]]
    /\ clients' = clients \cap LiveKeys(conf)
    /\ open' = [k \in Keys |-> IF k \in clients \ LiveKeys(conf) THEN open[k] - 1 ELSE open[k]]
    /\ UNCHANGED <<conf, clock, waited>>

NextUp == CHOOSE i \in left : \A j \in left : i <= j

\* _poll begins: the cluster's client is found or built, and its requests go out.
Poll ==
    /\ ~Idle
    /\ LET k == Loaded[polling][NextUp].key
       IN  /\ clients' = clients \cup {k}
           /\ open' = IF k \in clients THEN open ELSE [open EXCEPT ![k] = @ + 1]
           /\ waited' = [waited EXCEPT ![k] = 0]
    /\ left' = left \ {NextUp}
    /\ UNCHANGED <<conf, lastRun, polling, spent, timeVars>>

\* The client cannot be built.  Nothing between the constructor and the SDK catches that, so the
\* clusters behind this one are not polled either, though they are stamped.
BuildFails ==
    /\ ~Idle
    /\ LacksFile(Loaded[polling][NextUp])
    /\ Loaded[polling][NextUp].key \notin clients
    /\ left' = {}
    /\ UNCHANGED <<configVars, stateVars, polling, spent, timeVars>>

\* on_shutdown closes the clients, and the process that comes next starts from nothing.
Shutdown ==
    /\ open' = [k \in Keys |-> IF k \in clients THEN open[k] - 1 ELSE open[k]]
    /\ lastRun' = [k \in Keys |-> Never]
    /\ clients' = {}
    /\ polling' = <<>>
    /\ left' = {}
    /\ clock' = 0
    /\ called' = FALSE
    /\ spent' = 0
    /\ waited' = [k \in Keys |-> 0]
    /\ UNCHANGED conf

Next ==
    \/ \E c \in Configurations : Reconfigure(c)
    \/ Tick
    \/ Query
    \/ Poll
    \/ BuildFails
    \/ Shutdown

Spec == Init /\ [][Next]_vars

------------------------------------------------------------------------------
\* Types.
TypeOK ==
    /\ conf \in Configurations
    /\ lastRun \in [Keys -> 0..Horizon \cup {Never}]
    /\ clients \subseteq Keys
    /\ open \in [Keys -> Nat]
    /\ polling \in Configurations \cup {<<>>}
    /\ left \subseteq DOMAIN Loaded[polling]
    /\ clock \in 0..(TickEvery - 1)
    /\ called \in BOOLEAN
    /\ spent \in 0..MaxQuery
    /\ waited \in [Keys -> 0..Horizon]

\* A cluster on an N-minute interval is polled every N minutes: a tick that comes early or late,
\* a query that runs on into later ticks, an edit of the configuration, or a cluster behind it that
\* cannot be polled never cost it a whole further tick.
PolledOnTime ==
    \A k \in LiveKeys(conf) : Ahead(conf, k) => waited[k] <= Every(conf, k) + Slack

Stamped == {k \in Keys : lastRun[k] # Never}

\* A cluster that left the configuration leaves nothing behind: its stamp, its client and its
\* open transport go together, so one that comes back starts with a fresh clock and a fresh
\* ledger, and a process that runs for months does not collect clients.
ForgottenWhole ==
    /\ Stamped \subseteq LiveKeys(polling)
    /\ clients \subseteq Stamped
    /\ \A k \in Keys : open[k] = IF k \in clients THEN 1 ELSE 0

\* Two endpoints that name the same cluster do not have it polled twice in one query.
PolledOncePerQuery ==
    \A i, j \in left : Loaded[polling][i].key = Loaded[polling][j].key => i = j

\* What an edit does not touch it does not disturb: an endpoint that stands as it stood, where it
\* stood, keeps its client, and with it the ledgers of what has been counted and sent, also when
\* the endpoints around it are mistyped, mended or removed.
EditsTouchNoOther ==
    [][\A i \in DOMAIN polling \cap DOMAIN polling' :
          /\ polling[i] = polling'[i] /\ Parses(polling[i])
          /\ KeyOf(polling[i], i) \in clients
          => KeyOf(polling[i], i) \in clients']_vars

\* config.py, load_clusters: "A single mistyped cluster must not stop the rest of the
\* configuration from running".
OthersStillRun ==
    \A e \in EntriesOf(conf) : LacksFile(e) \/ waited[e.key] <= Interval(e) + Slack

==============================================================================
