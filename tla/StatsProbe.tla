------------------------------ MODULE StatsProbe ------------------------------
(***************************************************************************)
(* How one poll asks for statistics from a cluster that mishandles its own *)
(* documented requests: CohesityClient._get_with_variants and              *)
(* _probe_param_variants, the entityId probe of cluster_time_series, and   *)
(* the deprecated path that view_stats falls back to.                      *)
(*                                                                         *)
(* The calls of a poll are made in order, in sections that do not cost     *)
(* each other anything but the request budget they share.  A call is       *)
(* [section, path, schema, metrics, holder]: its endpoint, the schema it   *)
(* asks for ("" for views, which take no entityId), how many metrics it    *)
(* names, and the entityId candidate under which the cluster has its data. *)
(*                                                                         *)
(* The cluster's mood is, for each path, the shapes it answers at the      *)
(* moment and the error that the others run into.  It changes between any  *)
(* two requests.                                                           *)
(***************************************************************************)
EXTENDS Naturals, Sequences

CONSTANTS
    Calls,      \* the calls of one poll, in order
    Moods,      \* per path, the moods considered: [answers, refusal]
    Budget      \* MAX_VARIANT_REQUESTS_PER_POLL

ASSUME BudgetAssumption == Budget \in Nat

Paths == {"time-series-stats", "top-views", "views"}

TimeSeriesVariants ==
    <<"metricNames-repeated", "no-rollupIntervalSecs", "no-rollup", "short-window",
      "one-metric-per-request">>

TopViewsVariants == <<"no-protocol", "no-lastHours", "fewer-numTopViews", "metric-only">>

Variants(path) ==
    IF path = "time-series-stats" THEN TimeSeriesVariants ELSE TopViewsVariants

Named(list) == {list[i] : i \in 1..Len(list)}

\* A schema's data is kept under one id, whichever of its metrics are asked for.
ASSUME CallsAssumption ==
    /\ Calls \in Seq(Named(Calls))
    /\ \A call \in Named(Calls) : call.path \in Paths
    /\ \A one, other \in Named(Calls) :
          one.schema = other.schema /\ one.schema # "" => one.holder = other.holder

Shapes(path) == {"plain"} \cup Named(Variants(path))

\* How many requests a shape becomes for a call; 0 when it does not apply to it.
Requests(shape, call) ==
    CASE shape # "one-metric-per-request" -> 1
      [] call.metrics < 2 -> 0
      [] OTHER -> call.metrics

\* Where entityId candidates come from.
CandidateSources == {"v1", "status", "catalogue"}

\* The candidates there may be, best first.  A source that refuses has nothing to offer; the status
\* body is there, or the poll would have ended before its sections.
CandidateLists ==
    {<<"status">>, <<"v1", "status">>, <<"status", "catalogue">>, <<"v1", "status", "catalogue">>}

Unresolved == "unresolved"

VARIABLES
    mood,           \* the cluster's mood
    shape,          \* _param_variants: the cached shape per path, or "plain" when there is none
    budget,         \* _variant_budget
    candidates,     \* _entity_id_candidates, <<>> until they are built
    winner,         \* _entity_id_cache: per schema, the cached candidate or Unresolved
    at,             \* the call under way, 0 between polls
    stage,          \* "start", "request", "probe" or "answered"
    fellBack,       \* has this call turned to VIEWS_PATH?
    toTry,          \* the candidates this call has still to try, the current one first
    next,           \* the variant to be probed next
    result          \* of an answered request: "data", "part", "empty"; "" otherwise

client == <<shape, budget, candidates, winner>>
position == <<at, stage, fellBack, toTry, next, result>>
vars == <<mood, client, position>>

Call == Calls[at]

Path == IF fellBack THEN "views" ELSE Call.path

Schemas == {Calls[i].schema : i \in DOMAIN Calls} \ {""}

\* Types, and that the budget is never overdrawn.
TypeOK ==
    /\ \A path \in Paths : mood[path] \in Moods[path] /\ shape[path] \in Shapes(path)
    /\ budget \in 0..Budget
    /\ Named(candidates) \subseteq CandidateSources
    /\ winner \in [Schemas -> {Unresolved} \cup Named(candidates)]
    /\ at \in 0..Len(Calls)
    /\ stage \in {"start", "request", "probe", "answered"}
    /\ fellBack => at # 0 /\ Call.path = "top-views"
    /\ Named(toTry) \subseteq CandidateSources \cup {""}
    /\ result \in {"", "data", "part", "empty"}

Init ==
    /\ mood \in {m \in [Paths -> UNION {Moods[p] : p \in Paths}] : \A p \in Paths : m[p] \in Moods[p]}
    /\ shape = [path \in Paths |-> "plain"]
    /\ budget = Budget
    /\ candidates = <<>>
    /\ winner = [schema \in Schemas |-> Unresolved]
    /\ at = 0 /\ stage = "start" /\ fellBack = FALSE /\ toTry = <<>> /\ next = 1 /\ result = ""

MoodChanges(path) ==
    /\ \E other \in Moods[path] \ {mood[path]} : mood' = [mood EXCEPT ![path] = other]
    /\ UNCHANGED <<client, position>>

------------------------------------------------------------------------------
(* Going from call to call. *)

\* The call at `i` comes next, or the poll is over.
GoTo(i) ==
    /\ at' = IF i > Len(Calls) THEN 0 ELSE i
    /\ stage' = "start" /\ fellBack' = FALSE /\ toTry' = <<>> /\ next' = 1 /\ result' = ""

\* The exception of a call ends its section: the calls behind it are lost to this poll.
AfterSection ==
    LET others == {i \in DOMAIN Calls : i > at /\ Calls[i].section # Call.section}
    IN  IF others = {} THEN Len(Calls) + 1
        ELSE CHOOSE i \in others : \A j \in others : i <= j

Raise == GoTo(AfterSection)

\* begin_poll.
BeginPoll ==
    /\ at = 0
    /\ budget' = Budget
    /\ GoTo(1)
    /\ UNCHANGED <<mood, shape, candidates, winner>>

\* entity_id_candidates: built once, so what refuses then has nothing to offer later.
BuildCandidates ==
    /\ at # 0 /\ stage = "start"
    /\ Call.schema # "" /\ winner[Call.schema] = Unresolved
    /\ candidates = <<>>
    /\ candidates' \in CandidateLists
    /\ UNCHANGED <<mood, shape, budget, winner, position>>

StartWith(tries) ==
    /\ toTry' = tries
    /\ stage' = "request"
    /\ UNCHANGED <<mood, client, at, fellBack, next, result>>

StartCall ==
    /\ at # 0 /\ stage = "start"
    /\ \/ Call.schema = "" /\ StartWith(<<"">>)
       \/ Call.schema # "" /\ winner[Call.schema] # Unresolved
              /\ StartWith(<<winner[Call.schema]>>)
       \/ Call.schema # "" /\ winner[Call.schema] = Unresolved /\ candidates # <<>>
              /\ StartWith(candidates)

------------------------------------------------------------------------------
(* _get_with_variants. *)

Answers(sent) == sent \in mood[Path].answers

\* What comes back: nothing under the wrong entityId, and under repeated metricNames the cluster
\* reads the last name only.
AnsweredTo(sent) ==
    /\ result' = IF Call.schema # "" /\ Head(toTry) # Call.holder THEN "empty"
                 ELSE IF sent = "metricNames-repeated" /\ Call.metrics > 1 THEN "part"
                 ELSE "data"
    /\ stage' = "answered" /\ next' = 1
    /\ UNCHANGED <<at, fellBack, toTry>>

\* The shape the request goes out in: the cached one if it applies to this call.
ShapeToSend ==
    IF Requests(shape[Path], Call) > 0 THEN shape[Path] ELSE "plain"

RequestAnswered ==
    /\ at # 0 /\ stage = "request"
    /\ Answers(ShapeToSend)
    /\ AnsweredTo(ShapeToSend)
    /\ UNCHANGED <<mood, client>>

\* A mistake: the version decides, and a path that is not there is raised like any failure.
IsVersionForkNever == FALSE

\* A 404 from the path the version led to, in whichever shape: view_stats has another one.
IsVersionFork == Path = "top-views" /\ mood[Path].refusal = "404"

\* Only a plain request that runs into a server error is probed; any other failure is raised.
RequestFails ==
    /\ at # 0 /\ stage = "request"
    /\ ~Answers(ShapeToSend) /\ ~IsVersionFork
    /\ IF ShapeToSend = "plain" /\ mood[Path].refusal = "500"
       THEN stage' = "probe" /\ next' = 1 /\ UNCHANGED <<at, fellBack, toTry, result>>
       ELSE Raise
    /\ UNCHANGED <<mood, client>>

\* The same question goes to the deprecated path, with shapes and a cached shape of its own.
FallBack ==
    /\ at # 0 /\ stage = "request"
    /\ ~Answers(ShapeToSend) /\ IsVersionFork
    /\ fellBack' = TRUE
    /\ UNCHANGED <<mood, client, at, stage, toTry, next, result>>

\* A mistake: the last shape is never tried.
ProbingButTheLast == at # 0 /\ stage = "probe" /\ next < Len(Variants(Path))

Probing == at # 0 /\ stage = "probe" /\ next <= Len(Variants(Path))

Probed == Variants(Path)[next]

VariantDoesNotApply ==
    /\ Probing
    /\ Requests(Probed, Call) = 0
    /\ next' = next + 1
    /\ UNCHANGED <<mood, client, at, stage, fellBack, toTry, result>>

VariantAnswers ==
    /\ Probing
    /\ Requests(Probed, Call) \in 1..budget
    /\ Answers(Probed)
    /\ budget' = budget - Requests(Probed, Call)
    /\ shape' = [shape EXCEPT ![Path] = Probed]
    /\ AnsweredTo(Probed)
    /\ UNCHANGED <<mood, candidates, winner>>

\* A mistake: the budget is not looked at before the requests are sent.
VariantFailsUnchecked ==
    /\ Probing
    /\ Requests(Probed, Call) > 0
    /\ ~Answers(Probed)
    /\ \E sent \in 1..Requests(Probed, Call) : budget' = budget - sent
    /\ next' = next + 1
    /\ UNCHANGED <<mood, shape, candidates, winner, at, stage, fellBack, toTry, result>>

\* Whatever the error: one of the variant's requests failed, and those before it are spent.
VariantFails ==
    /\ Probing
    /\ Requests(Probed, Call) \in 1..budget
    /\ ~Answers(Probed)
    /\ \E sent \in 1..Requests(Probed, Call) : budget' = budget - sent
    /\ next' = next + 1
    /\ UNCHANGED <<mood, shape, candidates, winner, at, stage, fellBack, toTry, result>>

\* No variant is left, or none the budget allows: the caller sees the original failure.
ProbeGivesUp ==
    /\ at # 0 /\ stage = "probe"
    /\ Probing => Requests(Probed, Call) > budget
    /\ Raise
    /\ UNCHANGED <<mood, client>>

------------------------------------------------------------------------------
(* cluster_time_series and view_stats go on with what came back. *)

HasData == result \in {"data", "part"}

IsWinner == Call.schema # "" /\ HasData

\* A mistake: the best candidate is kept, whichever one had the data.
WinnerFirstOffered == candidates[1]

\* The candidate the data came under.
WinnerOf == Head(toTry)

\* The call returns; a candidate with data is kept for good.
CallReturns ==
    /\ at # 0 /\ stage = "answered"
    /\ IsWinner \/ HasData \/ Len(toTry) = 1
    /\ winner' = IF IsWinner THEN [winner EXCEPT ![Call.schema] = WinnerOf] ELSE winner
    /\ GoTo(at + 1)
    /\ UNCHANGED <<mood, shape, budget, candidates>>

\* Nothing under this candidate: the next one is tried.
NextCandidate ==
    /\ at # 0 /\ stage = "answered"
    /\ ~IsWinner /\ ~HasData /\ Len(toTry) > 1
    /\ toTry' = Tail(toTry)
    /\ stage' = "request" /\ result' = ""
    /\ UNCHANGED <<mood, client, at, fellBack, next>>

Poll ==
    \/ BeginPoll
    \/ BuildCandidates
    \/ StartCall
    \/ RequestAnswered
    \/ RequestFails
    \/ FallBack
    \/ VariantDoesNotApply
    \/ VariantAnswers
    \/ VariantFails
    \/ ProbeGivesUp
    \/ CallReturns
    \/ NextCandidate

Next == Poll \/ \E path \in Paths : MoodChanges(path)

Spec == Init /\ [][Next]_vars

\* query() runs again and again, and a request comes back or runs into its timeout.
FairSpec == Spec /\ WF_vars(Poll)

------------------------------------------------------------------------------

\* The candidate kept for a schema is one the cluster has data for.  An id that was merely
\* answered would make every later poll empty, and empty is not an error anywhere.
WinnersHaveData ==
    \A i \in DOMAIN Calls :
        Calls[i].schema # "" => winner[Calls[i].schema] \in {Unresolved, Calls[i].holder}

\* Some call asks it, or is sent on to it.
Asked(path) ==
    \/ \E i \in DOMAIN Calls : Calls[i].path = path
    \/ path = "views" /\ mood["top-views"].refusal = "404"

\* An endpoint that mishandles the plain request but answers some other shape is found out, even
\* though its probe comes last and gets what the probes before it have left of the budget.
NoEndpointStarves ==
    \A path \in Paths : \A variant \in Named(Variants(path)) :
        ~<>[](/\ Asked(path)
              /\ shape[path] = "plain"
              /\ mood[path].refusal = "500"
              /\ "plain" \notin mood[path].answers
              /\ variant \in mood[path].answers)

Serves(path) == mood[path].answers = Shapes(path)

\* The path the cluster's version is taken to have may not be there, or come and go.
Well ==
    /\ Serves("time-series-stats") /\ Serves("views")
    /\ Serves("top-views") \/ mood["top-views"].refusal = "404"

\* Once the cluster is well again every call has its data again in one poll after the other,
\* whatever was cached on the way and whichever of its paths has the views; unless the entityId
\* it takes was not offered when the candidates were built.
Recovers ==
    \A i \in DOMAIN Calls :
        /\ <>[]Well
        /\ <>[](Calls[i].schema = "" \/ Calls[i].holder \in Named(candidates))
        => []<>(at = i /\ stage = "answered" /\ HasData)

\* The variants' comment: nothing changes what is being asked for.  An answer with data has the
\* data of every metric the call named.
AnswersWhole == result # "part"

==============================================================================
