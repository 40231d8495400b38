----------------------------- MODULE MCStatsProbe -----------------------------
(***************************************************************************)
(* StatsProbe with the real calls of a poll as far as their shapes differ: *)
(* a schema of two metrics, one of a single metric, and the views.         *)
(***************************************************************************)
EXTENDS StatsProbe

SeriesCall(name, count, id) ==
    [section |-> "series", path |-> "time-series-stats", schema |-> name, metrics |-> count,
     holder |-> id]

ViewsCall ==
    [section |-> "views", path |-> "top-views", schema |-> "", metrics |-> 1, holder |-> ""]

ThreeCalls == <<SeriesCall("cpu", 2, "v1"), SeriesCall("garbage", 1, "status"), ViewsCall>>

Only(shapes) == [answers |-> shapes, refusal |-> "500"]
All(path) == Only(Shapes(path))
Broken == Only({})
Missing == [answers |-> {}, refusal |-> "404"]

\* The version says 7.3, but top-views comes and goes; what is behind it mishandles what it is asked.
SomeMoods ==
    [path \in Paths |->
        CASE path = "time-series-stats" -> {All(path), Broken, Only({"one-metric-per-request"})}
          [] path = "top-views" -> {All(path), Missing}
          [] path = "views" -> {All(path), Broken, Only({"metric-only"})}]

==============================================================================
