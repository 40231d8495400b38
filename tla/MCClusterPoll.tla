---------------------------- MODULE MCClusterPoll ----------------------------
(***************************************************************************)
(* ClusterPoll with a section of one request, one of three that may be     *)
(* refused, and a last one of one.                                         *)
(***************************************************************************)
EXTENDS ClusterPoll

ThreeSections == <<"capacity", "views", "alerts">>

RequestsEach == [s \in {"capacity", "views", "alerts"} |-> IF s = "views" THEN 3 ELSE 1]

==============================================================================
