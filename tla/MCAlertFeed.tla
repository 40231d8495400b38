----------------------------- MODULE MCAlertFeed -----------------------------
(***************************************************************************)
(* AlertFeed with an alert below the floor, one that did not map and the   *)
(* ones it is for; answers of two go through a ledger of three.            *)
(***************************************************************************)
EXTENDS AlertFeed, TLC

CONSTANTS c1, c2, w1, u1, i1

FiveAlerts == {c1, c2, w1, u1, i1}

Severities ==
    c1 :> "critical" @@ c2 :> "critical" @@ w1 :> "warning" @@ u1 :> "unknown" @@ i1 :> "info"

==============================================================================
