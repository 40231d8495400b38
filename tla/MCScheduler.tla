----------------------------- MODULE MCScheduler -----------------------------
(***************************************************************************)
(* Scheduler with a cluster polled every minute, one without a name polled *)
(* every other minute, and one behind them whose CA file may be missing.   *)
(* Four units are one tick, so a unit is 15 s, and the tolerance one unit. *)
(***************************************************************************)
EXTENDS Scheduler, TLC

CONSTANTS east, west, north, gone

Endpoint(host, name, minutes) ==
    [name |-> name, host |-> host,
     numbers |-> [p \in NumberProps |-> IF p = "intervalMinutes" THEN minutes ELSE Null],
     toggles |-> [t \in Toggles |-> Null],
     useVault |-> FALSE, vaultId |-> NoText,
     secrets |-> [token |-> NoText, password |-> NoText, apiKey |-> "whole"],
     verifyTls |-> TRUE, caCertPath |-> NoText, fixtureDir |-> NoText]

East(minutes) == Endpoint(east, east, minutes)
West(minutes) == Endpoint(west, NoText, minutes)
North == [Endpoint(north, north, 1) EXCEPT !.caCertPath = gone]

\* The key sits in the vault, and the ActiveGate injected it as the password.
Vaulted(e) ==
    [e EXCEPT !.useVault = TRUE, !.vaultId = "entry",
              !.secrets = [token |-> NoText, password |-> "whole", apiKey |-> NoText]]

Both == <<East(1), West(2)>>

\* An edit adds and removes clusters, changes an interval, moves a key to the vault, or lists a
\* cluster twice.  In the third the first endpoint's vault entry turned out empty.
Edits ==
    {Both, <<Vaulted(East(2)), West(2)>>,
     <<[Vaulted(East(1)) EXCEPT !.secrets["password"] = NoText], West(2), East(1)>>,
     <<East(1), West(2), East(1)>>, <<East(1), North, West(2)>>, <<>>}

\* The first one's CA file is missing.
Steady == {<<[East(1) EXCEPT !.caCertPath = gone], West(2)>>}

==============================================================================
