--------------------------- MODULE Configuration ---------------------------
(***************************************************************************)
(* What load_clusters() makes of an activation configuration               *)
(* (src/cohesity_storage/config.py): a sequence of endpoints, of which     *)
(* those that can be polled as they are written become configurations and  *)
(* the others are left out, each with the reason.                          *)
(*                                                                         *)
(* Names, hosts and paths are atoms, NoText is the empty one.  A number or *)
(* a switch the endpoint does not state, or states as null, is Null.       *)
(***************************************************************************)
EXTENDS Naturals, Sequences, FiniteSets

CONSTANTS NoText, Null

NumberProps == {"port", "intervalMinutes", "requestTimeoutSeconds", "maxRunFanoutGroups",
                "maxHostLinkObjects", "alertLookbackHours", "maxAlerts"}

Toggles == {"collectStorageDomains", "collectViews", "collectProtection", "collectHostLink",
            "collectAlerts"}

Defaults ==
    [port |-> 443, intervalMinutes |-> 5, requestTimeoutSeconds |-> 30, maxRunFanoutGroups |-> 20,
     maxHostLinkObjects |-> 200, alertLookbackHours |-> 24, maxAlerts |-> 250]

\* Everything is collected but what scales with the estate, and what is prose.
OnByDefault == {"collectStorageDomains", "collectViews", "collectProtection"}

Maximum ==
    [port |-> 65535, intervalMinutes |-> 1440, requestTimeoutSeconds |-> 300,
     maxRunFanoutGroups |-> 500, maxHostLinkObjects |-> 10000, alertLookbackHours |-> 168,
     maxAlerts |-> 1000]

Numbers(raw) ==
    [p \in NumberProps |-> IF raw.numbers[p] = Null THEN Defaults[p] ELSE raw.numbers[p]]

\* What is not a whole number is no Nat.
InRange(number, p) == number \in 1..Maximum[p]

EnabledCollections(raw) ==
    {t \in Toggles : raw.toggles[t] = TRUE \/ (raw.toggles[t] = Null /\ t \in OnByDefault)}

------------------------------------------------------------------------------
(* The credential.  A secret is NoText, or says whether it is in one piece. *)

SecretFields == <<"token", "password", "apiKey">>

\* Inline mode reads apiKey and nothing else; vault mode takes the first field that was filled in.
ApiKeyField(raw) ==
    LET filled == {i \in 1..Len(SecretFields) : raw.secrets[SecretFields[i]] # NoText}
    IN  IF ~raw.useVault THEN "apiKey"
        ELSE IF filled = {} THEN SecretFields[1]
        ELSE SecretFields[CHOOSE i \in filled : \A j \in filled : i <= j]

ApiKey(raw) == raw.secrets[ApiKeyField(raw)]

Replays(raw) == raw.fixtureDir # NoText

\* One of the two modes, and the field it needs filled in.
AuthModeHolds(raw) == raw.useVault <=> raw.vaultId # NoText

KeyHolds(raw) == IF ApiKey(raw) = NoText THEN Replays(raw) ELSE ApiKey(raw) = "whole"

AuthHolds(raw) == AuthModeHolds(raw) /\ KeyHolds(raw)

\* A CA with the verification off is no leftover: the connection would trust whoever answers.
TlsHolds(raw) == raw.caCertPath = NoText \/ raw.verifyTls

------------------------------------------------------------------------------
\* Can the endpoint be polled as it is written?
Parses(raw) ==
    /\ raw.host # NoText
    /\ \A p \in NumberProps : InRange(Numbers(raw)[p], p)
    /\ AuthHolds(raw)
    /\ TlsHolds(raw)

\* An endpoint without a name is called after its place in the list.
Label(raw, index) == IF raw.name = NoText THEN <<"cluster", index>> ELSE <<"named", raw.name>>

KeyOf(raw, index) == <<Label(raw, index), raw.host, Numbers(raw).port>>

FromDict(raw, index) ==
    [key |-> KeyOf(raw, index), minutes |-> Numbers(raw).intervalMinutes,
     caCertPath |-> raw.caCertPath, replays |-> Replays(raw),
     collections |-> EnabledCollections(raw)]

\* The endpoints that can be polled, by their places in the list.
GoodPlaces(endpoints) == {i \in 1..Len(endpoints) : Parses(endpoints[i])}

\* A mistake: the places are counted among the endpoints that parse.
LoadClustersRenumbered(endpoints) ==
    [i \in GoodPlaces(endpoints) |->
        FromDict(endpoints[i], Cardinality({j \in GoodPlaces(endpoints) : j <= i}))]

\* The good ones, in the order of their places.
LoadClusters(endpoints) == [i \in GoodPlaces(endpoints) |-> FromDict(endpoints[i], i)]

==============================================================================
