---------------------------- MODULE MCHostLinkSync ----------------------------
(***************************************************************************)
(* HostLinkSync with two VMs, either of which may be protected by groups   *)
(* of two clusters, and two hosts.                                         *)
(***************************************************************************)
EXTENDS HostLinkSync, TLC

CONSTANTS alpha, beta, east, west

TwoHosts == {alpha, beta}

TwoClusters == <<east, west>>

\* The second host is a VM that may be reinstalled as the other one.
HostSerials == (alpha :> {NoUuid, 1}) @@ (beta :> {NoUuid, 1, 2})

\* The first VM may be protected by either group, the second by the second one.
SomeLinks == {[uuid |-> 1, group |-> 1], [uuid |-> 1, group |-> 2], [uuid |-> 2, group |-> 2]}

==============================================================================
