------------------------------- MODULE MCDelivery -------------------------------
(* Instances of Delivery for TLC. *)
EXTENDS Delivery

CONSTANTS h1

Connectivity == <<h1, "connectivity">>
Disk == <<h1, "disk">>

\* one host with two conditions
TwoConditions == {Connectivity, Disk}
OneCondition == {Disk}
OnlyConnectivity == {Connectivity}

\* every event; the alerts without their ends
Subscribed == {States, {"opened"}}

===============================================================================
