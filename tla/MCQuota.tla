------------------------------- MODULE MCQuota -------------------------------
(* Small instances of QuotaGate: whose requests they are. *)
EXTENDS QuotaGate, TLC

CONSTANTS g1, g2, v1, ann

OwnerHere == [r \in Requests |-> ann]
KindHere == [r \in Requests |-> IF r = v1 THEN "view" ELSE "generate"]
=============================================================================
