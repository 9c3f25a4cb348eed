---------------------------- MODULE MCUserAccess ----------------------------
(* Requests and operations of one user on two instances.                   *)
EXTENDS UserAccess

CONSTANTS alice, n1, n2, r1, r2, admin1, admin2, self1

mcUserOf == [r \in Requests |-> alice]
mcNodeOf == [x \in Requests \cup Jobs |-> IF x \in {r2, admin2} THEN n2 ELSE n1]

mcBothModes == BOOLEAN
mcWithRedis == {TRUE}

=============================================================================
