--------------------------- MODULE MCRelayBilling ---------------------------
(* Values for the constants of RelayBilling. *)
EXTENDS RelayBilling

CONSTANTS r1, r2, u1, t1, t2, s1, s2

\* Both requests of one user, through one limited token.
mc_TokenOf   == [r \in Requests |-> t1]
\* The second request through an unlimited token of the same user.
mc_TokenOf2  == [r \in Requests |-> IF r = r1 THEN t1 ELSE t2]
mc_OwnerOf   == [t \in Tokens |-> u1]
\* One bill lies between the two estimates.
mc_Estimate  == [r \in Requests |-> IF r = r1 THEN 2 ELSE 4]
mc_Quota6    == [x \in Users |-> 6]
mc_Token3    == [t \in Tokens |-> 3]
\* One call saves the user's row, one the limited token's.
mc_RowOf     == [s \in Saves |-> IF s = s1 THEN u1 ELSE t1]
=============================================================================
