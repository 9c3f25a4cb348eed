------------------------------ MODULE MCBudget ------------------------------
(* Values for the constants of Budget. *)
EXTENDS Budget

CONSTANTS r1, r2, alice, bob, acme, bu, bo, bx

\* alice and bob send one request each; bu is alice's own budget, bo that of
\* their organization.
mc_UserOf    == [r \in Requests |-> IF r = r1 THEN alice ELSE bob]
mc_Alice     == [r \in Requests |-> alice]
mc_Scope     == [b \in Budgets |-> IF b = bo THEN "organization" ELSE "user"]
mc_Ref       == [b \in Budgets |-> IF b = bo THEN acme ELSE alice]
mc_Amount    == [b \in Budgets |-> 2]
mc_OnExhaust == [b \in Budgets |-> IF b = bx THEN "warn" ELSE "block"]
mc_Period1   == [b \in Budgets |-> 1]
mc_NoTimer   == [b \in Budgets |-> 0]
mc_Timer1    == [b \in Budgets |-> IF b = bu THEN 1 ELSE 0]
mc_Org       == [u \in Users |-> acme]
=============================================================================
