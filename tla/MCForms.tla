------------------------------ MODULE MCForms ------------------------------
(***************************************************************************)
(* Two rows, one of them the administrator, and creations of up to two.    *)
(***************************************************************************)
EXTENDS Forms
=============================================================================
