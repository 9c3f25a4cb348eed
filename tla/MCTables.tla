------------------------------ MODULE MCTables ------------------------------
(***************************************************************************)
(* Three rows at the start and room for a fourth, pages of two.            *)
(***************************************************************************)
EXTENDS Tables
=============================================================================
