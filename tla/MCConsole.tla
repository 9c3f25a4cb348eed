------------------------------ MODULE MCConsole ------------------------------
(***************************************************************************)
(* An account of each role; every page, visited with every session.        *)
(***************************************************************************)
EXTENDS ConsolePages
=============================================================================
