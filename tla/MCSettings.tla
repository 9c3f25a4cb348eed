----------------------------- MODULE MCSettings -----------------------------
(***************************************************************************)
(* One section of each kind of every settings page, two handlers under way.*)
(***************************************************************************)
EXTENDS Settings
=============================================================================
