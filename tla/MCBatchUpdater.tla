--------------------------- MODULE MCBatchUpdater ---------------------------
(* Values for the constants of BatchUpdater. *)
EXTENDS BatchUpdater

CONSTANTS w1, w2, i1, i2

mc_Values == {-1, 2}
=============================================================================
