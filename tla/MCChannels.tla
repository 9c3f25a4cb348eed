----------------------------- MODULE MCChannels -----------------------------
(* Values for the constants of Channels: two groups with one model each. *)
EXTENDS Channels, TLC

CONSTANTS c1, c2, j1, j2, k1, k2, g1, g2

mc_GroupOf    == [k \in Keys |-> IF k = k1 THEN g1 ELSE g2]
mc_Priorities == {0, 1}
mc_BothOrOne  == {{k1}, {k1, k2}}
mc_Symmetry   == Permutations(Jobs) \cup Permutations(ChannelIds)
=============================================================================
