------------------------- MODULE MCScalingoRequest -------------------------
(* ScalingoRequest with two callers and the two regions of the settings. *)
EXTENDS ScalingoRequest, TLC

CONSTANTS r1, r2, osc_fr1, osc_secnum_fr1

MCRequests == {r1, r2}
MCRegions == {osc_fr1, osc_secnum_fr1}
MCSymmetry == Permutations(MCRequests) \union Permutations(MCRegions)
=============================================================================
