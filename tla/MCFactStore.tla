---------------------------- MODULE MCFactStore ----------------------------
(* FactStore with two workers, for TLC. *)
EXTENDS FactStore, TLC

CONSTANTS w1, w2, k1, k2, v1, v2, tag

MCWorkers == {w1, w2}
MCFactKeys == {k1, k2}
MCValues == {v1, v2}
MCConfidences == {1, 2}
MCTags == {tag}
MCSymmetry == Permutations(MCWorkers) \union Permutations(MCFactKeys)
                \union Permutations(MCValues)
=============================================================================
