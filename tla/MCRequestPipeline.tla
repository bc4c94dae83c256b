------------------------- MODULE MCRequestPipeline --------------------------
(* Two requests of one client at one worker, in a window of two seconds.     *)
EXTENDS RequestPipeline, TLC

Symmetry == Permutations(Requests)

MCFailures ==
    {[kind |-> "none", reason |-> "unknown", status |-> 0],
     [kind |-> "operation", reason |-> "upstream", status |-> 0],
     [kind |-> "domain", reason |-> "validation", status |-> 0]}
=============================================================================
