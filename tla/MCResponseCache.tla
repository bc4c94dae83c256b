--------------------------- MODULE MCResponseCache ---------------------------
(* Two keys, one stored with two tags or with none, the other with one, a     *)
(* filler, a writer and two cleanup threads.                                  *)
EXTENDS ResponseCache

CONSTANTS k1, k2, t1, t2, p1, p2

MCPathTag == [k \in {k1, k2} |-> IF k = k1 THEN t1 ELSE t2]
MCTagSets == [k \in {k1, k2} |-> IF k = k1 THEN {{t1, t2}, {}} ELSE {{t2}}]
MCPrefixes == {{k1}, {k1, k2}}
=============================================================================
