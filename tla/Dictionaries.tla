---------------------------- MODULE Dictionaries ----------------------------
(***************************************************************************)
(* Dictionaries as functions: the operators @@ and :> of the module TLC,   *)
(* which there have no definition that a prover may expand.                *)
(***************************************************************************)

\* The items of d, and those of e under the keys that d does not have.
d @@ e == [k \in DOMAIN d \union DOMAIN e |-> IF k \in DOMAIN d THEN d[k] ELSE e[k]]

k :> v == [i \in {k} |-> v]
=============================================================================
