-------------------------------- MODULE Sums --------------------------------
(***************************************************************************)
(* What a function adds up to over some of its arguments, as the size of a *)
(* set that has f[i] units for each i.  The folds of the library compute   *)
(* the same; this definition is one that the theorems about cardinalities  *)
(* speak of.                                                               *)
(***************************************************************************)
EXTENDS Naturals, FiniteSets

Units(f, S) == UNION {{i} \X (1 .. f[i]) : i \in S}

SumOver(f, S) == Cardinality(Units(f, S))
=============================================================================
