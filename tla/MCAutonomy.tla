----------------------------- MODULE MCAutonomy -----------------------------
(***************************************************************************)
(* Instances of Autonomy: a pair that may reach L2 and one of a category   *)
(* that may not.                                                           *)
(***************************************************************************)
EXTENDS Autonomy, TLC

CONSTANTS d1, d2, d3

MCPairOf == d1 :> "question" @@ d2 :> "question" @@ d3 :> "bug"

Symmetry == Permutations({d1, d2})
=============================================================================
