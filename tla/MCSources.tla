----------------------------- MODULE MCSources -----------------------------
(***************************************************************************)
(* Instances of Sources: one source that may page in every way, with two   *)
(* mentions that both of its segments list, and one that lists nothing.    *)
(***************************************************************************)
EXTENDS Sources, TLC

CONSTANTS a, b

MCOrder      == <<a, b>>
MCKinds      == a :> {"numbered", "created", "updated", "fixed"} @@ b :> {"fixed"}
MCSegments   == a :> 2 @@ b :> 1
MCSourceOf   == 1 :> a @@ 2 :> a
MCSegmentsOf == 1 :> {1, 2} @@ 2 :> {1, 2}
=============================================================================
