---------------------------- MODULE MCSiteWatch ----------------------------
(***************************************************************************)
(* Instances of SiteWatch: two pages, one of two blocks and one of one.    *)
(***************************************************************************)
EXTENDS SiteWatch, TLC

CONSTANTS u1, u2, b1, b2, b3

MCPageOf == b1 :> u1 @@ b2 :> u1 @@ b3 :> u2
=============================================================================
