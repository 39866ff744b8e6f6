-------------------------- MODULE MCClassification --------------------------
(***************************************************************************)
(* Instances of Classification.                                            *)
(***************************************************************************)
EXTENDS Classification, TLC

CONSTANTS worker, t1

MCTools == {t1}
MCIds   == {1}
=============================================================================
