----------------------------- MODULE MCDelivery -----------------------------
(***************************************************************************)
(* An instance of Delivery with two keys, of which any one is used: keys    *)
(* affect each other only through the time they cost a pass or a digest,   *)
(* which is free in Delivery.                                               *)
(***************************************************************************)
EXTENDS Delivery

OneKeyUsed == \A j, k \in Keys : row[j] # NoRow /\ row[k] # NoRow => j = k

MCSpec == Init /\ [][Next /\ OneKeyUsed']_vars /\ Fairness
=============================================================================
