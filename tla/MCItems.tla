------------------------------ MODULE MCItems ------------------------------
(* Two comments of one thread, and a post of a watched site on a red line. *)
EXTENDS Items

MCAddressOf == [p1 |-> "u1", p2 |-> "u2", s |-> "u3"]
MCAuthorOf  == [p1 |-> "ann", p2 |-> "bob", s |-> "none"]
MCThreadOf  == [p1 |-> "t1", p2 |-> "t1", s |-> "t2"]
MCKind      == [p1 |-> "plain", p2 |-> "plain", s |-> "redLine"]
=============================================================================
