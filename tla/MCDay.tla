------------------------------- MODULE MCDay -------------------------------
(***************************************************************************)
(* Two days of three hours, of which the digest's is the last and the      *)
(* first day skips it.  One item is routed to a role, another to the       *)
(* founder, and at most one of them is found in a behaviour: items do not  *)
(* affect each other.                                                      *)
(***************************************************************************)
EXTENDS Day

CONSTANTS i1, i2

MCHours(d, hours) == [k \in 1 .. Len(hours) |-> [day |-> d, hour |-> hours[k]]]
MCLocal == MCHours(1, <<0, 1, 3>>) \o MCHours(2, <<0, 1, 2>>)

MCRoute == [i \in Items |-> IF i = i1 THEN Roles ELSE {Founder}]

OneItemFound == \A i, j \in Items : item[i].verdict > 0 /\ item[j].verdict > 0 => i = j

MCSpec == DayInit /\ [][DayNext /\ OneItemFound']_dayVars
=============================================================================
