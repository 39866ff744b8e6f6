----------------------------- MODULE MCPromises -----------------------------
(***************************************************************************)
(* Instances of Promises: a topic with too few mentions before, one that   *)
(* halved, and one that did not or turned urgent.                          *)
(***************************************************************************)
EXTENDS Promises

MCOwnerOf == [d \in Deals |-> "ana"]

Reading(before, after, high, role) ==
  [before |-> before, after |-> after, high |-> high, role |-> role]

MCCounts == {Reading(2, 1, FALSE, "bug"), Reading(4, 2, FALSE, "bug"), Reading(4, 2, TRUE, "ask")}
=============================================================================
