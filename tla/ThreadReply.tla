---------------------------- MODULE ThreadReply ----------------------------
(***************************************************************************)
(* What Reddit posting promises of a thread, without drafts, ledger rows,  *)
(* callers or clocks: it is answered at most once, only while an attempt   *)
(* is on record, and the record of an attempt is closed as answered or     *)
(* given back as what it was. The one way out: an attempt given up while   *)
(* its reply could still come, after which nothing is promised.            *)
(***************************************************************************)
CONSTANT Threads

VARIABLES
  replies,  \* how many replies each thread has
  record    \* what the account knows: "free", "open", "answered" or "lapsed"

vars == <<replies, record>>

Init ==
  /\ replies = [t \in Threads |-> 0]
  /\ record  = [t \in Threads |-> "free"]

\* An attempt begins; only a thread without a reply is free for one.
Open(t) ==
  /\ record[t] = "free" /\ replies[t] = 0
  /\ record' = [record EXCEPT ![t] = "open"]
  /\ UNCHANGED replies

\* Reddit publishes it, at once, late, or after a crash of the caller.
Reply(t) ==
  /\ record[t] = "open" /\ replies[t] = 0
  /\ replies' = [replies EXCEPT ![t] = 1]
  /\ UNCHANGED record

\* The reply is seen: for good.
Confirm(t) ==
  /\ record[t] = "open" /\ replies[t] = 1
  /\ record' = [record EXCEPT ![t] = "answered"]
  /\ UNCHANGED replies

\* The attempt is known to have failed, or to be absent.
Release(t) ==
  /\ record[t] = "open" /\ replies[t] = 0
  /\ record' = [record EXCEPT ![t] = "free"]
  /\ UNCHANGED replies

\* The attempt is given up with its request still on the way.
Lapse(t) ==
  /\ record[t] = "open" /\ replies[t] = 0
  /\ record' = [record EXCEPT ![t] = "lapsed"]
  /\ UNCHANGED replies

Next == \E t \in Threads : Open(t) \/ Reply(t) \/ Confirm(t) \/ Release(t) \/ Lapse(t)

Spec == Init /\ [][Next]_vars
=============================================================================
