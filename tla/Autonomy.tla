------------------------------ MODULE Autonomy ------------------------------
(***************************************************************************)
(* How AHA comes to post without asking (aha/responder/autonomy.ts). For   *)
(* each pair of source and category, approvals of unchanged drafts add to  *)
(* a streak; a streak that is long enough is suggested to the owner, who   *)
(* may confirm level L2; an edit, an ignored draft or a complaint takes    *)
(* level and streak away at once.                                          *)
(*                                                                         *)
(* The gateway runs the tools, each decision a transaction; the worker     *)
(* writes drafts and reads the level before it approves one itself, in     *)
(* a transaction that does not read the level again. Of the delivery of a  *)
(* suggestion only its status is kept (Delivery), of a post only whether   *)
(* it failed (RedditPosting).                                              *)
(***************************************************************************)
EXTENDS Naturals

CONSTANTS
  Pairs,      \* source and category
  Posting,    \* the pairs of POSTING_SOURCES
  Listed,     \* those of the categories in L2_WHITELIST
  Drafts,     \* the places of drafts; an item that is done with leaves its place
  PairOf,     \* the pair of a place's items
  Gateways,   \* calls of tools
  None,
  Streak      \* L2_STREAK

ASSUME AutonomyAssumption ==
  /\ Posting \subseteq Pairs /\ Listed \subseteq Pairs
  /\ PairOf \in [Drafts -> Pairs] /\ None \notin Pairs \union Drafts
  /\ Streak \in Nat \ {0}

VARIABLES
  row,      \* the table autonomy
  draft,    \* the table drafts: state and edited
  call,     \* the suggestion that an aha_approve is to send
  notice,   \* the delivery of the key autonomy:<source>:<category>
  worker,   \* the draft stage
  touched,  \* ghost: drafts whose text a person changed
  clean,    \* ghost: approvals of untouched drafts since the last correction
  asked,    \* ghost: suggestions since the last correction
  heard     \* ghost: the owner was told of the last suggestion

ghosts == <<touched, clean, asked, heard>>
vars   == <<row, draft, call, notice, worker, ghosts>>

Lowest == [level |-> "L1", streak |-> 0, suggested |-> FALSE]
Idle   == [pc |-> "idle", item |-> None]

TypeOK ==
  /\ row \in [Pairs -> [level : {"L1", "L2"}, streak : 0 .. Streak, suggested : BOOLEAN]]
  /\ draft \in [Drafts -> [state : {"none", "pending", "approved", "ignored"}, edited : BOOLEAN]]
  /\ call \in [Gateways -> Pairs \union {None}]
  /\ notice \in [Pairs -> {"none", "sent", "failed", "uncertain"}]
  /\ worker \in [pc : {"idle", "model", "level", "approve", "post"}, item : Drafts \union {None}]
  /\ touched \subseteq Drafts /\ clean \in [Pairs -> 0 .. Streak]
  /\ asked \in [Pairs -> 0 .. 2] /\ heard \in [Pairs -> BOOLEAN]
  /\ worker.pc # "idle" => worker.item \in Drafts
  /\ worker.pc = "post" => draft[worker.item].state = "approved"

Init ==
  /\ row = [p \in Pairs |-> Lowest]
  /\ draft = [d \in Drafts |-> [state |-> "none", edited |-> FALSE]]
  /\ call = [g \in Gateways |-> None] /\ notice = [p \in Pairs |-> "none"]
  /\ worker = Idle
  /\ touched = {} /\ clean = [p \in Pairs |-> 0]
  /\ asked = [p \in Pairs |-> 0] /\ heard = [p \in Pairs |-> FALSE]

\* A streak beyond the limit is as good as the limit.
More(n, max) == IF n < max THEN n + 1 ELSE max

-----------------------------------------------------------------------------
(***************************************************************************)
(* The tools.                                                              *)
(***************************************************************************)
\* The claim of a draft: an UPDATE of the row if it is still pending.
Open(d) == draft[d].state = "pending"

\* aha_approve, up to recordDecision; the policy is the check of RedditPosting.
Approval(d) ==
  /\ Open(d)
  /\ clean' = IF d \in touched THEN clean ELSE [clean EXCEPT ![PairOf[d]] = More(@, Streak)]
  /\ UNCHANGED <<notice, worker, touched>>

\* At L2 nothing is counted.
ApproveTrusted(d) ==
  /\ row[PairOf[d]].level = "L2"
  /\ Approval(d)
  /\ draft' = [draft EXCEPT ![d].state = "approved"]
  /\ UNCHANGED <<row, call, asked, heard>>

\* Nor is a draft that was edited, or the source of which AHA never posts to.
Counts(d) == ~ draft[d].edited /\ PairOf[d] \in Posting

ApproveUncounted(d) ==
  /\ row[PairOf[d]].level # "L2" /\ ~ Counts(d)
  /\ Approval(d)
  /\ draft' = [draft EXCEPT ![d] = [state |-> "approved", edited |-> FALSE]]
  /\ row' = [row EXCEPT ![PairOf[d]].level = "L1"]
  /\ UNCHANGED <<call, asked, heard>>

Suggest_Again(r) == r.streak + 1 >= Streak
Suggest(r) == r.streak + 1 >= Streak /\ ~ r.suggested

ApproveCounted(g, d) ==
  LET p == PairOf[d] IN
  /\ call[g] = None
  /\ row[p].level # "L2" /\ Counts(d)
  /\ Approval(d)
  /\ draft' = [draft EXCEPT ![d].state = "approved"]
  /\ row' = [row EXCEPT ![p] = [level |-> "L1", streak |-> More(row[p].streak, Streak),
                                suggested |-> row[p].suggested \/ Suggest(row[p])]]
  /\ IF Suggest(row[p])
     THEN /\ call' = [call EXCEPT ![g] = p]
          /\ asked' = [asked EXCEPT ![p] = More(@, 2)] /\ heard' = [heard EXCEPT ![p] = FALSE]
     ELSE UNCHANGED <<call, asked, heard>>

\* sendToChat under a key that has no date.
Tell(g) ==
  LET p == call[g] IN
  /\ p # None
  /\ call' = [call EXCEPT ![g] = None]
  /\ \/ notice[p] \in {"sent", "uncertain"} /\ UNCHANGED <<notice, heard>>
     \/ /\ notice[p] # "sent"
        /\ \/ notice' = [notice EXCEPT ![p] = "sent"] /\ heard' = [heard EXCEPT ![p] = TRUE]
           \/ notice' = [notice EXCEPT ![p] = "failed"] /\ UNCHANGED heard
           \/ /\ notice' = [notice EXCEPT ![p] = "uncertain"]
              /\ \E arrived \in BOOLEAN : heard' = [heard EXCEPT ![p] = @ \/ arrived]
  /\ UNCHANGED <<row, draft, worker, touched, clean, asked>>

\* retryUncertainDeliveries, in the worker.
Settle(p) ==
  /\ notice[p] = "uncertain"
  /\ \/ notice' = [notice EXCEPT ![p] = "sent"] /\ heard' = [heard EXCEPT ![p] = TRUE]
     \/ notice' = [notice EXCEPT ![p] = "failed"] /\ UNCHANGED heard
  /\ UNCHANGED <<row, draft, call, worker, touched, clean, asked>>

\* demote
Demoted_LevelOnly(r) == [r EXCEPT !.level = "L1", !.streak = 0]
Demoted(r) == Lowest

Correct(p) ==
  /\ row' = [row EXCEPT ![p] = Demoted(row[p])]
  /\ clean' = [clean EXCEPT ![p] = 0] /\ asked' = [asked EXCEPT ![p] = 0]
  /\ heard' = [heard EXCEPT ![p] = FALSE]
  /\ UNCHANGED <<call, notice, worker>>

\* aha_edit may leave the text as it is.
Edit(d, changed) ==
  /\ Open(d)
  /\ Correct(PairOf[d])
  /\ draft' = [draft EXCEPT ![d].edited = TRUE]
  /\ touched' = IF changed THEN touched \union {d} ELSE touched

\* aha_ignore claims it in the same way.
Ignorable(d) == Open(d)

Ignore(d) ==
  /\ Ignorable(d)
  /\ Correct(PairOf[d])
  /\ draft' = [draft EXCEPT ![d].state = "ignored"]
  /\ UNCHANGED touched

\* aha_complaint, about any draft.
Complain(d) ==
  /\ draft[d].state # "none"
  /\ Correct(PairOf[d])
  /\ UNCHANGED <<draft, touched>>

\* aha_autonomy_confirm
Confirmable(p) ==
  /\ p \in Posting /\ p \in Listed
  /\ row[p].suggested \/ row[p].streak >= Streak

Confirm(p) ==
  /\ Confirmable(p)
  /\ row' = [row EXCEPT ![p].level = "L2", ![p].suggested = FALSE]
  /\ UNCHANGED <<draft, call, notice, worker, ghosts>>

-----------------------------------------------------------------------------
(***************************************************************************)
(* The worker: draftReply, itemAutonomy and the transaction that approves, *)
(* with the gateway's statements between them, and postReply.              *)
(***************************************************************************)
Goto(pc) == worker' = [worker EXCEPT !.pc = pc]
Finish   == worker' = Idle

\* An item without an active draft; the place's last item had one.
StartDraft(d) ==
  /\ worker.pc = "idle" /\ draft[d].state # "pending"
  /\ worker' = [pc |-> "model", item |-> d]
  /\ draft' = [draft EXCEPT ![d] = [state |-> "none", edited |-> FALSE]]
  /\ touched' = touched \ {d}
  /\ UNCHANGED <<row, call, notice, clean, asked, heard>>

NoDraft ==
  /\ worker.pc = "model"
  /\ Finish
  /\ UNCHANGED <<row, draft, call, notice, ghosts>>

StoreDraft ==
  /\ worker.pc = "model"
  /\ draft' = [draft EXCEPT ![worker.item].state = "pending"]
  /\ Goto("level")
  /\ UNCHANGED <<row, call, notice, ghosts>>

\* itemAutonomy; below L2 the draft waits for a person.
Automatic(p) == row[p].level = "L2" /\ p \in Listed /\ p \in Posting

ReadLevel ==
  /\ worker.pc = "level"
  /\ IF Automatic(PairOf[worker.item]) THEN Goto("approve") ELSE Finish
  /\ UNCHANGED <<row, draft, call, notice, ghosts>>

\* The transaction, under the same policy as a person's approval.
Unchanged(d) == Open(d) /\ d \notin touched

AutoApprove ==
  /\ worker.pc = "approve" /\ Unchanged(worker.item)
  /\ draft' = [draft EXCEPT ![worker.item].state = "approved"]
  /\ Goto("post")
  /\ UNCHANGED <<row, call, notice, ghosts>>

\* The policy refuses, or the draft has changed.
LeaveToPeople ==
  /\ worker.pc = "approve"
  /\ Finish
  /\ UNCHANGED <<row, draft, call, notice, ghosts>>

Posted ==
  /\ worker.pc = "post"
  /\ Finish
  /\ UNCHANGED <<row, draft, call, notice, ghosts>>

PostFails ==
  /\ worker.pc = "post"
  /\ draft' = [draft EXCEPT ![worker.item].state = "pending"]
  /\ Finish
  /\ UNCHANGED <<row, call, notice, ghosts>>

-----------------------------------------------------------------------------
\* The container stops; what was in memory is gone.
Crash ==
  /\ worker' = Idle /\ call' = [g \in Gateways |-> None]
  /\ UNCHANGED <<row, draft, notice, ghosts>>

Tools ==
  \/ \E d \in Drafts :
       \/ ApproveTrusted(d) \/ ApproveUncounted(d)
       \/ \E g \in Gateways : ApproveCounted(g, d)
       \/ \E changed \in BOOLEAN : Edit(d, changed)
       \/ Ignore(d) \/ Complain(d)
  \/ \E p \in Pairs : Confirm(p)
  \/ \E g \in Gateways : Tell(g)

Stage ==
  \/ \E d \in Drafts : StartDraft(d)
  \/ NoDraft \/ StoreDraft \/ ReadLevel \/ AutoApprove \/ LeaveToPeople \/ Posted \/ PostFails

Next == Tools \/ Stage \/ (\E p \in Pairs : Settle(p)) \/ Crash

Spec == Init /\ [][Next]_vars

-----------------------------------------------------------------------------
(***************************************************************************)
(* Properties.                                                             *)
(***************************************************************************)
\* Level L2 rests on approvals of unchanged drafts, as many as L2_STREAK since
\* the last edit, ignored draft or complaint, whoever confirmed it and when.
TrustIsEarned == \A p \in Pairs : row[p].level = "L2" => clean[p] = Streak

\* A streak is suggested once: approvals that go on, or that follow a
\* confirmation, do not ask the owner again.
SuggestedOnce == \A p \in Pairs : asked[p] <= 1

\* The worker approves a draft itself only while its pair is at L2.
AutomaticOnlyAtL2 ==
  [][worker.pc = "approve" /\ worker'.pc = "post" => Automatic(PairOf[worker.item])]_vars

\* A suggestion that stands and that the store has as sent was told.
SuggestionsReachOwner ==
  \A p \in Pairs :
    (/\ row[p].suggested /\ notice[p] = "sent"
     /\ \A g \in Gateways : call[g] # p) => heard[p]
=============================================================================
