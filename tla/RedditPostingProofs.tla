------------------------ MODULE RedditPostingProofs ------------------------
(***************************************************************************)
(* What RedditPosting promises, proved: types, then the thread lock, then  *)
(* the texts and what is known of an attempt in doubt, and last that a     *)
(* thread implements ThreadReply. Each invariant rests on those before it. *)
(***************************************************************************)
EXTENDS RedditPosting, TLAPS, FiniteSetTheorems

-----------------------------------------------------------------------------
(***************************************************************************)
(* Types of RedditPosting. TypeOK alone is not inductive: that a caller's  *)
(* rows are in the ledger's domain needs CallShape, that a caller in       *)
(* postReply has an item, and that only one in "sent" is on the wire.      *)
(***************************************************************************)

\* A caller with a draft in hand has an item; a request on the wire has a caller
\* waiting for it.
CallShape ==
  \A c \in Callers :
    /\ call[c].pc \in Posting \union {"drafted"} => call[c].item \in Items
    /\ call[c].wire = "sent" => call[c].pc = "sent"

\* The inductive invariant behind TypeOK.
Shape == TypeOK /\ CallShape

\* The initial values are in the ranges of the clock, the bodies and the days.
LEMMA ZeroInRange == 0 \in Time /\ 0 \in Bodies /\ 0 \in Days
<1>1. 0 \in Time /\ 0 \in Bodies
  BY TimeAssumption DEF Time, Bodies
<1>2. Day(0) = 0
  BY TimeAssumption DEF Day
<1> QED
  BY <1>1, <1>2 DEF Days

\* The record of an idle caller has the type of calls.
LEMMA IdleIsCall == Idle \in CallType
  BY ZeroInRange DEF Idle, CallType, Stages, Outcomes

\* Calls are typed and well shaped.
CallOK == call \in [Callers -> CallType] /\ CallShape

\* Which stages run postReply and which do not.
LEMMA StageNames ==
  /\ Posting \subseteq Stages
  /\ {"idle", "drafting", "drafted", "listing", "resolving"} \subseteq Stages
  /\ {"approved", "claimed", "sent", "verify", "finPost", "finThread", "finEvent", "revert"} \subseteq Posting
  /\ Posting \intersect {"idle", "drafting", "drafted", "listing", "resolving"} = {}
  BY DEF Stages, Posting, Waiting

\* Updating one caller to a well-shaped record.
LEMMA OneCall ==
  ASSUME CallOK, NEW c \in Callers, NEW r \in CallType,
         r.pc \in Posting \union {"drafted"} => r.item \in Items,
         r.wire = "sent" => r.pc = "sent",
         call' = [call EXCEPT ![c] = r]
  PROVE  CallOK'
  BY DEF CallOK, CallShape

\* Moving a caller to another stage of postReply keeps the calls well shaped.
LEMMA GotoCall ==
  ASSUME CallOK, NEW c \in Callers, NEW stage \in Posting, Goto(c, stage),
         call[c].pc \in Posting \ {"sent"}
  PROVE  CallOK'
<1> DEFINE r == [call[c] EXCEPT !.pc = stage]
<1>1. call[c] \in CallType /\ call[c].item \in Items /\ call[c].wire # "sent"
  BY DEF CallOK, CallShape
<1>2. r \in CallType /\ r.item = call[c].item /\ r.wire = call[c].wire
  BY <1>1, StageNames DEF CallType
<1>3. call' = [call EXCEPT ![c] = r]
  BY DEF Goto, CallOK
<1> QED
  BY <1>1, <1>2, <1>3, OneCall

\* So does noting the outcome it is about to record,
LEMMA RecordCall ==
  ASSUME CallOK, NEW c \in Callers, NEW o \in Outcomes, Record(c, o), call[c].pc \in Posting
  PROVE  CallOK'
<1> DEFINE r == [call[c] EXCEPT !.pc = "finPost", !.out = o, !.wire = "none"]
<1>1. call[c] \in CallType /\ call[c].item \in Items
  BY DEF CallOK, CallShape
<1>2. r \in CallType /\ r.item = call[c].item /\ r.wire = "none"
  BY <1>1, StageNames DEF CallType
<1>3. call' = [call EXCEPT ![c] = r]
  BY DEF Record, CallOK
<1> QED
  BY <1>1, <1>2, <1>3, OneCall

\* and so does its return from postReply.
LEMMA ReturnCall ==
  ASSUME CallOK, NEW c \in Callers, NEW o, Return(c, o), call[c].pc \in Posting
  PROVE  CallOK'
<1> DEFINE r == AfterPost(c, Unsent(o))
<1>1. call[c] \in CallType /\ call[c].item \in Items
  BY DEF CallOK, CallShape
<1>2. r \in CallType /\ r.wire = "none"
      /\ (r.pc \in Posting \union {"drafted"} => r.item = call[c].item)
  BY <1>1, StageNames, IdleIsCall DEF AfterPost, CallType, Idle
<1>3. call' = [call EXCEPT ![c] = r]
  BY DEF Return, CallOK
<1> QED
  BY <1>1, <1>2, <1>3, OneCall

\* So does doubting an outcome that another caller left.
LEMMA SuspectCall ==
  ASSUME CallOK, NEW c \in Callers, Suspect(c), call[c].pc = "approved"
  PROVE  CallOK'
<1> DEFINE r == [call[c] EXCEPT !.pc = "finEvent", !.out = "uncertain"]
<1>1. call[c] \in CallType /\ call[c].item \in Items /\ call[c].wire # "sent"
  BY StageNames DEF CallOK, CallShape
<1>2. r \in CallType /\ r.item = call[c].item /\ r.wire = call[c].wire
  BY <1>1, StageNames DEF CallType, Outcomes
<1>3. call' = [call EXCEPT ![c] = r]
  BY DEF Suspect, CallOK
<1> QED
  BY <1>1, <1>2, <1>3, OneCall

\* What the type of calls says of each field.
LEMMA CallFields ==
  ASSUME CallOK, NEW c \in Callers
  PROVE  /\ call[c] \in CallType
         /\ call[c].item \in Items \union {NoItem}
         /\ call[c].pc \in Posting \union {"drafted"} => call[c].item \in Items
         /\ call[c].day \in Days /\ call[c].text \in Bodies /\ call[c].at \in Time
         /\ call[c].out \in Outcomes
  BY DEF CallOK, CallShape, CallType

\* Every time has its day.
LEMMA DayOfTime == \A t \in Time : Day(t) \in Days
  BY DEF Days

\* Entering postReply gives a well-shaped call.
LEMMA BeginCall ==
  ASSUME NEW i \in Items, NEW kind \in {"auto", "approve", "retry"}, NEW t \in Time
  PROVE  /\ Begin(i, kind, t) \in CallType
         /\ Begin(i, kind, t).pc = "approved" /\ Begin(i, kind, t).item = i
         /\ Begin(i, kind, t).wire = "none"
  BY IdleIsCall, DayOfTime, StageNames DEF Begin, CallType, Idle

\* A worker that drafts has a well-shaped call.
LEMMA DraftingCall ==
  ASSUME NEW t \in Time
  PROVE  LET r == [Idle EXCEPT !.pc = "drafting", !.at = t]
         IN  r \in CallType /\ r.pc = "drafting" /\ r.wire = "none"
  BY IdleIsCall, StageNames DEF CallType, Idle

\* Marking a call as a tick old keeps its type.
LEMMA OldCall ==
  ASSUME NEW r \in CallType, NEW P
  PROVE  [r EXCEPT !.old = r.pc \in P] \in CallType
<1>1. \A b \in BOOLEAN : [r EXCEPT !.old = b] \in CallType
  BY DEF CallType
<1>2. (r.pc \in P) \in BOOLEAN
  OBVIOUS
<1> QED
  BY <1>1, <1>2, Zenon

\* A comment published under an item keeps the type of comments.
LEMMA AppendComment ==
  ASSUME NEW f \in [Items -> Seq([body : Bodies, at : Time])], NEW i,
         NEW b \in Bodies, NEW t \in Time
  PROVE  [f EXCEPT ![i] = Append(f[i], [body |-> b, at |-> t])]
           \in [Items -> Seq([body : Bodies, at : Time])]
<1> DEFINE R == [body : Bodies, at : Time]
<1>1. [body |-> b, at |-> t] \in R
  OBVIOUS
<1>2. ASSUME NEW s \in Seq(R), NEW e \in R PROVE Append(s, e) \in Seq(R)
  OBVIOUS
<1> HIDE DEF R
<1>3. \A j \in Items : Append(f[j], [body |-> b, at |-> t]) \in Seq(R)
  BY <1>1, <1>2 DEF R
<1> QED
  BY <1>3 DEF R

\* Every step of the system keeps types and shape.
LEMMA NextShape == Shape /\ [Next]_vars => Shape'
<1> SUFFICES ASSUME Shape, [Next]_vars PROVE Shape'
  OBVIOUS
<1>0. TypeOK /\ CallOK
  BY DEF Shape, TypeOK, CallOK
<1> USE <1>0, ZeroInRange, DayOfTime, StageNames
<1>1. ASSUME NEW c \in Callers, PostRefused(c) PROVE Shape'
  <2>1. CallOK'
    BY <1>1, ReturnCall DEF PostRefused
  <2>2. post' \in [Items -> [Days -> LedgerStates]]
    BY <1>1, CallFields DEF PostRefused, LedgerStates, Never, TypeOK, draftVars, eventVars, ledgerVars
  <2>3. claimedAt' \in [Items -> [Days -> Time \union {Never}]]
    BY <1>1, CallFields DEF PostRefused, LedgerStates, Never, TypeOK, draftVars, eventVars, ledgerVars
  <2>4. thread' \in [Threads -> LedgerStates]
    BY <1>1, CallFields DEF PostRefused, LedgerStates, Never, TypeOK, draftVars, eventVars, ledgerVars
  <2>5. reservedBy' \in [Threads -> Items \union {NoItem}]
    BY <1>1, CallFields DEF PostRefused, LedgerStates, Never, TypeOK, draftVars, eventVars, ledgerVars
  <2>6. TypeOK'
    BY <1>1, <2>1, <2>2, <2>3, <2>4, <2>5 DEF PostRefused, LedgerStates, Never, CallOK, TypeOK, draftVars, eventVars, ledgerVars
  <2> QED
    BY <2>1, <2>6 DEF Shape, CallOK
<1>2. ASSUME NEW c \in Callers, ClaimFreezes(c) PROVE Shape'
  <2>1. CallOK'
    BY <1>2, SuspectCall DEF ClaimFreezes
  <2>2. post' \in [Items -> [Days -> LedgerStates]]
    BY <1>2, CallFields DEF ClaimFreezes, LedgerStates, Never, TypeOK, draftVars, eventVars, ledgerVars
  <2>3. thread' \in [Threads -> LedgerStates]
    BY <1>2, CallFields DEF ClaimFreezes, LedgerStates, Never, TypeOK, draftVars, eventVars, ledgerVars
  <2>4. TypeOK'
    BY <1>2, <2>1, <2>2, <2>3 DEF ClaimFreezes, LedgerStates, Never, CallOK, TypeOK, draftVars, eventVars, ledgerVars
  <2> QED
    BY <2>1, <2>4 DEF Shape, CallOK
<1>3. ASSUME NEW c \in Callers, ClaimUncertain(c) PROVE Shape'
  <2>1. CallOK'
    BY <1>3, SuspectCall DEF ClaimUncertain
  <2>2. TypeOK'
    BY <1>3, <2>1 DEF ClaimUncertain, CallOK, TypeOK, draftVars, eventVars, ledgerVars
  <2> QED
    BY <2>1, <2>2 DEF Shape, CallOK
<1>4. ASSUME NEW c \in Callers, ClaimRefused(c) PROVE Shape'
  <2>1. CallOK'
    BY <1>4, ReturnCall DEF ClaimRefused
  <2>2. TypeOK'
    BY <1>4, <2>1 DEF ClaimRefused, CallOK, TypeOK, draftVars, eventVars, ledgerVars
  <2> QED
    BY <2>1, <2>2 DEF Shape, CallOK
<1>5. ASSUME NEW c \in Callers, ClaimOwned(c) PROVE Shape'
  <2>1. CallOK'
    <3> DEFINE r == [call[c] EXCEPT !.pc = "claimed", !.text = body[call[c].item]]
    <3>1. call[c] \in CallType /\ call[c].item \in Items /\ body[call[c].item] \in Bodies
          /\ call[c].wire # "sent"
      BY <1>5, CallFields DEF ClaimOwned, TypeOK, CallOK, CallShape
    <3>2. r \in CallType /\ r.item = call[c].item /\ r.wire = call[c].wire
      BY <3>1 DEF CallType
    <3>3. call' = [call EXCEPT ![c] = r]
      BY <1>5 DEF ClaimOwned, CallOK
    <3> QED
      BY <3>1, <3>2, <3>3, OneCall
  <2>2. post' \in [Items -> [Days -> LedgerStates]]
    BY <1>5, CallFields DEF ClaimOwned, LedgerStates, Never, TypeOK, draftVars, eventVars, ledgerVars
  <2>3. claimedAt' \in [Items -> [Days -> Time \union {Never}]]
    BY <1>5, CallFields DEF ClaimOwned, LedgerStates, Never, TypeOK, draftVars, eventVars, ledgerVars
  <2>4. thread' \in [Threads -> LedgerStates]
    BY <1>5, CallFields DEF ClaimOwned, LedgerStates, Never, TypeOK, draftVars, eventVars, ledgerVars
  <2>5. reservedBy' \in [Threads -> Items \union {NoItem}]
    BY <1>5, CallFields DEF ClaimOwned, LedgerStates, Never, TypeOK, draftVars, eventVars, ledgerVars
  <2>6. TypeOK'
    BY <1>5, <2>1, <2>2, <2>3, <2>4, <2>5 DEF ClaimOwned, LedgerStates, Never, CallOK, TypeOK, draftVars, eventVars, ledgerVars
  <2> QED
    BY <2>1, <2>6 DEF Shape, CallOK
<1>6. ASSUME NEW c \in Callers, Send(c) PROVE Shape'
  <2>1. CallOK'
    <3> DEFINE r == [call[c] EXCEPT !.pc = "sent", !.wire = "sent"]
    <3>1. call[c] \in CallType /\ call[c].item \in Items
      BY <1>6, CallFields DEF Send
    <3>2. r \in CallType /\ r.item = call[c].item /\ r.pc = "sent"
      BY <3>1 DEF CallType
    <3>3. call' = [call EXCEPT ![c] = r]
      BY <1>6 DEF Send, CallOK
    <3> QED
      BY <3>1, <3>2, <3>3, OneCall
  <2>2. TypeOK'
    BY <1>6, <2>1 DEF Send, CallOK, TypeOK, draftVars, eventVars, ledgerVars
  <2> QED
    BY <2>1, <2>2 DEF Shape, CallOK
<1>7. ASSUME NEW c \in Callers, NEW o \in {"failed", "uncertain"}, TokenFails(c, o) PROVE Shape'
  <2>1. CallOK'
    BY <1>7, RecordCall DEF TokenFails, Outcomes
  <2>2. TypeOK'
    BY <1>7, <2>1 DEF TokenFails, CallOK, TypeOK, draftVars, eventVars, ledgerVars
  <2> QED
    BY <2>1, <2>2 DEF Shape, CallOK
<1>8. ASSUME NEW c \in Callers, RespPosted(c) PROVE Shape'
  <2>1. CallOK'
    BY <1>8, RecordCall DEF RespPosted, Outcomes
  <2>2. TypeOK'
    BY <1>8, <2>1 DEF RespPosted, CallOK, TypeOK, draftVars, eventVars, ledgerVars
  <2> QED
    BY <2>1, <2>2 DEF Shape, CallOK
<1>9. ASSUME NEW c \in Callers, RespRefused(c) PROVE Shape'
  <2>1. CallOK'
    BY <1>9, RecordCall DEF RespRefused, Outcomes
  <2>2. TypeOK'
    BY <1>9, <2>1 DEF RespRefused, CallOK, TypeOK, draftVars, eventVars, ledgerVars
  <2> QED
    BY <2>1, <2>2 DEF Shape, CallOK
<1>10. ASSUME NEW c \in Callers, RespUnknown(c) PROVE Shape'
  <2>1. CallOK'
    BY <1>10, RecordCall DEF RespUnknown, AfterUnknown, Outcomes
  <2>2. limbo' \subseteq [item : Items, body : Bodies]
    BY <1>10, CallFields DEF RespUnknown, AfterUnknown, TypeOK, draftVars, eventVars, ledgerVars
  <2>3. TypeOK'
    BY <1>10, <2>1, <2>2 DEF RespUnknown, AfterUnknown, CallOK, TypeOK, draftVars, eventVars, ledgerVars
  <2> QED
    BY <2>1, <2>3 DEF Shape, CallOK
<1>11. ASSUME NEW c \in Callers, FinishPost(c) PROVE Shape'
  <2>1. CallOK'
    BY <1>11, GotoCall DEF FinishPost
  <2>2. post' \in [Items -> [Days -> LedgerStates]]
    BY <1>11, CallFields DEF FinishPost, Outcomes, LedgerStates, Never, TypeOK, draftVars, eventVars, ledgerVars
  <2>3. TypeOK'
    BY <1>11, <2>1, <2>2 DEF FinishPost, Outcomes, LedgerStates, Never, CallOK, TypeOK, draftVars, eventVars, ledgerVars
  <2> QED
    BY <2>1, <2>3 DEF Shape, CallOK
<1>12. ASSUME NEW c \in Callers, FinishThread(c) PROVE Shape'
  <2>1. CallOK'
    BY <1>12, GotoCall DEF FinishThread
  <2>2. thread' \in [Threads -> LedgerStates]
    BY <1>12, CallFields DEF FinishThread, Outcomes, LedgerStates, Never, TypeOK, draftVars, eventVars, ledgerVars
  <2>3. TypeOK'
    BY <1>12, <2>1, <2>2 DEF FinishThread, Outcomes, LedgerStates, Never, CallOK, TypeOK, draftVars, eventVars, ledgerVars
  <2> QED
    BY <2>1, <2>3 DEF Shape, CallOK
<1>13. ASSUME NEW c \in Callers, FinishEvent(c) PROVE Shape'
  <2>1. CallOK'
    <3>1. CASE call[c].out = "posted"
      BY <1>13, <3>1, GotoCall DEF FinishEvent
    <3>2. CASE call[c].out # "posted"
      BY <1>13, <3>2, ReturnCall DEF FinishEvent
    <3> QED
      BY <3>1, <3>2
  <2>2. uncertainAt' \in [Items -> Time \union {Never}]
    BY <1>13, CallFields DEF FinishEvent, Never, TypeOK, draftVars, eventVars, ledgerVars
  <2>3. TypeOK'
    BY <1>13, <2>1, <2>2 DEF FinishEvent, Never, CallOK, TypeOK, draftVars, eventVars, ledgerVars
  <2> QED
    BY <2>1, <2>3 DEF Shape, CallOK
<1>14. ASSUME NEW c \in Callers, Verified(c) PROVE Shape'
  <2>1. CallOK'
    BY <1>14, RecordCall DEF Verified, Outcomes
  <2>2. TypeOK'
    BY <1>14, <2>1 DEF Verified, CallOK, TypeOK, draftVars, eventVars, ledgerVars
  <2> QED
    BY <2>1, <2>2 DEF Shape, CallOK
<1>15. ASSUME NEW c \in Callers, NotVerified(c) PROVE Shape'
  <2>1. CallOK'
    BY <1>15, ReturnCall DEF NotVerified, Unverified
  <2>2. TypeOK'
    BY <1>15, <2>1 DEF NotVerified, Unverified, CallOK, TypeOK, draftVars, eventVars, ledgerVars
  <2> QED
    BY <2>1, <2>2 DEF Shape, CallOK
<1>16. ASSUME NEW c \in Callers, Land(c) PROVE Shape'
  <2>1. CallOK'
    <3> DEFINE r == [call[c] EXCEPT !.wire = "landed"]
    <3>1. call[c] \in CallType /\ call[c].item \in Items
      BY <1>16, CallFields DEF Land
    <3>2. r \in CallType /\ r.item = call[c].item /\ r.wire = "landed"
      BY <3>1 DEF CallType
    <3>3. call' = [call EXCEPT ![c] = r]
      BY <1>16 DEF Land, CallOK
    <3> QED
      BY <3>1, <3>2, <3>3, OneCall
  <2>2. comments' \in [Items -> Seq([body : Bodies, at : Time])]
    <3>1. call[c].text \in Bodies /\ now \in Time /\ comments \in [Items -> Seq([body : Bodies, at : Time])]
      BY <1>16, CallFields DEF Land, TypeOK
    <3>2. comments' = [comments EXCEPT ![call[c].item] = Append(comments[call[c].item], [body |-> call[c].text, at |-> now])]
      BY <1>16 DEF Land, Publish
    <3> QED
      BY <3>1, <3>2, AppendComment
  <2>3. TypeOK'
    BY <1>16, <2>1, <2>2 DEF Land, Publish, CallOK, TypeOK, draftVars, eventVars, ledgerVars
  <2> QED
    BY <2>1, <2>3 DEF Shape, CallOK
<1>17. ASSUME NEW r \in limbo, LimboLands(r) PROVE Shape'
  <2>1. CallOK'
    BY <1>17 DEF LimboLands, CallOK, CallShape
  <2>2. comments' \in [Items -> Seq([body : Bodies, at : Time])]
    <3>1. r.body \in Bodies /\ now \in Time /\ comments \in [Items -> Seq([body : Bodies, at : Time])]
      BY <1>17, CallFields DEF LimboLands, TypeOK
    <3>2. comments' = [comments EXCEPT ![r.item] = Append(comments[r.item], [body |-> r.body, at |-> now])]
      BY <1>17 DEF LimboLands, Publish
    <3> QED
      BY <3>1, <3>2, AppendComment
  <2>3. limbo' \subseteq [item : Items, body : Bodies]
    BY <1>17, CallFields DEF LimboLands, Publish, TypeOK, draftVars, eventVars, ledgerVars
  <2>4. TypeOK'
    BY <1>17, <2>1, <2>2, <2>3 DEF LimboLands, Publish, CallOK, TypeOK, draftVars, eventVars, ledgerVars
  <2> QED
    BY <2>1, <2>4 DEF Shape, CallOK
<1>18. ASSUME NEW r \in limbo, LimboLost(r) PROVE Shape'
  <2>1. CallOK'
    BY <1>18 DEF LimboLost, CallOK, CallShape
  <2>2. TypeOK'
    BY <1>18, <2>1 DEF LimboLost, CallOK, TypeOK, draftVars, eventVars, ledgerVars
  <2> QED
    BY <2>1, <2>2 DEF Shape, CallOK
<1>19. ASSUME StartDrafts PROVE Shape'
  <2>1. CallOK'
    <3> DEFINE r == [Idle EXCEPT !.pc = "drafting", !.at = now]
    <3>1. call[Worker] \in CallType /\ Worker \in Callers
      BY CallFields DEF Callers
    <3>2. r \in CallType /\ r.wire # "sent"
          /\ (r.pc \in Posting \union {"drafted"} => r.item \in Items)
      BY <1>19, <3>1, IdleIsCall DEF StartDrafts, CallType, TypeOK, Idle
    <3>3. call' = [call EXCEPT ![Worker] = r]
      BY <1>19 DEF StartDrafts, CallOK
    <3> QED
      BY <3>1, <3>2, <3>3, OneCall
  <2>2. TypeOK'
    BY <1>19, <2>1 DEF StartDrafts, CallOK, TypeOK, draftVars, eventVars, ledgerVars
  <2> QED
    BY <2>1, <2>2 DEF Shape, CallOK
<1>20. ASSUME NEW i \in Items, NEW auto \in BOOLEAN, DraftReply(i, auto) PROVE Shape'
  <2>1. CallOK'
    <3> DEFINE r == [call[Worker] EXCEPT !.pc = "drafted", !.item = i, !.text = body[i]]
    <3>1. call[Worker] \in CallType /\ Worker \in Callers
      BY CallFields DEF Callers
    <3>2. CASE auto
      <4>1. r \in CallType /\ r.item \in Items /\ r.wire = call[Worker].wire
        BY <3>1 DEF CallType, TypeOK
      <4>2. call' = [call EXCEPT ![Worker] = r] /\ r.wire # "sent"
        BY <1>20, <3>1, <3>2, <4>1 DEF DraftReply, CallOK, CallShape
      <4> QED
        BY <3>1, <4>1, <4>2, OneCall
    <3>3. CASE ~ auto
      BY <1>20, <3>3 DEF DraftReply, CallOK, CallShape
    <3> QED
      BY <3>2, <3>3
  <2>2. draft' \in [Items -> {"none", "pending", "approved", "ignored"}]
    <3>1. draft' = [draft EXCEPT ![i] = "pending"]
      BY <1>20 DEF DraftReply
    <3> QED
      BY <3>1 DEF TypeOK
  <2>3. TypeOK'
    BY <1>20, <2>1, <2>2 DEF DraftReply, CallOK, TypeOK, draftVars, eventVars, ledgerVars
  <2> QED
    BY <2>1, <2>3 DEF Shape, CallOK
<1>21. ASSUME AutoApprove PROVE Shape'
  <2>1. CallOK'
    <3> DEFINE w == call[Worker]
               r1 == Begin(w.item, "auto", w.at)
               r2 == [Idle EXCEPT !.pc = "drafting", !.at = w.at]
    <3>1. Worker \in Callers /\ w.at \in Time /\ w.item \in Items
      BY <1>21, CallFields DEF Callers, AutoApprove
    <3>2. r1 \in CallType /\ r1.item \in Items /\ r1.wire # "sent"
      BY <3>1, BeginCall
    <3>3. r2 \in CallType /\ r2.pc = "drafting" /\ r2.wire # "sent"
      BY <3>1, DraftingCall
    <3>4. call' = [call EXCEPT ![Worker] = r1] \/ call' = [call EXCEPT ![Worker] = r2]
      BY <1>21 DEF AutoApprove
    <3> QED
      BY <3>1, <3>2, <3>3, <3>4, OneCall
  <2>2. draft' \in [Items -> {"none", "pending", "approved", "ignored"}]
    BY <1>21, CallFields DEF AutoApprove, ApproveDraft, TypeOK, draftVars, eventVars, ledgerVars
  <2>3. okBody' \in [Items -> Bodies \union {Never}]
    <3> DEFINE w == call[Worker]
    <3>1. w.text \in Bodies /\ w.at \in Time
      BY CallFields DEF Callers
    <3>2. okBody' = [okBody EXCEPT ![w.item] = w.text] \/ okBody' = okBody
      BY <1>21 DEF AutoApprove, ApproveDraft, draftVars
    <3> QED
      BY <3>1, <3>2 DEF TypeOK
  <2>4. approvedAt' \in [Items -> Time \union {Never}]
    <3> DEFINE w == call[Worker]
    <3>1. w.text \in Bodies /\ w.at \in Time
      BY CallFields DEF Callers
    <3>2. approvedAt' = [approvedAt EXCEPT ![w.item] = w.at] \/ approvedAt' = approvedAt
      BY <1>21 DEF AutoApprove, ApproveDraft, draftVars
    <3> QED
      BY <3>1, <3>2 DEF TypeOK
  <2>5. body' \in [Items -> Bodies]
    BY <1>21, CallFields DEF AutoApprove, ApproveDraft, TypeOK, draftVars, eventVars, ledgerVars
  <2>6. TypeOK'
    BY <1>21, <2>1, <2>2, <2>3, <2>4, <2>5 DEF AutoApprove, ApproveDraft, CallOK, TypeOK, draftVars, eventVars, ledgerVars
  <2> QED
    BY <2>1, <2>6 DEF Shape, CallOK
<1>22. ASSUME EndDrafts PROVE Shape'
  <2>1. CallOK'
    <3> DEFINE r == Idle
    <3>1. call[Worker] \in CallType /\ Worker \in Callers
      BY CallFields DEF Callers
    <3>2. r \in CallType /\ r.wire # "sent"
          /\ (r.pc \in Posting \union {"drafted"} => r.item \in Items)
      BY <1>22, <3>1, IdleIsCall DEF EndDrafts, CallType, TypeOK, Idle
    <3>3. call' = [call EXCEPT ![Worker] = r]
      BY <1>22 DEF EndDrafts, CallOK
    <3> QED
      BY <3>1, <3>2, <3>3, OneCall
  <2>2. TypeOK'
    BY <1>22, <2>1 DEF EndDrafts, CallOK, TypeOK, draftVars, eventVars, ledgerVars
  <2> QED
    BY <2>1, <2>2 DEF Shape, CallOK
<1>23. ASSUME Revert PROVE Shape'
  <2>1. CallOK'
    <3> DEFINE r == [Idle EXCEPT !.pc = "drafting", !.at = call[Worker].at]
    <3>1. call[Worker] \in CallType /\ Worker \in Callers
      BY CallFields DEF Callers
    <3>2. r \in CallType /\ r.wire # "sent"
          /\ (r.pc \in Posting \union {"drafted"} => r.item \in Items)
      BY <1>23, <3>1, IdleIsCall DEF Revert, CallType, TypeOK, Idle
    <3>3. call' = [call EXCEPT ![Worker] = r]
      BY <1>23 DEF Revert, CallOK
    <3> QED
      BY <3>1, <3>2, <3>3, OneCall
  <2>2. draft' \in [Items -> {"none", "pending", "approved", "ignored"}]
    <3>1. draft' = [draft EXCEPT ![call[Worker].item] = "pending"] \/ draft' = draft
      BY <1>23 DEF Revert, draftVars
    <3> QED
      BY <3>1 DEF TypeOK
  <2>3. okBody' \in [Items -> Bodies \union {Never}]
    BY <1>23, CallFields DEF Revert, TypeOK, draftVars, eventVars, ledgerVars
  <2>4. approvedAt' \in [Items -> Time \union {Never}]
    BY <1>23, CallFields DEF Revert, TypeOK, draftVars, eventVars, ledgerVars
  <2>5. body' \in [Items -> Bodies]
    BY <1>23, CallFields DEF Revert, TypeOK, draftVars, eventVars, ledgerVars
  <2>6. TypeOK'
    BY <1>23, <2>1, <2>2, <2>3, <2>4, <2>5 DEF Revert, CallOK, TypeOK, draftVars, eventVars, ledgerVars
  <2> QED
    BY <2>1, <2>6 DEF Shape, CallOK
<1>24. ASSUME NEW g \in Gateways, NEW i \in Items, Approve(g, i) PROVE Shape'
  <2>1. CallOK'
    <3>1. g \in Callers /\ now \in Time
      BY DEF Callers, TypeOK
    <3> DEFINE r == Begin(i, "approve", now)
    <3>2. r \in CallType /\ r.item = i /\ r.wire # "sent"
      BY <3>1, BeginCall
    <3>3. call' = [call EXCEPT ![g] = r]
      BY <1>24 DEF Approve
    <3> QED
      BY <3>1, <3>2, <3>3, OneCall
  <2>2. draft' \in [Items -> {"none", "pending", "approved", "ignored"}]
    BY <1>24, CallFields DEF Approve, ApproveDraft, RecordReady, LedgerStates, Never, TypeOK, draftVars, eventVars, ledgerVars
  <2>3. okBody' \in [Items -> Bodies \union {Never}]
    BY <1>24, CallFields DEF Approve, ApproveDraft, RecordReady, LedgerStates, Never, TypeOK, draftVars, eventVars, ledgerVars
  <2>4. approvedAt' \in [Items -> Time \union {Never}]
    BY <1>24, CallFields DEF Approve, ApproveDraft, RecordReady, LedgerStates, Never, TypeOK, draftVars, eventVars, ledgerVars
  <2>5. post' \in [Items -> [Days -> LedgerStates]]
    BY <1>24, CallFields DEF Approve, ApproveDraft, RecordReady, LedgerStates, Never, TypeOK, draftVars, eventVars, ledgerVars
  <2>6. claimedAt' \in [Items -> [Days -> Time \union {Never}]]
    BY <1>24, CallFields DEF Approve, ApproveDraft, RecordReady, LedgerStates, Never, TypeOK, draftVars, eventVars, ledgerVars
  <2>7. thread' \in [Threads -> LedgerStates]
    BY <1>24, CallFields DEF Approve, ApproveDraft, RecordReady, LedgerStates, Never, TypeOK, draftVars, eventVars, ledgerVars
  <2>8. reservedBy' \in [Threads -> Items \union {NoItem}]
    BY <1>24, CallFields DEF Approve, ApproveDraft, RecordReady, LedgerStates, Never, TypeOK, draftVars, eventVars, ledgerVars
  <2>9. TypeOK'
    BY <1>24, <2>1, <2>2, <2>3, <2>4, <2>5, <2>6, <2>7, <2>8 DEF Approve, ApproveDraft, RecordReady, LedgerStates, Never, CallOK, TypeOK, draftVars, eventVars, ledgerVars
  <2> QED
    BY <2>1, <2>9 DEF Shape, CallOK
<1>25. ASSUME NEW g \in Gateways, NEW i \in Items, Retry(g, i) PROVE Shape'
  <2>1. CallOK'
    <3>1. g \in Callers /\ now \in Time /\ body[i] \in Bodies
      BY DEF Callers, TypeOK
    <3> DEFINE b == Begin(i, "retry", now)
               r == [b EXCEPT !.pc = "claimed", !.text = body[i]]
    <3>2. b \in CallType /\ b.item = i /\ b.wire # "sent"
      BY <3>1, BeginCall
    <3>3. r \in CallType /\ r.item = i /\ r.wire # "sent"
      BY <3>1, <3>2 DEF CallType
    <3>4. call' = [call EXCEPT ![g] = r]
      BY <1>25 DEF Retry
    <3> QED
      BY <3>1, <3>3, <3>4, OneCall
  <2>2. approvedAt' \in [Items -> Time \union {Never}]
    BY <1>25, CallFields DEF Retry, LedgerStates, Never, TypeOK, draftVars, eventVars, ledgerVars
  <2>3. post' \in [Items -> [Days -> LedgerStates]]
    BY <1>25, CallFields DEF Retry, LedgerStates, Never, TypeOK, draftVars, eventVars, ledgerVars
  <2>4. claimedAt' \in [Items -> [Days -> Time \union {Never}]]
    BY <1>25, CallFields DEF Retry, LedgerStates, Never, TypeOK, draftVars, eventVars, ledgerVars
  <2>5. thread' \in [Threads -> LedgerStates]
    BY <1>25, CallFields DEF Retry, LedgerStates, Never, TypeOK, draftVars, eventVars, ledgerVars
  <2>6. retried' \in [Items -> BOOLEAN]
    BY <1>25, CallFields DEF Retry, LedgerStates, Never, TypeOK, draftVars, eventVars, ledgerVars
  <2>7. TypeOK'
    BY <1>25, <2>1, <2>2, <2>3, <2>4, <2>5, <2>6 DEF Retry, LedgerStates, Never, CallOK, TypeOK, draftVars, eventVars, ledgerVars
  <2> QED
    BY <2>1, <2>7 DEF Shape, CallOK
<1>26. ASSUME NEW i \in Items, Edit(i) PROVE Shape'
  <2>1. CallOK'
    BY <1>26 DEF Edit, CallOK, CallShape
  <2>2. body' \in [Items -> Bodies]
    BY <1>26, TimeAssumption DEF Edit, Bodies, TypeOK
  <2>3. TypeOK'
    BY <1>26, <2>1, <2>2 DEF Edit, Bodies, CallOK, TypeOK, draftVars, eventVars, ledgerVars
  <2> QED
    BY <2>1, <2>3 DEF Shape, CallOK
<1>27. ASSUME NEW i \in Items, Ignore(i) PROVE Shape'
  <2>1. CallOK'
    BY <1>27 DEF Ignore, CallOK, CallShape
  <2>2. draft' \in [Items -> {"none", "pending", "approved", "ignored"}]
    BY <1>27, CallFields DEF Ignore, TypeOK, draftVars, eventVars, ledgerVars
  <2>3. TypeOK'
    BY <1>27, <2>1, <2>2 DEF Ignore, CallOK, TypeOK, draftVars, eventVars, ledgerVars
  <2> QED
    BY <2>1, <2>3 DEF Shape, CallOK
<1>28. ASSUME Pause PROVE Shape'
  <2>1. CallOK'
    BY <1>28 DEF Pause, CallOK, CallShape
  <2>2. TypeOK'
    BY <1>28, <2>1 DEF Pause, CallOK, TypeOK, draftVars, eventVars, ledgerVars
  <2> QED
    BY <2>1, <2>2 DEF Shape, CallOK
<1>29. ASSUME Resume PROVE Shape'
  <2>1. CallOK'
    BY <1>29 DEF Resume, CallOK, CallShape
  <2>2. TypeOK'
    BY <1>29, <2>1 DEF Resume, CallOK, TypeOK, draftVars, eventVars, ledgerVars
  <2> QED
    BY <2>1, <2>2 DEF Shape, CallOK
<1>30. ASSUME FreezeStale PROVE Shape'
  <2>1. CallOK'
    BY <1>30 DEF FreezeStale, CallOK, CallShape
  <2>2. post' \in [Items -> [Days -> LedgerStates]]
    BY <1>30, CallFields DEF FreezeStale, StaleKeys, Later, LedgerStates, Never, TypeOK, draftVars, eventVars, ledgerVars
  <2>3. thread' \in [Threads -> LedgerStates]
    BY <1>30, CallFields DEF FreezeStale, StaleKeys, Later, LedgerStates, Never, TypeOK, draftVars, eventVars, ledgerVars
  <2>4. uncertainAt' \in [Items -> Time \union {Never}]
    BY <1>30, CallFields DEF FreezeStale, StaleKeys, Later, LedgerStates, Never, TypeOK, draftVars, eventVars, ledgerVars
  <2>5. lapsed' \subseteq Threads
    <3>1. \A q \in limbo : ThreadOf[q.item] \in Threads
      BY ThreadsAssumption DEF TypeOK
    <3>2. PICK k \in StaleKeys :
            lapsed' = lapsed \union {ThreadOf[q.item] : q \in {x \in limbo : x.item = k[1]}}
      BY <1>30 DEF FreezeStale
    <3> QED
      BY <3>1, <3>2 DEF TypeOK
  <2>6. TypeOK'
    BY <1>30, <2>1, <2>2, <2>3, <2>4, <2>5 DEF FreezeStale, StaleKeys, Later, LedgerStates, Never, CallOK, TypeOK, draftVars, eventVars, ledgerVars
  <2> QED
    BY <2>1, <2>6 DEF Shape, CallOK
<1>31. ASSUME StartScan PROVE Shape'
  <2>1. CallOK'
    <3> DEFINE r == [Idle EXCEPT !.pc = "listing"]
    <3>1. Worker \in Callers
      BY DEF Callers
    <3>2. r \in CallType /\ r.pc = "listing" /\ r.wire # "sent"
      BY IdleIsCall DEF CallType, Idle
    <3>3. call' = call \/ call' = [call EXCEPT ![Worker] = r]
      BY <1>31 DEF StartScan
    <3>4. CASE call' = call
      BY <3>4 DEF CallOK, CallShape
    <3> QED
      BY <3>1, <3>2, <3>3, <3>4, OneCall
  <2>2. expired' \in [Items -> BOOLEAN]
    BY <1>31, CallFields DEF StartScan, PendingKeys, TypeOK, draftVars, eventVars, ledgerVars
  <2>3. scan' \in [todo : SUBSET (Items \X Days), ripe : SUBSET (Items \X Days),
                found : SUBSET (Items \X Days)]
    BY <1>31, CallFields DEF StartScan, PendingKeys, TypeOK, draftVars, eventVars, ledgerVars
  <2>4. TypeOK'
    BY <1>31, <2>1, <2>2, <2>3 DEF StartScan, PendingKeys, CallOK, TypeOK, draftVars, eventVars, ledgerVars
  <2> QED
    BY <2>1, <2>4 DEF Shape, CallOK
<1>32. ASSUME NEW found \in SUBSET scan.todo, NEW covers \in BOOLEAN, ScanListing(found, covers) PROVE Shape'
  <2>1. CallOK'
    <3> DEFINE r == [call[Worker] EXCEPT !.pc = "resolving"]
    <3>1. Worker \in Callers /\ call[Worker] \in CallType
      BY CallFields DEF Callers
    <3>2. Idle \in CallType /\ Idle.pc = "idle" /\ Idle.wire # "sent"
      BY IdleIsCall DEF Idle
    <3>3. r \in CallType /\ r.pc = "resolving" /\ r.wire # "sent"
      BY <1>32, <3>1 DEF ScanListing, CallType, CallOK, CallShape
    <3>4. call' = [call EXCEPT ![Worker] = Idle] \/ call' = [call EXCEPT ![Worker] = r]
      BY <1>32 DEF ScanListing, Goto, CallOK
    <3> QED
      BY <3>1, <3>2, <3>3, <3>4, OneCall
  <2>2. scan' \in [todo : SUBSET (Items \X Days), ripe : SUBSET (Items \X Days),
                found : SUBSET (Items \X Days)]
    BY <1>32, CallFields DEF ScanListing, Resolvable, NoScan, TypeOK, draftVars, eventVars, ledgerVars
  <2>3. TypeOK'
    BY <1>32, <2>1, <2>2 DEF ScanListing, Resolvable, NoScan, CallOK, TypeOK, draftVars, eventVars, ledgerVars
  <2> QED
    BY <2>1, <2>3 DEF Shape, CallOK
<1>33. ASSUME NEW k \in scan.todo, ScanResolve(k) PROVE Shape'
  <2>1. CallOK'
    <3>1. Worker \in Callers
      BY DEF Callers
    <3>2. Idle \in CallType /\ Idle.pc = "idle" /\ Idle.wire # "sent"
      BY IdleIsCall DEF Idle
    <3>3. call' = [call EXCEPT ![Worker] = Idle] \/ call' = call
      BY <1>33 DEF ScanResolve
    <3>4. CASE call' = call
      BY <3>4 DEF CallOK, CallShape
    <3> QED
      BY <3>1, <3>2, <3>3, <3>4, OneCall
  <2>2. post' \in [Items -> [Days -> LedgerStates]]
    BY <1>33, CallFields DEF ScanResolve, NoScan, LedgerStates, Never, TypeOK, draftVars, eventVars, ledgerVars
  <2>3. thread' \in [Threads -> LedgerStates]
    BY <1>33, CallFields DEF ScanResolve, NoScan, LedgerStates, Never, TypeOK, draftVars, eventVars, ledgerVars
  <2>4. scan' \in [todo : SUBSET (Items \X Days), ripe : SUBSET (Items \X Days),
                found : SUBSET (Items \X Days)]
    <3>1. scan' = NoScan \/ scan' = [scan EXCEPT !.todo = scan.todo \ {k}]
      BY <1>33 DEF ScanResolve
    <3>2. NoScan \in [todo : SUBSET (Items \X Days), ripe : SUBSET (Items \X Days),
                found : SUBSET (Items \X Days)]
      BY DEF NoScan
    <3>3. [scan EXCEPT !.todo = scan.todo \ {k}] \in [todo : SUBSET (Items \X Days), ripe : SUBSET (Items \X Days),
                found : SUBSET (Items \X Days)]
      BY DEF TypeOK
    <3> QED
      BY <3>1, <3>2, <3>3
  <2>5. TypeOK'
    BY <1>33, <2>1, <2>2, <2>3, <2>4 DEF ScanResolve, NoScan, LedgerStates, Never, CallOK, TypeOK, draftVars, eventVars, ledgerVars
  <2> QED
    BY <2>1, <2>5 DEF Shape, CallOK
<1>34. ASSUME Crash PROVE Shape'
  <2>1. CallOK'
    BY <1>34, IdleIsCall DEF Crash, CallOK, CallShape, Idle
  <2>2. limbo' \subseteq [item : Items, body : Bodies]
    BY <1>34, CallFields DEF Crash, NoScan, CallShape, CallOK, TypeOK, draftVars, eventVars, ledgerVars
  <2>3. scan' \in [todo : SUBSET (Items \X Days), ripe : SUBSET (Items \X Days),
                found : SUBSET (Items \X Days)]
    BY <1>34, CallFields DEF Crash, NoScan, CallShape, CallOK, TypeOK, draftVars, eventVars, ledgerVars
  <2>4. TypeOK'
    BY <1>34, <2>1, <2>2, <2>3 DEF Crash, NoScan, CallShape, CallOK, CallOK, TypeOK, draftVars, eventVars, ledgerVars
  <2> QED
    BY <2>1, <2>4 DEF Shape, CallOK
<1>35. ASSUME Tick PROVE Shape'
  <2>1. CallOK'
    <3>1. \A c \in Callers : [call[c] EXCEPT !.old = call[c].pc \in Posting] \in CallType
      BY CallFields, OldCall
    <3>2. call' \in [Callers -> CallType]
      BY <1>35, <3>1 DEF Tick
    <3>3. \A c \in Callers : /\ call'[c].pc = call[c].pc /\ call'[c].item = call[c].item
                            /\ call'[c].wire = call[c].wire
      BY <1>35, CallFields DEF Tick, CallType
    <3> QED
      BY <3>2, <3>3 DEF CallOK, CallShape
  <2>2. now' \in Time
    BY <1>35, TimeAssumption DEF Tick, Time, TypeOK
  <2>3. TypeOK'
    BY <1>35, <2>1, <2>2 DEF Tick, Time, CallOK, TypeOK, draftVars, eventVars, ledgerVars
  <2> QED
    BY <2>1, <2>3 DEF Shape, CallOK
<1>36. CASE UNCHANGED vars
  BY <1>36 DEF Shape, TypeOK, CallShape, vars, draftVars, eventVars, ledgerVars
<1> QED
  BY <1>1, <1>2, <1>3, <1>4, <1>5, <1>6, <1>7, <1>8, <1>9, <1>10, <1>11, <1>12, <1>13, <1>14, <1>15, <1>16, <1>17, <1>18, <1>19, <1>20, <1>21, <1>22, <1>23, <1>24, <1>25, <1>26, <1>27, <1>28, <1>29, <1>30, <1>31, <1>32, <1>33, <1>34, <1>35, <1>36 DEF Next, Caller, Reddit, Stage, Tool

\* The system starts well shaped.
LEMMA InitShape == Init => Shape
<1> SUFFICES ASSUME Init PROVE Shape
  OBVIOUS
<1>1. CallOK
  <2>1. Idle \in CallType /\ Idle.pc = "idle" /\ Idle.wire = "none"
    BY IdleIsCall DEF Idle
  <2> QED
    BY <2>1, StageNames DEF Init, CallOK, CallShape
<1>2. 0 \in Time /\ 0 \in Bodies
  BY ZeroInRange
<1>3. post \in [Items -> [Days -> LedgerStates]] /\ thread \in [Threads -> LedgerStates]
  BY DEF Init, LedgerStates
<1>4. comments \in [Items -> Seq([body : Bodies, at : Time])]
  BY DEF Init
<1>5. claimedAt \in [Items -> [Days -> Time \union {Never}]]
  BY DEF Init
<1>6. scan \in [todo : SUBSET (Items \X Days), ripe : SUBSET (Items \X Days),
               found : SUBSET (Items \X Days)]
  BY DEF Init, NoScan
<1>7. TypeOK
  BY <1>1, <1>2, <1>3, <1>4, <1>5, <1>6 DEF Init, CallOK, TypeOK
<1> QED
  BY <1>1, <1>7 DEF Shape, CallOK

\* Every variable keeps its type, for every value of the constants.
THEOREM TypeCorrect == Spec => []TypeOK
<1>1. Shape => TypeOK
  BY DEF Shape
<1> QED
  BY <1>1, InitShape, NextShape, PTL DEF Spec

-----------------------------------------------------------------------------
(***************************************************************************)
(* The thread lock of RedditPosting. IInv ties each caller's stage to its  *)
(* post row and its thread row; a step of a caller is framed (it moves one *)
(* caller and two rows), so what is left to show of it is what it does to  *)
(* its own rows. Reconciliation, the one actor that writes rows of others, *)
(* writes only those whose caller has left.                                *)
(***************************************************************************)

\* The inductive invariant with its types.
Inv == TypeOK /\ CallShape /\ IInv

\* What one caller's step does to the calls: it leaves, or goes on with its job.
Moves(c) ==
  /\ \A x \in Callers : x # c => call'[x] = call[x]
  /\ \/ call'[c].pc \notin Posting /\ (c \in Gateways => call'[c].pc = "idle")
     \/ /\ call'[c].pc \in Posting
        /\ call'[c].item = call[c].item /\ call'[c].day = call[c].day
        /\ call'[c].at = call[c].at /\ call'[c].kind = call[c].kind
        /\ c \in Gateways => call'[c].old = call[c].old

\* ... and to the ledger: its own two rows only, a row in doubt stays in doubt,
\* and a thread that another caller writes to is at most frozen.
OwnRows(c) ==
  LET i == call[c].item
      d == call[c].day
      t == ThreadOf[i]
  IN  /\ \A j \in Items : j # i => post'[j] = post[j]
      /\ \A e \in Days : e # d => post'[i][e] = post[i][e]
      /\ \A u \in Threads : u # t => thread'[u] = thread[u]
      /\ post[i][d] = "uncertain" => post'[i][d] = "uncertain"
      /\ \A x \in Callers : x # c /\ Writing(x) /\ ThreadOf[call[x].item] = t =>
           /\ thread'[t] = thread[t] \/ (thread[t] = "posting" /\ thread'[t] = "uncertain")
           /\ post'[i][d] \in Held => post[i][d] \in Held

Framed(c) ==
  /\ Working(c) /\ Moves(c) /\ OwnRows(c)
  /\ call'[c].pc \notin {"listing", "resolving"}
  /\ UNCHANGED <<draft, approvedAt, now, scan>>

\* A caller at work has an item, a day and a thread, and its rows say how far it is.
LEMMA ItemOfCall ==
  ASSUME Inv, NEW c \in Callers, Working(c)
  PROVE  /\ call[c].item \in Items /\ call[c].day \in Days /\ ThreadOf[call[c].item] \in Threads
         /\ PostKey(c) = post[call[c].item][call[c].day]
         /\ ThreadKey(c) = thread[ThreadOf[call[c].item]]
         /\ Progress(c)
  BY CallFields, ThreadsAssumption DEF Inv, IInv, Working, PostKey, ThreadKey, CallOK, TypeOK

\* A framed step keeps the callers' approvals and their items apart,
LEMMA CallersKept ==
  ASSUME Inv, NEW c \in Callers, Framed(c)
  PROVE  Approval' /\ OneCallerPerItem'
<1>1. Approval'
  BY DEF Inv, IInv, Moves, Framed, Approval, Working, Callers
<1>2. OneCallerPerItem'
  BY DEF Inv, IInv, Moves, Framed, OneCallerPerItem, Working
<1> QED
  BY <1>1, <1>2

\* leaves undecided drafts without a post and the rows of other days alone,
LEMMA RowsKept ==
  ASSUME Inv, NEW c \in Callers, Framed(c)
  PROVE  UndecidedUnposted' /\ AutoRows'
<1>1. call[c].item \in Items /\ call[c].day \in Days /\ draft[call[c].item] = "approved"
  BY ItemOfCall DEF Framed, Inv, IInv, Approval
<1>2. UndecidedUnposted'
  BY <1>1 DEF Inv, IInv, UndecidedUnposted, Framed, OwnRows
<1>3. CASE c = Worker
  BY <1>1, <1>2, <1>3 DEF Inv, IInv, AutoRows, Framed, OwnRows, Moves, Working
<1>4. CASE c # Worker
  <2>1. Worker \in Callers /\ call'[Worker] = call[Worker]
    BY <1>4 DEF Callers, Framed, Moves
  <2>2. Working(Worker) => call[Worker].item # call[c].item /\ call[Worker].item \in Items
    BY <1>4, <2>1, ItemOfCall DEF Inv, IInv, OneCallerPerItem, Framed
  <2> QED
    BY <1>2, <2>1, <2>2 DEF Inv, IInv, AutoRows, Framed, OwnRows, Working
<1> QED
  BY <1>2, <1>3, <1>4

\* takes nothing from under a reconciliation in progress,
LEMMA ScanKept ==
  ASSUME Inv, NEW c \in Callers, Framed(c)
  PROVE  ScanRows'
<1>1. \A x \in Callers : Working(x)' => Working(x) /\ call'[x].item = call[x].item
  BY DEF Framed, Moves, Working
<1>2. (Scanning' <=> Scanning) /\ (call'[Worker].pc = "resolving" <=> call[Worker].pc = "resolving")
  BY StageNames DEF Framed, Moves, Working, Scanning, Callers
<1>3. Doubted' = Doubted
  BY <1>2 DEF Doubted, Framed
<1>4. \A i \in Items : \A d \in Days : post[i][d] = "uncertain" => post'[i][d] = "uncertain"
  BY DEF Framed, OwnRows
<1>5. \A k \in scan.todo : k[1] \in Items /\ k[2] \in Days
  BY DEF Inv, TypeOK
<1> QED
  BY <1>1, <1>2, <1>3, <1>4, <1>5 DEF Inv, IInv, ScanRows, Framed

\* and leaves the rows of every other caller as its stage needs them.
LEMMA OthersProgress ==
  ASSUME Inv, NEW c \in Callers, Framed(c), NEW x \in Callers, x # c, Working(x)'
  PROVE  Progress(x)'
<1>1. Working(x) /\ call'[x] = call[x]
  BY DEF Framed, Moves, Working
<1>2. call[x].item # call[c].item
  BY <1>1 DEF Inv, IInv, OneCallerPerItem, Framed
<1>3. /\ call[x].item \in Items /\ call[x].day \in Days /\ ThreadOf[call[x].item] \in Threads
      /\ Progress(x)
  BY <1>1, ItemOfCall
<1>4. post'[call[x].item] = post[call[x].item] /\ PostKey(x)' = PostKey(x)
  BY <1>1, <1>2, <1>3 DEF Framed, OwnRows, PostKey
<1>5. CASE ~ Writing(x)
  BY <1>1, <1>3, <1>4, <1>5 DEF Progress, Writing, Sending, Confirmed, AtThread, AtEvent
<1>6. CASE Writing(x) /\ ThreadOf[call[x].item] # ThreadOf[call[c].item]
  <2>1. ThreadKey(x)' = ThreadKey(x)
    BY <1>1, <1>3, <1>6 DEF ThreadKey, Framed, OwnRows
  <2>2. \A i \in Items : ThreadOf[i] = ThreadOf[call[x].item] => post'[i] = post[i]
    BY <1>6 DEF Framed, OwnRows
  <2> QED
    BY <1>1, <1>3, <1>4, <2>1, <2>2 DEF Progress, Rows, Sending, Confirmed, AtThread, AtEvent
<1>7. CASE Writing(x) /\ ThreadOf[call[x].item] = ThreadOf[call[c].item]
  <2>1. ThreadKey(x)' = ThreadKey(x) \/ (ThreadKey(x) = "posting" /\ ThreadKey(x)' = "uncertain")
    BY <1>1, <1>3, <1>7 DEF ThreadKey, Framed, OwnRows
  <2>2. \A i \in Items : \A d \in Days : post'[i][d] \in Held => post[i][d] \in Held
    BY <1>1, <1>7 DEF Framed, OwnRows
  <2> QED
    BY <1>1, <1>3, <1>4, <2>1, <2>2 DEF Progress, Rows, Sending, Confirmed, AtThread, AtEvent
<1> QED
  BY <1>5, <1>6, <1>7

\* All that is left to show of a caller's step.
LEMMA CallerStep ==
  ASSUME Inv, NEW c \in Callers, Framed(c), OneHeldPost', HeldThread',
         Working(c)' => Progress(c)',
         Writing(c)' => Writing(c) \/ \A x \in Callers : x # c /\ Writing(x) =>
                                        ThreadOf[call[x].item] # ThreadOf[call[c].item]
  PROVE  IInv'
<1>1. OneWriterPerThread'
  <2>1. \A x \in Callers : x # c => (Writing(x)' <=> Writing(x)) /\ call'[x].item = call[x].item
    BY DEF Framed, Moves, Writing, Sending, Confirmed
  <2>2. Writing(c)' => call'[c].item = call[c].item
    BY StageNames DEF Framed, Moves, Writing, Sending, Confirmed, Posting
  <2> QED
    BY <2>1, <2>2 DEF Inv, IInv, OneWriterPerThread
<1> QED
  BY <1>1, CallersKept, RowsKept, ScanKept, OthersProgress DEF IInv

\* How a caller leaves postReply, records an outcome, or goes to its next stage.
LEMMA ReturnMoves ==
  ASSUME Inv, NEW c \in Callers, Working(c), NEW o, Return(c, o)
  PROVE  /\ Moves(c) /\ call'[c].pc \in {"idle", "drafting", "revert"}
         /\ call'[c].pc = "revert" => c = Worker /\ Unsent(o) /\ call'[c].item = call[c].item
<1>1. /\ call' = [call EXCEPT ![c] = AfterPost(c, Unsent(o))]
      /\ call \in [Callers -> CallType]
      /\ call[c].kind = "auto" <=> c = Worker
  BY DEF Return, Inv, TypeOK, IInv, Approval
<1>2. c \in Gateways => c # Worker
  BY CallersAssumption
<1>3. CASE call[c].kind # "auto"
  BY <1>1, <1>3, StageNames DEF AfterPost, Moves, Idle
<1>4. CASE call[c].kind = "auto" /\ Unsent(o)
  <2> DEFINE r == [call[c] EXCEPT !.pc = "revert", !.wire = "none", !.old = FALSE]
  <2>1. r.pc = "revert" /\ r.item = call[c].item /\ r.day = call[c].day
        /\ r.at = call[c].at /\ r.kind = call[c].kind /\ call[c].old \in BOOLEAN
    BY <1>1 DEF CallType
  <2> QED
    BY <1>1, <1>2, <1>4, <2>1, StageNames DEF AfterPost, Moves
<1>5. CASE call[c].kind = "auto" /\ ~ Unsent(o)
  BY <1>1, <1>2, <1>5, StageNames DEF AfterPost, Moves, Idle
<1> QED
  BY <1>3, <1>4, <1>5

\* A caller that has an outcome keeps its job and goes on to record it.
LEMMA RecordMoves ==
  ASSUME Inv, NEW c \in Callers, NEW o, Record(c, o)
  PROVE  /\ Moves(c) /\ call'[c].pc = "finPost" /\ call'[c].out = o
         /\ call'[c].item = call[c].item /\ call'[c].day = call[c].day
  BY StageNames DEF Record, Moves, Inv, TypeOK, CallType

\* A caller that doubts what another one left goes on to note it.
LEMMA SuspectMoves ==
  ASSUME Inv, NEW c \in Callers, Suspect(c)
  PROVE  /\ Moves(c) /\ call'[c].pc = "finEvent" /\ call'[c].out = "uncertain"
         /\ call'[c].item = call[c].item /\ call'[c].day = call[c].day
         /\ call'[c].at = call[c].at /\ call'[c].old = call[c].old
<1>1. call[c] \in CallType /\ call' = [call EXCEPT ![c].pc = "finEvent", ![c].out = "uncertain"]
  BY DEF Suspect, Inv, TypeOK
<1> DEFINE r == [call[c] EXCEPT !.pc = "finEvent", !.out = "uncertain"]
<1>2. /\ r.pc = "finEvent" /\ r.out = "uncertain" /\ r.item = call[c].item /\ r.day = call[c].day
      /\ r.at = call[c].at /\ r.kind = call[c].kind /\ r.old = call[c].old
  BY <1>1 DEF CallType
<1>3. call'[c] = r /\ \A x \in Callers : x # c => call'[x] = call[x]
  BY <1>1 DEF Inv, TypeOK
<1> HIDE DEF r
<1> QED
  BY <1>2, <1>3, StageNames DEF Moves

\* A caller that only changes its stage keeps its job.
LEMMA GotoMoves ==
  ASSUME Inv, NEW c \in Callers, NEW stage \in Posting, Goto(c, stage)
  PROVE  /\ Moves(c) /\ call'[c].pc = stage /\ call'[c].out = call[c].out
         /\ call'[c].item = call[c].item /\ call'[c].day = call[c].day
  BY DEF Goto, Moves, Inv, TypeOK, CallType

\* A step that leaves the ledger alone.
LEMMA QuietStep ==
  ASSUME Inv, NEW c \in Callers, Working(c), Moves(c),
         UNCHANGED <<post, thread, draft, approvedAt, now, scan>>,
         call'[c].pc \notin {"listing", "resolving"},
         Working(c)' => Progress(c)',
         Writing(c)' => Writing(c)
  PROVE  IInv'
<1>1. Framed(c)
  BY DEF Framed, OwnRows
<1>2. OneHeldPost' /\ HeldThread'
  BY DEF Inv, IInv, OneHeldPost, HeldThread
<1> QED
  BY <1>1, <1>2, CallerStep

\* postReply returns without having touched the ledger.
LEMMA QuietReturn ==
  ASSUME Inv, NEW c \in Callers, Working(c), NEW o, Return(c, o),
         UNCHANGED <<post, thread, draft, approvedAt, now, scan>>,
         c = Worker /\ Unsent(o) => \A d \in Days : post[call[c].item][d] \in Claimable
  PROVE  IInv'
<1>1. /\ Moves(c) /\ call'[c].pc \in {"idle", "drafting", "revert"}
      /\ call'[c].pc = "revert" => c = Worker /\ Unsent(o) /\ call'[c].item = call[c].item
  BY ReturnMoves
<1>2. ~ Writing(c)'
  BY <1>1 DEF Writing, Sending, Confirmed, Waiting
<1>3. Working(c)' => call'[c].pc = "revert"
  BY <1>1, StageNames DEF Working
<1>4. Working(c)' => Progress(c)'
  BY <1>1, <1>3 DEF Progress, Sending, Confirmed, AtThread, AtEvent, Waiting
<1> QED
  BY <1>1, <1>2, <1>4, StageNames, QuietStep

\* A caller notes the outcome of its request or of its verification.
LEMMA QuietRecord ==
  ASSUME Inv, NEW c \in Callers, Working(c), NEW o, Record(c, o),
         UNCHANGED <<post, thread, draft, approvedAt, now, scan>>,
         IF o = "verified" THEN Confirmed(c) ELSE Sending(c)
  PROVE  IInv'
<1>1. /\ Moves(c) /\ call'[c].pc = "finPost" /\ call'[c].out = o
      /\ call'[c].item = call[c].item /\ call'[c].day = call[c].day
  BY RecordMoves
<1>2. PostKey(c)' = PostKey(c) /\ ThreadKey(c)' = ThreadKey(c)
  BY <1>1 DEF PostKey, ThreadKey
<1>3. Progress(c)'
  BY <1>1, <1>2, ItemOfCall DEF Progress, Rows, Sending, Confirmed, AtThread, AtEvent, Waiting
<1> QED
  BY <1>1, <1>3, QuietStep DEF Writing

\* claimKeys finds an outcome nobody saw, or a thread that is taken.
LEMMA ClaimRefusals ==
  ASSUME Inv, NEW c \in Callers, ClaimUncertain(c) \/ ClaimRefused(c)
  PROVE  IInv'
<1>1. Working(c) /\ \A d \in Days : post[call[c].item][d] \in Claimable
  <2>1. Working(c) /\ call[c].pc = "approved"
    BY StageNames DEF ClaimUncertain, ClaimRefused, Working
  <2> QED
    BY <2>1, ItemOfCall DEF Progress
<1>2. CASE ClaimUncertain(c)
  <2>1. /\ Moves(c) /\ call'[c].pc = "finEvent" /\ call'[c].out = "uncertain"
        /\ call'[c].item = call[c].item /\ call'[c].day = call[c].day
        /\ UNCHANGED <<post, thread, draft, approvedAt, now, scan>>
    BY <1>2, SuspectMoves DEF ClaimUncertain, draftVars, ledgerVars
  <2>2. PostKey(c)' = PostKey(c) /\ PostKey(c) \in Claimable
    BY <1>1, <2>1, ItemOfCall DEF PostKey
  <2>3. ~ Writing(c)'
    BY <2>1 DEF Writing, Sending, Confirmed, Waiting
  <2>4. Progress(c)'
    BY <2>1, <2>2 DEF Progress, Sending, Confirmed, AtThread, AtEvent, Waiting
  <2> QED
    BY <1>1, <2>1, <2>3, <2>4, QuietStep
<1>3. CASE ClaimRefused(c)
  <2>1. PICK o \in {"posted", "failed"} : Return(c, o)
    BY <1>3 DEF ClaimRefused
  <2> QED
    BY <1>1, <1>3, <2>1, QuietReturn DEF ClaimRefused, draftVars, ledgerVars
<1> QED
  BY <1>2, <1>3

\* Every way a token or comment request can end.
LEMMA Answers ==
  ASSUME Inv, NEW c \in Callers,
         \/ TokenFails(c, "failed") \/ TokenFails(c, "uncertain")
         \/ RespPosted(c) \/ RespRefused(c) \/ RespUnknown(c)
  PROVE  IInv'
<1>1. /\ Working(c) /\ Sending(c)
      /\ UNCHANGED <<post, thread, draft, approvedAt, now, scan>>
  BY StageNames DEF TokenFails, RespPosted, RespRefused, RespUnknown, Working, Sending, Waiting,
                    draftVars, ledgerVars
<1>2. PICK o \in {"failed", "uncertain", "posted"} : Record(c, o)
  BY DEF TokenFails, RespPosted, RespRefused, RespUnknown, AfterUnknown
<1> QED
  BY <1>1, <1>2, QuietRecord

\* The comment is read back.
LEMMA Verification ==
  ASSUME Inv, NEW c \in Callers, Verified(c) \/ NotVerified(c)
  PROVE  IInv'
<1>1. Working(c) /\ UNCHANGED <<post, thread, draft, approvedAt, now, scan>>
  BY StageNames DEF Verified, NotVerified, Working, draftVars, ledgerVars
<1>2. CASE Verified(c)
  BY <1>1, <1>2, QuietRecord DEF Verified, Confirmed
<1>3. CASE NotVerified(c)
  BY <1>1, <1>3, QuietReturn DEF NotVerified, Unverified, Unsent
<1> QED
  BY <1>2, <1>3

\* No row of a thread is held.
Unheld(t, rows) == \A j \in Items : ThreadOf[j] = t => \A e \in Days : rows[j][e] \notin Held

\* What a step on the two rows of c must show of the held rows.
LEMMA HeldRows ==
  ASSUME Inv, NEW c \in Callers, Framed(c),
         LET i == call[c].item
             d == call[c].day
             t == ThreadOf[i]
         IN  /\ post'[i][d] \in Held => post[i][d] \in Held \/ Unheld(t, post)
             /\ thread'[t] \in Held \/ Unheld(t, post')
  PROVE  OneHeldPost' /\ HeldThread'
<1> DEFINE i == call[c].item
           d == call[c].day
           t == ThreadOf[i]
<1>1. i \in Items /\ d \in Days /\ t \in Threads
  BY ItemOfCall DEF Framed
<1>2. OneHeldPost'
  <2>1. \A j \in Items, e \in Days : j # i \/ e # d => post'[j][e] = post[j][e]
    BY DEF Framed, OwnRows
  <2>2. CASE post'[i][d] \in Held => post[i][d] \in Held
    <3>1. \A j \in Items, e \in Days : post'[j][e] \in Held => post[j][e] \in Held
      BY <2>1, <2>2
    <3> QED
      BY <3>1 DEF Inv, IInv, OneHeldPost
  <2>3. CASE Unheld(t, post)
    <3>1. \A j \in Items, e \in Days :
            ThreadOf[j] = t /\ post'[j][e] \in Held => j = i /\ e = d
      BY <2>1, <2>3 DEF Unheld
    <3>2. \A j \in Items, e \in Days : ThreadOf[j] # t => post'[j][e] = post[j][e]
      BY <2>1
    <3> QED
      BY <3>1, <3>2 DEF Inv, IInv, OneHeldPost
  <2> QED
    BY <2>2, <2>3
<1>3. HeldThread'
  <2>1. \A j \in Items, e \in Days : ThreadOf[j] # t =>
          post'[j][e] = post[j][e] /\ thread'[ThreadOf[j]] = thread[ThreadOf[j]]
    BY ThreadsAssumption DEF Framed, OwnRows
  <2> QED
    BY <2>1 DEF Inv, IInv, HeldThread, Unheld
<1> QED
  BY <1>2, <1>3

\* A thread someone writes to is held.
LEMMA WriterThread ==
  ASSUME Inv, NEW x \in Callers, Writing(x)
  PROVE  Working(x) /\ thread[ThreadOf[call[x].item]] \in Held
<1>1. Working(x)
  BY StageNames DEF Writing, Working, Sending, Confirmed, Waiting
<1>2. Progress(x) /\ ThreadKey(x) = thread[ThreadOf[call[x].item]] /\ call[x].out \in Outcomes
  BY <1>1, ItemOfCall, CallFields DEF Inv, CallOK, TypeOK
<1> QED
  BY <1>1, <1>2 DEF Progress, Rows, Writing, Sending, Confirmed, AtThread, Outcomes, Held

\* postReply gives up a reservation: never one that another caller writes to.
LEMMA PostRefusedInv ==
  ASSUME Inv, NEW c \in Callers, PostRefused(c)
  PROVE  IInv'
<1> DEFINE i == call[c].item
           d == call[c].day
           t == ThreadOf[i]
<1>1. Working(c) /\ ~ Writing(c) /\ call[c].pc = "approved"
  BY StageNames DEF PostRefused, Working, Writing, Sending, Confirmed, Waiting
<1>2. /\ i \in Items /\ d \in Days /\ t \in Threads
      /\ \A e \in Days : post[i][e] \in Claimable
  BY <1>1, ItemOfCall DEF Progress
<1>3. /\ Moves(c) /\ call'[c].pc \in {"idle", "drafting", "revert"}
      /\ call'[c].pc = "revert" => call'[c].item = i
  BY <1>1, ReturnMoves DEF PostRefused
<1>4. /\ \A j \in Items : j # i => post'[j] = post[j]
      /\ \A e \in Days : e # d => post'[i][e] = post[i][e]
      /\ post'[i][d] = IF post[i][d] = "ready" THEN "none" ELSE post[i][d]
  BY <1>2 DEF PostRefused, Inv, TypeOK
<1>5. /\ \A u \in Threads : u # t => thread'[u] = thread[u]
      /\ thread'[t] = thread[t] \/ (thread[t] = "ready" /\ thread'[t] = "none")
  BY <1>2 DEF PostRefused, Inv, TypeOK
<1>6. ASSUME NEW x \in Callers, Writing(x), ThreadOf[call[x].item] = t
      PROVE  thread'[t] = thread[t]
  BY <1>5, <1>6, WriterThread DEF Held
<1>7. post'[i][d] \notin Held /\ \A e \in Days : post'[i][e] \in Claimable
  BY <1>2, <1>4 DEF Claimable, Held
<1>8. Framed(c)
  BY <1>1, <1>2, <1>3, <1>4, <1>5, <1>6, <1>7 DEF Framed, OwnRows, PostRefused, draftVars, Claimable
<1>9. OneHeldPost' /\ HeldThread'
  <2>1. thread'[t] \in Held \/ Unheld(t, post)
    BY <1>2, <1>5 DEF Inv, IInv, HeldThread, Unheld, Held
  <2>2. Unheld(t, post) => Unheld(t, post')
    BY <1>2, <1>4 DEF Unheld, Held
  <2> QED
    BY <1>7, <1>8, <2>1, <2>2, HeldRows
<1>10. ~ Writing(c)'
  BY <1>3 DEF Writing, Sending, Confirmed, Waiting
<1>11. Working(c)' => Progress(c)'
  <2>1. Working(c)' => call'[c].pc = "revert"
    BY <1>3, StageNames DEF Working
  <2> QED
    BY <1>3, <1>7, <2>1 DEF Progress, Sending, Confirmed, AtThread, AtEvent, Waiting
<1> QED
  BY <1>8, <1>9, <1>10, <1>11, CallerStep

\* claimKeys freezes another caller's thread: it stays held.
LEMMA ClaimFreezesInv ==
  ASSUME Inv, NEW c \in Callers, ClaimFreezes(c)
  PROVE  IInv'
<1> DEFINE i == call[c].item
           d == call[c].day
           t == ThreadOf[i]
<1>1. Working(c) /\ ~ Writing(c) /\ call[c].pc = "approved"
  BY StageNames DEF ClaimFreezes, Working, Writing, Sending, Confirmed, Waiting
<1>2. /\ i \in Items /\ d \in Days /\ t \in Threads
      /\ \A e \in Days : post[i][e] \in Claimable
  BY <1>1, ItemOfCall DEF Progress
<1>3. /\ Moves(c) /\ call'[c].pc = "finEvent" /\ call'[c].out = "uncertain"
      /\ call'[c].item = i /\ call'[c].day = d
  BY SuspectMoves DEF ClaimFreezes
<1>4. post' = post
  <2> DEFINE row(k) == IF k = "posting" THEN "uncertain" ELSE k
  <2>1. post' = [post EXCEPT ![i][d] = row(@)]
    BY DEF ClaimFreezes
  <2>2. row(post[i][d]) = post[i][d]
    BY <1>2 DEF Claimable
  <2>3. post \in [Items -> [Days -> LedgerStates]]
    BY DEF Inv, TypeOK
  <2> HIDE DEF row
  <2>4. post' = [post EXCEPT ![i] = [post[i] EXCEPT ![d] = post[i][d]]]
    BY <1>2, <2>1, <2>2, <2>3
  <2> QED
    BY <1>2, <2>3, <2>4
<1>5. /\ \A u \in Threads : u # t => thread'[u] = thread[u]
      /\ thread'[t] = IF thread[t] = "posting" THEN "uncertain" ELSE thread[t]
  BY <1>2 DEF ClaimFreezes, Inv, TypeOK
<1>6. Framed(c)
  BY <1>1, <1>3, <1>4, <1>5 DEF Framed, OwnRows, ClaimFreezes, draftVars
<1>7. OneHeldPost' /\ HeldThread'
  <2>1. thread'[t] \in Held \/ Unheld(t, post)
    BY <1>2, <1>5 DEF Inv, IInv, HeldThread, Unheld, Held
  <2> QED
    BY <1>4, <1>6, <2>1, HeldRows
<1>8. ~ Writing(c)' /\ Progress(c)'
  <2>1. PostKey(c)' \in Claimable
    BY <1>2, <1>3, <1>4 DEF PostKey
  <2> QED
    BY <1>3, <2>1 DEF Progress, Writing, Sending, Confirmed, AtThread, AtEvent, Waiting
<1> QED
  BY <1>6, <1>7, <1>8, CallerStep

\* claimKeys takes both keys: no row of the thread was held before.
LEMMA ClaimOwnedInv ==
  ASSUME Inv, NEW c \in Callers, ClaimOwned(c)
  PROVE  IInv'
<1> DEFINE i == call[c].item
           d == call[c].day
           t == ThreadOf[i]
<1>1. Working(c) /\ call[c].pc = "approved"
  BY StageNames DEF ClaimOwned, Working
<1>2. /\ i \in Items /\ d \in Days /\ t \in Threads
      /\ \A e \in Days : post[i][e] \in Claimable
      /\ PostKey(c) = post[i][d] /\ ThreadKey(c) = thread[t]
  BY <1>1, ItemOfCall DEF Progress
<1>3. /\ Moves(c) /\ call'[c].pc = "claimed"
      /\ call'[c].item = i /\ call'[c].day = d
  <2>1. call[c] \in CallType /\ call \in [Callers -> CallType]
    BY DEF Inv, TypeOK
  <2> DEFINE r == [call[c] EXCEPT !.pc = "claimed", !.text = body[i]]
  <2>2. /\ r.pc = "claimed" /\ r.item = i /\ r.day = d /\ r.at = call[c].at
        /\ r.kind = call[c].kind /\ r.old = call[c].old
    BY <2>1 DEF CallType
  <2>3. call' = [call EXCEPT ![c] = r]
    BY <2>1 DEF ClaimOwned
  <2> QED
    BY <2>1, <2>2, <2>3, StageNames DEF Moves
<1>4. /\ \A j \in Items : j # i => post'[j] = post[j]
      /\ \A e \in Days : e # d => post'[i][e] = post[i][e]
      /\ post'[i][d] = "posting"
      /\ \A u \in Threads : u # t => thread'[u] = thread[u]
      /\ thread'[t] = "posting"
  BY <1>2 DEF ClaimOwned, Inv, TypeOK
<1>5. thread[t] \in Claimable /\ post[i][d] \in Claimable
  BY <1>2 DEF ClaimOwned, MayTake
<1>6. Unheld(t, post)
  BY <1>5 DEF Inv, IInv, HeldThread, Unheld, Held, Claimable
<1>7. ASSUME NEW x \in Callers, Writing(x), ThreadOf[call[x].item] = t
      PROVE  FALSE
  BY <1>5, <1>7, WriterThread DEF Held, Claimable
<1>8. Framed(c)
  BY <1>1, <1>2, <1>3, <1>4, <1>5, <1>7 DEF Framed, OwnRows, ClaimOwned, draftVars, Claimable
<1>9. OneHeldPost' /\ HeldThread'
  BY <1>4, <1>6, <1>8, HeldRows DEF Held
<1>10. Progress(c)'
  BY <1>3, <1>4 DEF Progress, Rows, PostKey, ThreadKey, Sending, Confirmed, AtThread, AtEvent, Waiting
<1> QED
  BY <1>7, <1>8, <1>9, <1>10, CallerStep
\* The request leaves, and Reddit publishes it.
LEMMA RequestInv ==
  ASSUME Inv, NEW c \in Callers, Send(c) \/ Land(c)
  PROVE  IInv'
<1>1. /\ Sending(c) /\ call[c].pc \in Waiting /\ call[c] \in CallType
      /\ call \in [Callers -> CallType]
      /\ UNCHANGED <<post, thread, draft, approvedAt, now, scan>>
  BY DEF Send, Land, Sending, Waiting, Inv, TypeOK, draftVars, ledgerVars
<1>2. /\ \A x \in Callers : x # c => call'[x] = call[x]
      /\ call'[c].pc = "sent" /\ call'[c].item = call[c].item /\ call'[c].day = call[c].day
      /\ call'[c].at = call[c].at /\ call'[c].kind = call[c].kind /\ call'[c].old = call[c].old
  <2>1. CASE Send(c)
    <3> DEFINE r == [call[c] EXCEPT !.pc = "sent", !.wire = "sent"]
    <3>1. /\ r.pc = "sent" /\ r.item = call[c].item /\ r.day = call[c].day
          /\ r.at = call[c].at /\ r.kind = call[c].kind /\ r.old = call[c].old
      BY <1>1 DEF CallType
    <3> QED
      BY <1>1, <2>1, <3>1 DEF Send
  <2>2. CASE Land(c)
    <3> DEFINE r == [call[c] EXCEPT !.wire = "landed"]
    <3>1. /\ r.pc = call[c].pc /\ r.item = call[c].item /\ r.day = call[c].day
          /\ r.at = call[c].at /\ r.kind = call[c].kind /\ r.old = call[c].old
      BY <1>1 DEF CallType
    <3> QED
      BY <1>1, <2>2, <3>1 DEF Land
  <2> QED
    BY <2>1, <2>2
<1>3. Working(c) /\ Moves(c)
  BY <1>1, <1>2, StageNames DEF Working, Moves, Waiting
<1>4. PostKey(c)' = PostKey(c) /\ ThreadKey(c)' = ThreadKey(c)
  BY <1>1, <1>2 DEF PostKey, ThreadKey
<1>5. Progress(c)'
  BY <1>1, <1>2, <1>3, <1>4, ItemOfCall
     DEF Progress, Rows, Sending, Confirmed, AtThread, AtEvent, Waiting
<1> QED
  BY <1>1, <1>2, <1>3, <1>5, QuietStep DEF Writing

\* finish writes the post row first: the thread row still shows the stage before.
LEMMA FinishPostInv ==
  ASSUME Inv, NEW c \in Callers, FinishPost(c)
  PROVE  IInv'
<1> DEFINE i == call[c].item
           d == call[c].day
           t == ThreadOf[i]
           o == call[c].out
<1>1. Working(c) /\ call[c].pc = "finPost" /\ o \in Outcomes
  BY StageNames, CallFields DEF FinishPost, Working, Inv, CallOK, TypeOK
<1>2. /\ i \in Items /\ d \in Days /\ t \in Threads
      /\ PostKey(c) = post[i][d] /\ ThreadKey(c) = thread[t] /\ Progress(c)
  BY <1>1, ItemOfCall
<1>3. /\ o # "verified" => post[i][d] = "posting" /\ thread[t] \in {"posting", "uncertain"}
      /\ o = "verified" => post[i][d] = "posted" /\ thread[t] = "posted"
  BY <1>1, <1>2 DEF Progress, Rows, Sending, Confirmed
<1>4. /\ Moves(c) /\ call'[c].pc = "finThread" /\ call'[c].out = o
      /\ call'[c].item = i /\ call'[c].day = d
  BY StageNames, GotoMoves DEF FinishPost
<1>5. /\ \A j \in Items : j # i => post'[j] = post[j]
      /\ \A e \in Days : e # d => post'[i][e] = post[i][e]
      /\ post'[i][d] = o
      /\ thread' = thread
  BY <1>2 DEF FinishPost, Inv, TypeOK
<1>6. Writing(c)
  BY <1>1 DEF Writing, Sending, Confirmed
<1>7. \A x \in Callers : x # c /\ Writing(x) => ThreadOf[call[x].item] # t
  BY <1>6 DEF Inv, IInv, OneWriterPerThread
<1>8. Framed(c)
  BY <1>1, <1>3, <1>4, <1>5, <1>7 DEF Framed, OwnRows, FinishPost, draftVars
<1>9. OneHeldPost' /\ HeldThread'
  BY <1>3, <1>5, <1>8, HeldRows DEF Held
<1>10. o = "failed" => Unheld(t, post')
  BY <1>2, <1>3, <1>5 DEF Unheld, Held, Inv, IInv, OneHeldPost
<1>11. Progress(c)'
  BY <1>1, <1>2, <1>3, <1>4, <1>5, <1>10 DEF Progress, Rows, PostKey, ThreadKey, Sending,
     Confirmed, AtThread, AtEvent, Waiting, Outcomes, Unheld
<1> QED
  BY <1>6, <1>8, <1>9, <1>11, CallerStep

\* Then the thread row, which only its one writer overwrites.
LEMMA FinishThreadInv ==
  ASSUME Inv, NEW c \in Callers, FinishThread(c)
  PROVE  IInv'
<1> DEFINE i == call[c].item
           d == call[c].day
           t == ThreadOf[i]
           o == call[c].out
<1>1. Working(c) /\ call[c].pc = "finThread" /\ o \in Outcomes /\ Writing(c)
  BY StageNames, CallFields DEF FinishThread, Working, Writing, Inv, CallOK, TypeOK
<1>2. /\ i \in Items /\ d \in Days /\ t \in Threads
      /\ PostKey(c) = post[i][d] /\ ThreadKey(c) = thread[t] /\ Progress(c)
  BY <1>1, ItemOfCall
<1>3. /\ Moves(c) /\ call'[c].pc = "finEvent" /\ call'[c].out = o
      /\ call'[c].item = i /\ call'[c].day = d
  BY StageNames, GotoMoves DEF FinishThread
<1>4. /\ post' = post
      /\ \A u \in Threads : u # t => thread'[u] = thread[u]
      /\ thread'[t] = o
  BY <1>2 DEF FinishThread, Inv, TypeOK
<1>5. \A x \in Callers : x # c /\ Writing(x) => ThreadOf[call[x].item] # t
  BY <1>1 DEF Inv, IInv, OneWriterPerThread
<1>6. Framed(c)
  BY <1>1, <1>3, <1>4, <1>5 DEF Framed, OwnRows, FinishThread, draftVars
<1>7. o = "failed" => Unheld(t, post)
  BY <1>1, <1>2 DEF Unheld, Progress, AtThread
<1>8. OneHeldPost' /\ HeldThread'
  <2>1. thread'[t] \in Held \/ Unheld(t, post')
    BY <1>1, <1>4, <1>7 DEF Outcomes, Held
  <2> QED
    BY <1>4, <1>6, <2>1, HeldRows
<1>9. Progress(c)'
  BY <1>1, <1>2, <1>3, <1>4 DEF Progress, Rows, PostKey, ThreadKey, Sending,
     Confirmed, AtThread, AtEvent, Waiting, Outcomes
<1> QED
  BY <1>1, <1>6, <1>8, <1>9, CallerStep

\* Then the draft event, and postReply verifies or returns.
LEMMA FinishEventInv ==
  ASSUME Inv, NEW c \in Callers, FinishEvent(c)
  PROVE  IInv'
<1> DEFINE o == call[c].out
<1>1. /\ Working(c) /\ call[c].pc = "finEvent" /\ o \in Outcomes
      /\ UNCHANGED <<post, thread, draft, approvedAt, now, scan>>
  BY StageNames, CallFields DEF FinishEvent, Working, Inv, CallOK, TypeOK, draftVars, ledgerVars
<1>2. Progress(c) /\ PostKey(c) = post[call[c].item][call[c].day]
  BY <1>1, ItemOfCall
<1>3. CASE o = "posted"
  <2>1. /\ Moves(c) /\ call'[c].pc = "verify"
        /\ call'[c].item = call[c].item /\ call'[c].day = call[c].day
    BY <1>3, StageNames, GotoMoves DEF FinishEvent
  <2>2. PostKey(c)' = PostKey(c) /\ ThreadKey(c)' = ThreadKey(c)
    BY <1>1, <2>1 DEF PostKey, ThreadKey
  <2>3. Confirmed(c) /\ Progress(c)'
    BY <1>1, <1>2, <1>3, <2>1, <2>2
       DEF Progress, Rows, Sending, Confirmed, AtThread, AtEvent, Waiting
  <2> QED
    BY <1>1, <2>1, <2>3, QuietStep DEF Writing
<1>4. CASE o # "posted"
  <2>1. Return(c, o)
    BY <1>4 DEF FinishEvent
  <2>2. ASSUME c = Worker, Unsent(o)
        PROVE  \A e \in Days : post[call[c].item][e] \in Claimable
    <3>1. post[call[c].item][call[c].day] = "failed"
      BY <1>1, <1>2, <2>2 DEF Progress, AtEvent, Unsent
    <3> QED
      BY <1>1, <2>2, <3>1 DEF Inv, IInv, AutoRows, Claimable
  <2> QED
    BY <1>1, <2>1, <2>2, QuietReturn
<1> QED
  BY <1>3, <1>4
-----------------------------------------------------------------------------
\* Steps that leave everyone who is posting where they are.
SameWork ==
  /\ \A x \in Callers : (Working(x)' <=> Working(x)) /\ (Working(x) => call'[x] = call[x])
  /\ \A g \in Gateways : call'[g] = call[g]

SameApprovals ==
  \A i \in Items : draft'[i] = draft[i] \/ (draft[i] # "approved" /\ draft'[i] # "approved")

\* A step that touches neither the ledger nor anyone who is posting.
LEMMA SameWorkStep ==
  ASSUME Inv, SameWork, SameApprovals, UNCHANGED <<post, thread, approvedAt, now>>, ScanRows'
  PROVE  IInv'
<1>1. OneHeldPost' /\ HeldThread' /\ UndecidedUnposted'
  BY DEF Inv, IInv, OneHeldPost, HeldThread, UndecidedUnposted, SameApprovals
<1>2. \A x \in Callers : Working(x) => /\ call[x].item \in Items
                                      /\ draft'[call[x].item] = draft[call[x].item]
  BY ItemOfCall DEF Inv, IInv, Approval, SameApprovals
<1>3. Approval'
  BY <1>2 DEF Inv, IInv, Approval, SameWork, Working, Callers
<1>4. OneCallerPerItem'
  BY DEF Inv, IInv, OneCallerPerItem, SameWork, Working
<1>5. ASSUME NEW x \in Callers, Working(x)'
      PROVE  Progress(x)' /\ Working(x) /\ call'[x] = call[x]
  <2>1. Working(x) /\ call'[x] = call[x] /\ Progress(x)
    BY <1>5 DEF SameWork, Inv, IInv
  <2> QED
    BY <2>1 DEF Progress, Rows, PostKey, ThreadKey, Sending, Confirmed, AtThread, AtEvent
<1>6. OneWriterPerThread'
  <2>1. \A x \in Callers : Writing(x)' => Working(x)'
    BY StageNames DEF Writing, Working, Sending, Confirmed, Waiting
  <2>2. \A x \in Callers : Writing(x)' => Writing(x) /\ call'[x] = call[x]
    BY <1>5, <2>1 DEF Writing, Sending, Confirmed
  <2> QED
    BY <2>2 DEF Inv, IInv, OneWriterPerThread
<1>7. AutoRows'
  BY <1>5 DEF Inv, IInv, AutoRows, Callers, Working
<1> QED
  BY <1>1, <1>3, <1>4, <1>5, <1>6, <1>7 DEF IInv

\* The scan stays as it is.
LEMMA SameScan ==
  ASSUME Inv, SameWork, SameApprovals, UNCHANGED <<post, scan>>,
         \/ call'[Worker] = call[Worker]
         \/ ~ Scanning /\ ~ Scanning'
  PROVE  ScanRows'
<1>1. \A x \in Callers : Working(x)' => Working(x) /\ call'[x].item = call[x].item
  BY DEF SameWork
<1>2. (\A k \in scan.todo : k[1] \in Items) /\ Doubted \subseteq scan.todo
  BY DEF Inv, IInv, ScanRows, TypeOK
<1>3. CASE call'[Worker] = call[Worker]
  BY <1>1, <1>2, <1>3 DEF Inv, IInv, ScanRows, Scanning, Doubted, SameApprovals
<1>4. CASE ~ Scanning /\ ~ Scanning'
  <2>1. scan = NoScan /\ scan' = NoScan
    BY <1>4 DEF Inv, IInv, ScanRows
  <2> QED
    BY <1>4, <2>1 DEF ScanRows, NoScan, Doubted, Scanning
<1> QED
  BY <1>3, <1>4

\* A caller outside postReply changes its stage.
LEMMA CallerElsewhere ==
  ASSUME Inv, NEW c \in Callers, ~ Working(c), NEW r, r.pc \notin Posting,
         c \in Gateways => r = call[c],
         call' = [call EXCEPT ![c] = r]
  PROVE  SameWork /\ call'[c] = r
<1>1. call \in [Callers -> CallType] /\ Gateways \subseteq Callers
  BY DEF Inv, TypeOK, Callers
<1> QED
  BY <1>1 DEF SameWork, Working

\* The worker begins or ends a draft pass, or drafts a reply.
LEMMA StagesInv ==
  ASSUME Inv, \/ StartDrafts \/ EndDrafts
              \/ \E i \in Items, auto \in BOOLEAN : DraftReply(i, auto)
  PROVE  IInv'
<1>1. Worker \in Callers /\ Worker \notin Gateways /\ call[Worker].pc \in {"idle", "drafting"}
  BY CallersAssumption DEF Callers, StartDrafts, EndDrafts, DraftReply
<1>2. ~ Working(Worker) /\ ~ Scanning
  BY <1>1, StageNames DEF Working, Scanning
<1>3. UNCHANGED <<post, thread, approvedAt, now, scan>>
  BY DEF StartDrafts, EndDrafts, DraftReply, draftVars, ledgerVars
<1>4. SameApprovals
  BY DEF StartDrafts, EndDrafts, DraftReply, draftVars, SameApprovals, Inv, TypeOK
<1>5. call' = call \/ \E r : /\ call' = [call EXCEPT ![Worker] = r]
                            /\ r.pc \in {"idle", "drafting", "drafted"}
  <2>1. CASE StartDrafts
    <3> DEFINE r == [Idle EXCEPT !.pc = "drafting", !.at = now]
    <3>1. r.pc = "drafting" /\ call' = [call EXCEPT ![Worker] = r]
      BY <2>1 DEF StartDrafts, Idle
    <3> HIDE DEF r
    <3> QED
      BY <3>1
  <2>2. CASE EndDrafts
    <3>1. Idle.pc = "idle" /\ call' = [call EXCEPT ![Worker] = Idle]
      BY <2>2 DEF EndDrafts, Idle
    <3> QED
      BY <3>1
  <2>3. ASSUME NEW i \in Items, DraftReply(i, TRUE) PROVE \E r : /\ call' = [call EXCEPT ![Worker] = r]
                                              /\ r.pc \in {"idle", "drafting", "drafted"}
    <3> DEFINE r == [call[Worker] EXCEPT !.pc = "drafted", !.item = i, !.text = body[i]]
    <3>1. r.pc = "drafted"
      BY <1>1 DEF Inv, TypeOK, CallType
    <3>2. call' = [call EXCEPT ![Worker] = r]
      BY <1>1, <2>3 DEF DraftReply, Inv, TypeOK
    <3> QED
      BY <3>1, <3>2
  <2>4. ASSUME NEW i \in Items, DraftReply(i, FALSE) PROVE call' = call
    BY <2>4 DEF DraftReply
  <2> QED
    BY <2>1, <2>2, <2>3, <2>4
<1>6. CASE call' = call
  <2>1. SameWork
    BY <1>6 DEF SameWork, Working
  <2> QED
    BY <1>3, <1>4, <1>6, <2>1, SameScan, SameWorkStep
<1>7. ASSUME NEW r, call' = [call EXCEPT ![Worker] = r], r.pc \in {"idle", "drafting", "drafted"}
      PROVE  IInv'
  <2>1. SameWork /\ call'[Worker] = r
    BY <1>1, <1>2, <1>7, StageNames, CallerElsewhere
  <2>2. ~ Scanning'
    BY <1>7, <2>1 DEF Scanning
  <2> QED
    BY <1>2, <1>3, <1>4, <2>1, <2>2, SameScan, SameWorkStep
<1> QED
  BY <1>5, <1>6, <1>7

\* Edits, refusals, the pause flag, and requests that settle without a caller.
LEMMA DecisionsInv ==
  ASSUME Inv, \/ \E i \in Items : Edit(i) \/ Ignore(i)
              \/ Pause \/ Resume
              \/ \E r \in limbo : LimboLands(r) \/ LimboLost(r)
              \/ UNCHANGED vars
  PROVE  IInv'
<1>1. UNCHANGED <<post, thread, approvedAt, now, scan, call>>
  BY DEF Edit, Ignore, Pause, Resume, LimboLands, LimboLost, vars, draftVars, ledgerVars
<1>2. SameApprovals
  BY DEF Edit, Ignore, Pause, Resume, LimboLands, LimboLost, vars, draftVars, SameApprovals,
         Inv, TypeOK
<1>3. SameWork
  BY <1>1 DEF SameWork, Working
<1> QED
  BY <1>1, <1>2, <1>3, SameScan, SameWorkStep
\* The L2 transaction finds a rule or a change of the draft against it.
LEMMA AutoRefused ==
  ASSUME Inv, AutoApprove, UNCHANGED draftVars,
         call' = [call EXCEPT ![Worker] = [Idle EXCEPT !.pc = "drafting", !.at = call[Worker].at]]
  PROVE  IInv'
<1> DEFINE r == [Idle EXCEPT !.pc = "drafting", !.at = call[Worker].at]
<1>1. r.pc = "drafting" /\ call' = [call EXCEPT ![Worker] = r]
  BY DEF Idle
<1> HIDE DEF r
<1>2. Worker \in Callers /\ Worker \notin Gateways /\ ~ Working(Worker) /\ ~ Scanning
  BY CallersAssumption, StageNames DEF AutoApprove, Callers, Working, Scanning
<1>3. SameWork /\ call'[Worker] = r
  BY <1>1, <1>2, StageNames, CallerElsewhere
<1>4. SameApprovals /\ UNCHANGED <<post, thread, approvedAt, now, scan>> /\ ~ Scanning'
  BY <1>1, <1>3 DEF SameApprovals, AutoApprove, draftVars, ledgerVars, Scanning
<1> QED
  BY <1>2, <1>3, <1>4, SameScan, SameWorkStep

\* A draft is approved and its caller enters postReply: nobody works on it yet,
\* and reservations touch nothing that is held.
LEMMA EnterStep ==
  ASSUME Inv, NEW c \in Callers, NEW i \in Items, NEW t \in Time, NEW kind \in {"auto", "approve"},
         ~ Working(c), draft[i] = "pending",
         call' = [call EXCEPT ![c] = Begin(i, kind, t)],
         draft' = [draft EXCEPT ![i] = "approved"],
         approvedAt' = [approvedAt EXCEPT ![i] = t],
         kind = "auto" <=> c = Worker,
         c \in Gateways => now <= t,
         UNCHANGED <<now, scan>>, ~ Scanning \/ c # Worker,
         \A j \in Items : j # i => post'[j] = post[j],
         \A e \in Days : post'[i][e] \in Claimable,
         \A u \in Threads : thread'[u] = thread[u] \/ (thread[u] \notin Held /\ thread'[u] \notin Held)
  PROVE  IInv'
<1> DEFINE r == Begin(i, kind, t)
<1>1. /\ r.pc = "approved" /\ r.item = i /\ r.at = t /\ r.day = Day(t) /\ r.kind = kind
      /\ r.old = FALSE
  BY DEF Begin, Idle
<1> HIDE DEF r
<1>2. /\ call'[c] = r /\ \A x \in Callers : x # c => call'[x] = call[x]
      /\ draft'[i] = "approved" /\ \A j \in Items : j # i => draft'[j] = draft[j]
      /\ approvedAt'[i] = t /\ \A j \in Items : j # i => approvedAt'[j] = approvedAt[j]
  BY DEF Inv, TypeOK, r
<1>3. \A x \in Callers : Working(x) => call[x].item \in Items /\ call[x].item # i /\ x # c
  BY ItemOfCall DEF Inv, IInv, Approval
<1>4. Working(c)' /\ \A x \in Callers : x # c => (Working(x)' <=> Working(x))
  BY <1>1, <1>2, StageNames DEF Working
<1>5. \A e \in Days : post[i][e] \in Claimable
  BY DEF Inv, IInv, UndecidedUnposted
<1>6. \A j \in Items, e \in Days : post'[j][e] \in Held <=> post[j][e] \in Held
  BY <1>5 DEF Held, Claimable
<1>7. OneHeldPost' /\ HeldThread'
  <2>1. \A u \in Threads : thread[u] \in Held => thread'[u] \in Held
    OBVIOUS
  <2> QED
    BY <1>6, <2>1, ThreadsAssumption DEF Inv, IInv, OneHeldPost, HeldThread
<1>8. UndecidedUnposted'
  BY <1>2 DEF Inv, IInv, UndecidedUnposted
<1>9. Approval'
  <2>1. \A g \in Gateways : Working(g)' \/ call'[g].pc = "idle"
    BY <1>2, <1>4 DEF Inv, IInv, Approval, Callers
  <2>2. ASSUME NEW x \in Callers, x # c, Working(x)
        PROVE  /\ draft'[call'[x].item] = "approved"
               /\ approvedAt'[call'[x].item] = call'[x].at
               /\ call'[x].day = Day(call'[x].at)
               /\ (call'[x].kind = "auto") <=> (x = Worker)
               /\ x \in Gateways => now' <= call'[x].at + 1 /\ (~ call'[x].old => now' <= call'[x].at)
    BY <1>2, <1>3, <2>2 DEF Inv, IInv, Approval
  <2>3. c \in Gateways => now' <= call'[c].at + 1 /\ (~ call'[c].old => now' <= call'[c].at)
    <3>1. now \in Int /\ t \in Int
      BY TimeAssumption DEF Inv, TypeOK, Time
    <3> QED
      BY <1>1, <1>2, <3>1
  <2> QED
    BY <1>1, <1>2, <1>4, <2>1, <2>2, <2>3 DEF Approval
<1>10. OneCallerPerItem'
  BY <1>1, <1>2, <1>3, <1>4 DEF Inv, IInv, OneCallerPerItem
<1>11. ASSUME NEW x \in Callers, Working(x)' PROVE Progress(x)'
  <2>1. CASE x = c
    BY <1>1, <1>2, <2>1 DEF Progress, Sending, Confirmed, AtThread, AtEvent, Waiting
  <2>2. CASE x # c
    <3>1. Working(x) /\ call'[x] = call[x] /\ Progress(x) /\ call[x].item # i
          /\ call[x].item \in Items /\ ThreadOf[call[x].item] \in Threads
      BY <1>2, <1>3, <1>4, <1>11, <2>2, ItemOfCall
    <3>2. PostKey(x)' = PostKey(x) /\ post'[call[x].item] = post[call[x].item]
      BY <3>1 DEF PostKey
    <3>3. Writing(x) => ThreadKey(x)' = ThreadKey(x)
      BY <3>1, WriterThread DEF ThreadKey
    <3>4. \A j \in Items, e \in Days : post'[j][e] \in Held => post[j][e] \in Held
      BY <1>6
    <3> QED
      BY <3>1, <3>2, <3>3, <3>4
         DEF Progress, Rows, Writing, Sending, Confirmed, AtThread, AtEvent
  <2> QED
    BY <2>1, <2>2
<1>12. OneWriterPerThread'
  <2>1. \A x \in Callers : Writing(x)' => x # c /\ Writing(x) /\ call'[x] = call[x]
    BY <1>1, <1>2 DEF Writing, Sending, Confirmed, Waiting
  <2> QED
    BY <2>1 DEF Inv, IInv, OneWriterPerThread
<1>13. AutoRows'
  <2>1. CASE c = Worker
    BY <1>1, <1>2, <2>1 DEF AutoRows
  <2>2. CASE c # Worker
    <3>1. Worker \in Callers /\ call'[Worker] = call[Worker]
      BY <1>2, <2>2 DEF Callers
    <3> QED
      BY <1>3, <1>4, <2>2, <3>1 DEF Inv, IInv, AutoRows
  <2> QED
    BY <2>1, <2>2
<1>14. ScanRows'
  <2>1. \A k \in scan.todo : /\ k[1] \in Items /\ k[2] \in Days /\ k[1] # i
                            /\ post'[k[1]] = post[k[1]] /\ draft'[k[1]] = "approved"
    <3>1. \A k \in scan.todo : k[1] \in Items /\ k[2] \in Days /\ draft[k[1]] = "approved"
      BY DEF Inv, IInv, ScanRows, TypeOK
    <3> QED
      BY <1>2, <3>1
  <2>2. CASE c = Worker
    <3>1. scan = NoScan /\ ~ Scanning'
      BY <1>1, <1>2, <2>2 DEF Inv, IInv, ScanRows, Scanning
    <3> QED
      BY <3>1 DEF ScanRows, NoScan, Doubted, Scanning
  <2>3. CASE c # Worker
    <3>1. Worker \in Callers /\ call'[Worker] = call[Worker]
      BY <1>2, <2>3 DEF Callers
    <3>2. Scanning' = Scanning /\ Doubted' = Doubted
      BY <3>1 DEF Scanning, Doubted
    <3>3. Doubted \subseteq scan.todo
      BY DEF Doubted, Inv, IInv, ScanRows
    <3>4. \A k \in Doubted : \A x \in Callers : Working(x)' => call'[x].item # k[1]
      BY <1>1, <1>2, <1>4, <2>1, <3>3 DEF Inv, IInv, ScanRows
    <3> QED
      BY <2>1, <3>2, <3>4 DEF Inv, IInv, ScanRows
  <2> QED
    BY <2>2, <2>3
<1> QED
  BY <1>7, <1>8, <1>9, <1>10, <1>11, <1>12, <1>13, <1>14 DEF IInv

\* The L2 transaction, either way.
LEMMA AutoApproveInv ==
  ASSUME Inv, AutoApprove
  PROVE  IInv'
<1> DEFINE w == call[Worker]
<1>1. CASE CheckPolicy(w.item, w.at) /\ BodyUnchanged(w.item, w.text)
  <2>1. Worker \in Callers /\ ~ Working(Worker) /\ ~ Scanning /\ w.pc = "drafted"
    BY CallersAssumption, StageNames DEF AutoApprove, Callers, Working, Scanning
  <2>2. w.item \in Items /\ w.at \in Time
    BY <2>1, CallFields DEF Inv, CallOK, TypeOK
  <2>3. /\ draft[w.item] = "pending"
        /\ call' = [call EXCEPT ![Worker] = Begin(w.item, "auto", w.at)]
        /\ draft' = [draft EXCEPT ![w.item] = "approved"]
        /\ approvedAt' = [approvedAt EXCEPT ![w.item] = w.at]
        /\ UNCHANGED <<now, scan, post, thread>>
    BY <1>1 DEF AutoApprove, BodyUnchanged, ApproveDraft, ledgerVars
  <2>4. \A e \in Days : post[w.item][e] \in Claimable
    BY <2>2, <2>3 DEF Inv, IInv, UndecidedUnposted
  <2> QED
    <3>1. \A j \in Items : j # w.item => post'[j] = post[j]
      BY <2>3
    <3>2. \A e \in Days : post'[w.item][e] \in Claimable
      BY <2>3, <2>4
    <3>3. \A u \in Threads : thread'[u] = thread[u]
      BY <2>3
    <3> HIDE DEF w
    <3>4. Worker \in Callers /\ Worker \notin Gateways /\ ~ Working(Worker) /\ ~ Scanning
      BY <2>1, CallersAssumption
    <3> QED
      BY <2>2, <2>3, <3>1, <3>2, <3>3, <3>4, EnterStep
<1>2. CASE ~ (CheckPolicy(w.item, w.at) /\ BodyUnchanged(w.item, w.text))
  BY <1>2, AutoRefused DEF AutoApprove
<1> QED
  BY <1>1, <1>2

\* aha_approve and its reservation.
LEMMA ApproveInv ==
  ASSUME Inv, NEW g \in Gateways, NEW i \in Items, Approve(g, i)
  PROVE  IInv'
<1>1. g \in Callers /\ g # Worker /\ ~ Working(g) /\ now \in Time
  BY CallersAssumption, StageNames DEF Approve, Callers, Working, Inv, TypeOK
<1>2. /\ draft[i] = "pending"
      /\ call' = [call EXCEPT ![g] = Begin(i, "approve", now)]
      /\ draft' = [draft EXCEPT ![i] = "approved"]
      /\ approvedAt' = [approvedAt EXCEPT ![i] = now]
      /\ UNCHANGED <<now, scan>>
  BY DEF Approve, ApproveDraft
<1>3. \A e \in Days : post[i][e] \in Claimable
  BY <1>2 DEF Inv, IInv, UndecidedUnposted
<1>4. Day(now) \in Days /\ ThreadOf[i] \in Threads
  BY <1>1, DayOfTime, ThreadsAssumption
<1> DEFINE row == [post[i] EXCEPT ![Day(now)] = IF @ = "none" THEN "ready" ELSE @]
<1>5. /\ \A j \in Items : j # i => post'[j] = post[j]
      /\ \A e \in Days : post'[i][e] \in Claimable
  <2>1. \A j \in Items : j # i => post'[j] = post[j]
    BY DEF Approve, RecordReady, Inv, TypeOK
  <2>2. post' = [post EXCEPT ![i] = row]
    BY DEF Approve, RecordReady, Inv, TypeOK
  <2>3. post'[i] = row
    BY <2>2 DEF Inv, TypeOK
  <2> QED
    BY <1>3, <1>4, <2>1, <2>3 DEF Claimable, Inv, TypeOK
<1>6. \A u \in Threads : thread'[u] = thread[u] \/ (thread[u] \notin Held /\ thread'[u] \notin Held)
  <2> DEFINE u0 == ThreadOf[i]
  <2>1. /\ \A u \in Threads : u # u0 => thread'[u] = thread[u]
        /\ thread'[u0] = IF thread[u0] = "none" THEN "ready" ELSE thread[u0]
    BY <1>4 DEF Approve, RecordReady, Inv, TypeOK
  <2> QED
    BY <2>1 DEF Held
<1>7. now <= now
  BY <1>1, TimeAssumption DEF Time
<1> QED
  <2> HIDE DEF row
  <2>1. PICK kind \in {"auto", "approve"} : kind = "approve"
    OBVIOUS
  <2>2. /\ kind = "auto" <=> g = Worker
        /\ call' = [call EXCEPT ![g] = Begin(i, kind, now)]
        /\ ~ Scanning \/ g # Worker
    BY <1>1, <1>2, <2>1
  <2> QED
    BY <1>1, <1>2, <1>5, <1>6, <1>7, <2>2, EnterStep
\* The worker takes back the approval of a draft it could not post.
LEMMA RevertInv ==
  ASSUME Inv, Revert
  PROVE  IInv'
<1> DEFINE i == call[Worker].item
           r == [Idle EXCEPT !.pc = "drafting", !.at = call[Worker].at]
<1>1. Worker \in Callers /\ Working(Worker) /\ call[Worker].pc = "revert"
  BY StageNames DEF Revert, Callers, Working
<1>2. i \in Items /\ draft[i] = "approved" /\ \A e \in Days : post[i][e] \in Claimable
  BY <1>1, ItemOfCall DEF Inv, IInv, Approval, Progress
<1>3. r.pc = "drafting"
  BY DEF Idle
<1>4. /\ call' = [call EXCEPT ![Worker] = r]
      /\ UNCHANGED <<post, thread, now, scan>>
      /\ draft'[i] = "pending" /\ \A j \in Items : j # i => draft'[j] = draft[j]
      /\ \A j \in Items : j # i => approvedAt'[j] = approvedAt[j]
  BY <1>2 DEF Revert, ledgerVars, Inv, TypeOK
<1> HIDE DEF r
<1>5. /\ call'[Worker] = r /\ \A x \in Callers : x # Worker => call'[x] = call[x]
  BY <1>1, <1>4 DEF Inv, TypeOK
<1>6. ~ Working(Worker)' /\ ~ Scanning' /\ ~ Scanning
  BY <1>1, <1>3, <1>5, StageNames DEF Working, Scanning
<1>7. \A x \in Callers : Working(x)' =>
        /\ x # Worker /\ Working(x) /\ call'[x] = call[x]
        /\ call[x].item \in Items /\ call[x].item # i
  BY <1>1, <1>5, <1>6, ItemOfCall DEF Working, Inv, IInv, OneCallerPerItem
<1>8. OneHeldPost' /\ HeldThread' /\ UndecidedUnposted'
  BY <1>2, <1>4 DEF Inv, IInv, OneHeldPost, HeldThread, UndecidedUnposted
<1>9. Approval'
  <2>1. \A g \in Gateways : g \in Callers /\ g # Worker
    BY CallersAssumption DEF Callers
  <2> QED
    BY <1>4, <1>5, <1>7, <2>1 DEF Inv, IInv, Approval, Working
<1>10. OneCallerPerItem'
  BY <1>7 DEF Inv, IInv, OneCallerPerItem
<1>11. \A x \in Callers : Working(x)' => Progress(x)'
  <2> SUFFICES ASSUME NEW x \in Callers, Working(x)' PROVE Progress(x)'
    OBVIOUS
  <2>1. Progress(x) /\ call'[x] = call[x]
    BY <1>7 DEF Inv, IInv
  <2> QED
    BY <1>4, <2>1 DEF Progress, Rows, PostKey, ThreadKey, Sending, Confirmed, AtThread, AtEvent
<1>12. OneWriterPerThread'
  <2>1. \A x \in Callers : Writing(x)' => Working(x)'
    BY StageNames DEF Writing, Working, Sending, Confirmed, Waiting
  <2>2. \A x \in Callers : Writing(x)' => Writing(x) /\ call'[x] = call[x]
    BY <1>7, <2>1 DEF Writing, Sending, Confirmed
  <2> QED
    BY <2>2 DEF Inv, IInv, OneWriterPerThread
<1>13. AutoRows' /\ ScanRows'
  BY <1>4, <1>6 DEF AutoRows, Inv, IInv, ScanRows, NoScan, Doubted, Scanning
<1> QED
  BY <1>8, <1>9, <1>10, <1>11, <1>12, <1>13 DEF IInv

\* A crash leaves the ledger as it is, and no caller.
LEMMA CrashInv ==
  ASSUME Inv, Crash
  PROVE  IInv'
<1>1. /\ \A x \in Callers : call'[x] = Idle
      /\ UNCHANGED <<post, thread, draft, approvedAt, now>> /\ scan' = NoScan
  BY DEF Crash, draftVars, ledgerVars
<1>2. Idle.pc = "idle" /\ Worker \in Callers /\ Gateways \subseteq Callers
  BY DEF Idle, Callers
<1>3. \A x \in Callers : ~ Working(x)' /\ ~ Writing(x)'
  BY <1>1, <1>2, StageNames DEF Working, Writing, Sending, Confirmed, Waiting
<1>4. OneHeldPost' /\ HeldThread' /\ UndecidedUnposted'
  BY <1>1 DEF Inv, IInv, OneHeldPost, HeldThread, UndecidedUnposted
<1>5. Approval' /\ OneCallerPerItem' /\ OneWriterPerThread' /\ AutoRows'
  BY <1>1, <1>2, <1>3 DEF Approval, OneCallerPerItem, OneWriterPerThread, AutoRows
<1>6. ScanRows'
  BY <1>1, <1>2 DEF ScanRows, NoScan, Doubted, Scanning
<1> QED
  BY <1>3, <1>4, <1>5, <1>6 DEF IInv

\* Time passes for callers that have not seen a tick.
LEMMA TickInv ==
  ASSUME Inv, Tick
  PROVE  IInv'
<1>1. /\ UNCHANGED <<post, thread, draft, approvedAt, scan>> /\ now' = now + 1
      /\ \A x \in Callers : Working(x) => call[x].old = FALSE
  <2>1. \A x \in Callers : call[x].old \in BOOLEAN
    BY DEF Inv, TypeOK, CallType
  <2> QED
    BY <2>1 DEF Tick, draftVars, ledgerVars, Working
<1>2. \A x \in Callers :
        /\ call'[x].pc = call[x].pc /\ call'[x].item = call[x].item /\ call'[x].day = call[x].day
        /\ call'[x].kind = call[x].kind /\ call'[x].at = call[x].at /\ call'[x].out = call[x].out
        /\ call'[x].old = (call[x].pc \in Posting)
  BY DEF Tick, Inv, TypeOK, CallType
<1>3. \A x \in Callers : /\ Working(x)' <=> Working(x)
                         /\ Writing(x)' <=> Writing(x)
  BY <1>2 DEF Working, Writing, Sending, Confirmed
<1>4. OneHeldPost' /\ HeldThread' /\ UndecidedUnposted'
  BY <1>1 DEF Inv, IInv, OneHeldPost, HeldThread, UndecidedUnposted
<1>5. Approval'
  <2>1. \A g \in Gateways : Working(g)' \/ call'[g].pc = "idle"
    BY <1>2, <1>3 DEF Inv, IInv, Approval, Callers
  <2>2. ASSUME NEW x \in Callers, Working(x)
        PROVE  /\ draft'[call'[x].item] = "approved"
               /\ approvedAt'[call'[x].item] = call'[x].at
               /\ call'[x].day = Day(call'[x].at)
               /\ (call'[x].kind = "auto") <=> (x = Worker)
    BY <1>1, <1>2, <2>2 DEF Inv, IInv, Approval
  <2>3. ASSUME NEW x \in Gateways, x \in Callers, Working(x)
        PROVE  now' <= call'[x].at + 1 /\ call'[x].old
    <3>1. call[x].at \in Time /\ now \in Time
      BY <2>3 DEF Inv, TypeOK, CallType
    <3>2. call[x].at \in Int /\ now \in Int
      BY <3>1 DEF Time
    <3>3. now <= call[x].at
      BY <1>1, <2>3 DEF Inv, IInv, Approval
    <3>4. now' <= call'[x].at + 1
      BY <1>1, <1>2, <2>3, <3>2, <3>3
    <3>5. call'[x].old
      BY <1>2, <2>3, Zenon DEF Working
    <3> QED
      BY <3>4, <3>5
  <2> QED
    BY <1>3, <2>1, <2>2, <2>3 DEF Approval
<1>6. OneCallerPerItem' /\ OneWriterPerThread'
  BY <1>2, <1>3 DEF Inv, IInv, OneCallerPerItem, OneWriterPerThread
<1>7. \A x \in Callers : Working(x)' => Progress(x)'
  <2> SUFFICES ASSUME NEW x \in Callers, Working(x)' PROVE Progress(x)'
    OBVIOUS
  <2>1. Progress(x)
    BY <1>3 DEF Inv, IInv
  <2> QED
    BY <1>1, <1>2, <2>1 DEF Progress, Rows, PostKey, ThreadKey, Sending, Confirmed, AtThread, AtEvent
<1>8. AutoRows' /\ ScanRows'
  <2>1. Worker \in Callers
    BY DEF Callers
  <2> QED
    BY <1>1, <1>2, <1>3, <2>1 DEF Inv, IInv, AutoRows, ScanRows, Scanning, Doubted
<1> QED
  BY <1>4, <1>5, <1>6, <1>7, <1>8 DEF IInv
\* An attempt that is stale, or past its grace, has no caller.
LEMMA Abandoned ==
  ASSUME Inv, call[Worker].pc = "idle", NEW i \in Items, NEW x \in Callers, Working(x),
         \/ approvedAt[i] \in Time /\ now - approvedAt[i] >= Stale
         \/ PastGrace(i)
  PROVE  call[x].item # i
<1> SUFFICES ASSUME call[x].item = i PROVE FALSE
  OBVIOUS
<1>1. x \in Gateways
  BY StageNames DEF Callers, Working
<1>2. approvedAt[i] = call[x].at /\ now <= call[x].at + 1
  BY <1>1 DEF Inv, IInv, Approval
<1>3. call[x].at \in Int /\ now \in Int /\ uncertainAt[i] \in Int
  <2>1. call[x].at \in Time /\ now \in Time /\ uncertainAt[i] \in Time \union {Never}
    BY DEF Inv, TypeOK, CallType
  <2> QED
    BY <2>1 DEF Time, Never
<1>4. Grace \in Int /\ Stale \in Int
  BY TimeAssumption
<1>5. now - approvedAt[i] < 2
  BY <1>2, <1>3
<1>6. GraceStart(i) >= approvedAt[i] /\ GraceStart(i) \in Int
  BY <1>2, <1>3 DEF GraceStart, Later
<1>7. now - GraceStart(i) < 2
  BY <1>2, <1>3, <1>5, <1>6
<1> QED
  BY <1>2, <1>3, <1>4, <1>5, <1>6, <1>7, PatienceAssumption DEF PastGrace

\* aha_retry enters with its claim: the absent thread is nobody's, and no caller
\* is left on the item.
LEMMA RetryInv ==
  ASSUME Inv, NEW g \in Gateways, NEW i \in Items, Retry(g, i)
  PROVE  IInv'
<1> DEFINE d == Day(now)
           t == ThreadOf[i]
           r == [Begin(i, "retry", now) EXCEPT !.pc = "claimed", !.text = body[i]]
<1>1. g \in Callers /\ g # Worker /\ ~ Working(g) /\ now \in Time
  BY CallersAssumption, StageNames DEF Retry, Callers, Working, Inv, TypeOK
<1>2. d \in Days /\ t \in Threads
  BY <1>1, DayOfTime, ThreadsAssumption
<1>3. /\ r.pc = "claimed" /\ r.item = i /\ r.at = now /\ r.day = d /\ r.kind = "retry"
      /\ r.old = FALSE
  BY DEF Begin, Idle
<1>4. call' = [call EXCEPT ![g] = r]
  BY DEF Retry
<1> HIDE DEF r
<1>5. /\ call'[g] = r /\ \A x \in Callers : x # g => call'[x] = call[x]
      /\ approvedAt'[i] = now /\ \A j \in Items : j # i => approvedAt'[j] = approvedAt[j]
      /\ UNCHANGED <<draft, now, scan>> /\ draft[i] = "approved"
  <2>1. call'[g] = r /\ \A x \in Callers : x # g => call'[x] = call[x]
    BY <1>1, <1>4 DEF Inv, TypeOK
  <2>2. approvedAt'[i] = now /\ \A j \in Items : j # i => approvedAt'[j] = approvedAt[j]
    BY DEF Retry, Inv, TypeOK
  <2> QED
    BY <2>1, <2>2 DEF Retry, RetryAllowed, Sendable
<1>6. /\ \A j \in Items : j # i => post'[j] = post[j]
      /\ \A e \in Days : e # d => post'[i][e] = post[i][e]
      /\ post'[i][d] = "posting"
      /\ \A u \in Threads : u # t => thread'[u] = thread[u]
      /\ thread'[t] = "posting"
  BY <1>2 DEF Retry, Inv, TypeOK
<1>7. thread[t] = "absent" /\ post[i][Day(approvedAt[i])] = "absent"
  BY DEF Retry, RetryAllowed
<1>8. Unheld(t, post)
  BY <1>7 DEF Inv, IInv, HeldThread, Unheld, Held
<1>9. \A x \in Callers : Writing(x) => ThreadOf[call[x].item] # t
  BY <1>7, WriterThread DEF Held
<1>10. \A x \in Callers : Working(x) => call[x].item \in Items /\ call[x].item # i /\ x # g
  <2> SUFFICES ASSUME NEW x \in Callers, Working(x), call[x].item = i PROVE FALSE
    BY <1>1, ItemOfCall
  <2>1. PostKey(x) = "absent" /\ Progress(x) /\ call[x].day \in Days
    BY <1>7, ItemOfCall DEF Inv, IInv, Approval
  <2>2. call[x].out \in Outcomes
    BY CallFields DEF Inv, CallOK, TypeOK
  <2> QED
    BY <1>9, <2>1, <2>2, ItemOfCall DEF Progress, Rows, Writing, Working, Sending, Confirmed,
       AtThread, AtEvent, Posting, Waiting, Outcomes, Claimable
<1>11. Working(g)' /\ \A x \in Callers : x # g => (Working(x)' <=> Working(x))
  BY <1>3, <1>5, StageNames DEF Working
<1>12. OneHeldPost' /\ HeldThread'
  <2>1. \A j \in Items, e \in Days :
          ThreadOf[j] = t /\ post'[j][e] \in Held => j = i /\ e = d
    BY <1>6, <1>8 DEF Unheld
  <2>2. \A j \in Items, e \in Days : ThreadOf[j] # t =>
          post'[j][e] = post[j][e] /\ thread'[ThreadOf[j]] = thread[ThreadOf[j]]
    BY <1>6, ThreadsAssumption
  <2>3. OneHeldPost'
    BY <2>1, <2>2 DEF Inv, IInv, OneHeldPost
  <2>4. HeldThread'
    BY <1>6, <2>2 DEF Inv, IInv, HeldThread, Held
  <2> QED
    BY <2>3, <2>4
<1>13. UndecidedUnposted'
  BY <1>5, <1>6 DEF Inv, IInv, UndecidedUnposted
<1>14. Approval'
  <2>1. \A h \in Gateways : Working(h)' \/ call'[h].pc = "idle"
    BY <1>5, <1>11 DEF Inv, IInv, Approval, Callers
  <2>2. ASSUME NEW x \in Callers, x # g, Working(x)
        PROVE  /\ draft'[call'[x].item] = "approved"
               /\ approvedAt'[call'[x].item] = call'[x].at
               /\ call'[x].day = Day(call'[x].at)
               /\ (call'[x].kind = "auto") <=> (x = Worker)
               /\ x \in Gateways => now' <= call'[x].at + 1 /\ (~ call'[x].old => now' <= call'[x].at)
    BY <1>5, <1>10, <2>2 DEF Inv, IInv, Approval
  <2>3. now' <= call'[g].at + 1 /\ now' <= call'[g].at
    <3>1. now \in Int
      BY <1>1 DEF Time
    <3> QED
      BY <1>3, <1>5, <3>1
  <2> QED
    BY <1>1, <1>3, <1>5, <1>11, <2>1, <2>2, <2>3 DEF Approval
<1>15. OneCallerPerItem'
  BY <1>3, <1>5, <1>10, <1>11 DEF Inv, IInv, OneCallerPerItem
<1>16. ASSUME NEW x \in Callers, Working(x)' PROVE Progress(x)'
  <2>1. CASE x = g
    BY <1>3, <1>5, <1>6, <2>1
       DEF Progress, Rows, PostKey, ThreadKey, Sending, Confirmed, AtThread, AtEvent, Waiting
  <2>2. CASE x # g
    <3>1. Working(x) /\ call'[x] = call[x] /\ Progress(x) /\ call[x].item # i
          /\ call[x].item \in Items /\ ThreadOf[call[x].item] \in Threads
      BY <1>5, <1>10, <1>11, <1>16, <2>2, ItemOfCall
    <3>2. PostKey(x)' = PostKey(x) /\ post'[call[x].item] = post[call[x].item]
      BY <1>6, <3>1 DEF PostKey
    <3>3. Writing(x) => /\ ThreadKey(x)' = ThreadKey(x)
                        /\ \A j \in Items : ThreadOf[j] = ThreadOf[call[x].item] => post'[j] = post[j]
      BY <1>6, <1>9, <3>1 DEF ThreadKey
    <3> QED
      BY <3>1, <3>2, <3>3 DEF Progress, Rows, Writing, Sending, Confirmed, AtThread, AtEvent
  <2> QED
    BY <2>1, <2>2
<1>17. OneWriterPerThread'
  <2>1. \A x \in Callers : x # g => (Writing(x)' <=> Writing(x)) /\ call'[x] = call[x]
    BY <1>5 DEF Writing, Sending, Confirmed
  <2> QED
    BY <1>3, <1>5, <1>9, <2>1 DEF Inv, IInv, OneWriterPerThread
<1>18. Worker \in Callers /\ call'[Worker] = call[Worker]
  BY <1>1, <1>5 DEF Callers
<1>19. AutoRows'
  BY <1>6, <1>10, <1>18 DEF Inv, IInv, AutoRows, Working
<1>20. ScanRows'
  <2>1. \A k \in scan.todo : k[1] \in Items /\ k[2] \in Days /\ k[1] # i
    <3>1. \A k \in scan.todo : k[1] \in Items /\ k[2] \in Days /\ post[k[1]][k[2]] = "uncertain"
      BY DEF Inv, IInv, ScanRows, TypeOK
    <3> QED
      BY <1>8, <3>1 DEF Unheld, Held
  <2>2. Scanning' = Scanning /\ Doubted' = Doubted /\ Doubted \subseteq scan.todo
    BY <1>5, <1>18 DEF Scanning, Doubted, Inv, IInv, ScanRows
  <2>3. \A k \in Doubted : \A x \in Callers : Working(x)' => call'[x].item # k[1]
    BY <1>3, <1>5, <1>11, <2>1, <2>2 DEF Inv, IInv, ScanRows
  <2> QED
    BY <1>5, <1>6, <2>1, <2>2, <2>3 DEF Inv, IInv, ScanRows
<1> QED
  BY <1>12, <1>13, <1>14, <1>15, <1>16, <1>17, <1>19, <1>20 DEF IInv
\* Reconciliation moves a key nobody writes to, and its thread with it.
LEMMA SettleStep ==
  ASSUME Inv, NEW i \in Items, NEW d \in Days, post[i][d] \in {"posting", "uncertain"},
         NEW s \in {"uncertain", "verified", "absent"},
         post' = [post EXCEPT ![i][d] = s],
         thread' = [thread EXCEPT ![ThreadOf[i]] = s],
         SameWork, UNCHANGED <<draft, approvedAt, now>>, draft[i] = "approved",
         \/ s # "absent" /\ post[i][d] = "uncertain"
         \/ \A x \in Callers : Working(x) => call[x].item # i,
         ScanRows'
  PROVE  IInv'
<1> DEFINE t == ThreadOf[i]
<1>1. /\ \A j \in Items : j # i => post'[j] = post[j]
      /\ \A e \in Days : e # d => post'[i][e] = post[i][e]
      /\ post'[i][d] = s
      /\ \A u \in Threads : u # t => thread'[u] = thread[u]
      /\ thread'[t] = s /\ t \in Threads
  BY ThreadsAssumption DEF Inv, TypeOK
<1>2. \A j \in Items, e \in Days : ThreadOf[j] = t /\ post[j][e] \in Held => j = i /\ e = d
  BY DEF Inv, IInv, OneHeldPost, Held
<1>3. OneHeldPost'
  <2>1. \A j \in Items, e \in Days : post'[j][e] \in Held => post[j][e] \in Held
    BY <1>1 DEF Held
  <2> QED
    BY <2>1 DEF Inv, IInv, OneHeldPost
<1>4. HeldThread'
  <2>1. \A j \in Items, e \in Days : ThreadOf[j] # t =>
          post'[j][e] = post[j][e] /\ thread'[ThreadOf[j]] = thread[ThreadOf[j]]
    BY <1>1, ThreadsAssumption
  <2>2. \A j \in Items, e \in Days :
          ThreadOf[j] = t /\ post'[j][e] \in Held => thread'[t] \in Held
    BY <1>1, <1>2
  <2> QED
    BY <2>1, <2>2 DEF Inv, IInv, HeldThread
<1>5. UndecidedUnposted'
  BY <1>1 DEF Inv, IInv, UndecidedUnposted
<1>6. \A x \in Callers : Working(x)' => Working(x) /\ call'[x] = call[x]
  BY DEF SameWork
<1>7. Approval' /\ OneCallerPerItem'
  BY <1>6 DEF SameWork, Inv, IInv, Approval, OneCallerPerItem, Working, Callers
<1>8. OneWriterPerThread'
  <2>1. \A x \in Callers : Writing(x)' => Working(x)'
    BY StageNames DEF Writing, Working, Sending, Confirmed, Waiting
  <2>2. \A x \in Callers : Writing(x)' => Writing(x) /\ call'[x] = call[x]
    BY <1>6, <2>1 DEF Writing, Sending, Confirmed
  <2> QED
    BY <2>2 DEF Inv, IInv, OneWriterPerThread
<1>9. ASSUME NEW x \in Callers, Working(x)' PROVE Progress(x)'
  <2>1. /\ Working(x) /\ call'[x] = call[x] /\ Progress(x) /\ call[x].out \in Outcomes
        /\ call[x].item \in Items /\ call[x].day \in Days /\ ThreadOf[call[x].item] \in Threads
        /\ PostKey(x) = post[call[x].item][call[x].day]
        /\ ThreadKey(x) = thread[ThreadOf[call[x].item]]
    BY <1>6, <1>9, ItemOfCall, CallFields DEF Inv, CallOK, TypeOK
  <2>2. CASE call[x].item # i
    <3>1. PostKey(x)' = PostKey(x) /\ post'[call[x].item] = post[call[x].item]
      BY <1>1, <2>1, <2>2 DEF PostKey
    <3>2. CASE ThreadOf[call[x].item] # t
      <4>1. /\ ThreadKey(x)' = ThreadKey(x)
            /\ \A j \in Items : ThreadOf[j] = ThreadOf[call[x].item] => post'[j] = post[j]
        BY <1>1, <2>1, <3>2 DEF ThreadKey
      <4> QED
        BY <2>1, <3>1, <4>1 DEF Progress, Rows, Sending, Confirmed, AtThread, AtEvent
    <3>3. CASE ThreadOf[call[x].item] = t
      <4>1. PostKey(x) \notin Held /\ ~ AtThread(x, "failed")
        BY <1>2, <2>1, <2>2, <3>3 DEF Progress, Held
      <4>2. ~ Writing(x)
        BY <2>1, <4>1 DEF Progress, Rows, Writing, Sending, Confirmed, AtThread, Outcomes, Held
      <4> QED
        BY <2>1, <3>1, <4>2 DEF Progress, Writing, Sending, Confirmed, AtThread, AtEvent
    <3> QED
      BY <3>2, <3>3
  <2>3. CASE call[x].item = i
    <3>1. s # "absent" /\ post[i][d] = "uncertain"
      BY <2>1, <2>3
    <3>2. call[x].day = d \/ PostKey(x) \notin Held
      BY <1>2, <2>1, <2>3
    <3>3. /\ ~ Sending(x) /\ ~ Confirmed(x)
          /\ call[x].pc \notin {"approved", "revert"}
          /\ \A o \in Outcomes : AtThread(x, o) => o = "uncertain" /\ call[x].day = d
          /\ \A o \in Outcomes : AtEvent(x, o) /\ call[x].day = d => o = "uncertain"
      BY <2>1, <2>3, <3>1, <3>2 DEF Progress, Rows, AtThread, AtEvent, Confirmed, Held, Claimable, Outcomes
    <3>4. call[x].day = d => PostKey(x)' = s
      BY <1>1, <2>1, <2>3 DEF PostKey
    <3>5. call[x].day # d => PostKey(x)' = PostKey(x)
      BY <1>1, <2>1, <2>3 DEF PostKey
    <3>6. ThreadKey(x)' = s /\ s \in {"uncertain", "verified"}
      BY <1>1, <2>1, <2>3, <3>1 DEF ThreadKey
    <3> QED
      BY <2>1, <3>3, <3>4, <3>5, <3>6
         DEF Progress, Rows, Sending, Confirmed, AtThread, AtEvent, Outcomes
  <2> QED
    BY <2>2, <2>3
<1>10. AutoRows'
  <2> SUFFICES ASSUME Working(Worker)' PROVE AutoRows'
    BY DEF AutoRows
  <2>1. Worker \in Callers /\ Working(Worker) /\ call'[Worker] = call[Worker]
    BY <1>6 DEF Callers
  <2>2. call[Worker].item \in Items /\ call[Worker].day \in Days
    BY <2>1, ItemOfCall
  <2>3. call[Worker].item = i => call[Worker].day = d
    BY <2>1, <2>2 DEF Inv, IInv, AutoRows, Claimable
  <2> QED
    BY <1>1, <2>1, <2>2, <2>3 DEF Inv, IInv, AutoRows
<1> QED
  BY <1>3, <1>4, <1>5, <1>7, <1>8, <1>9, <1>10 DEF IInv

\* A frozen stale attempt has no caller, so the freeze disturbs nobody.
LEMMA FreezeStaleInv ==
  ASSUME Inv, FreezeStale
  PROVE  IInv'
<1>1. PICK k \in StaleKeys :
        /\ post' = [post EXCEPT ![k[1]][k[2]] = "uncertain"]
        /\ thread' = [thread EXCEPT ![ThreadOf[k[1]]] = "uncertain"]
  BY DEF FreezeStale
<1>2. /\ call[Worker].pc = "idle"
      /\ UNCHANGED <<draft, approvedAt, now, call, scan>>
  BY DEF FreezeStale, draftVars
<1>3. /\ k[1] \in Items /\ k[2] \in Days /\ post[k[1]][k[2]] = "posting"
      /\ draft[k[1]] = "approved" /\ now - approvedAt[k[1]] >= Stale
  BY <1>1 DEF StaleKeys, IsStale
<1>4. ASSUME NEW x \in Callers, Working(x), call[x].item = k[1] PROVE FALSE
  <2>1. approvedAt[k[1]] = call[x].at /\ call[x].at \in Time
    BY <1>4, CallFields DEF Inv, IInv, Approval, CallOK, TypeOK
  <2> QED
    BY <1>2, <1>3, <1>4, <2>1, Abandoned
<1>5. SameWork
  BY <1>2 DEF SameWork, Working
<1>6. ScanRows'
  <2>1. scan = NoScan /\ ~ Scanning
    BY <1>2 DEF Inv, IInv, ScanRows, Scanning
  <2> QED
    BY <1>2, <2>1 DEF ScanRows, NoScan, Doubted, Scanning
<1> QED
  BY <1>1, <1>2, <1>3, <1>4, <1>5, <1>6, SettleStep

\* Neither has an attempt past its grace when the scan begins,
LEMMA StartScanInv ==
  ASSUME Inv, StartScan
  PROVE  IInv'
<1>1. /\ Worker \in Callers /\ Worker \notin Gateways /\ call[Worker].pc = "idle"
      /\ UNCHANGED <<post, thread, draft, approvedAt, now>>
  BY CallersAssumption DEF StartScan, Callers, draftVars, ledgerVars
<1>2. SameApprovals /\ ~ Working(Worker) /\ ~ Scanning
  BY <1>1, StageNames DEF SameApprovals, Working, Scanning
<1> DEFINE active == PendingKeys \ {k \in PendingKeys : TooOld(k[1])}
           r == [Idle EXCEPT !.pc = "listing"]
<1>3. CASE active = {}
  <2>1. UNCHANGED <<call, scan>>
    BY <1>3 DEF StartScan
  <2>2. SameWork
    BY <2>1 DEF SameWork, Working
  <2> QED
    BY <1>1, <1>2, <2>1, <2>2, SameScan, SameWorkStep
<1>4. CASE active # {}
  <2>1. /\ call' = [call EXCEPT ![Worker] = r]
        /\ scan' = [todo |-> active, found |-> {}, ripe |-> {k \in active : PastGrace(k[1])}]
    BY <1>4 DEF StartScan
  <2>2. r.pc = "listing"
    BY DEF Idle
  <2> HIDE DEF r
  <2>3. SameWork /\ call'[Worker] = r
    BY <1>1, <1>2, <2>1, <2>2, StageNames, CallerElsewhere
  <2>4. /\ scan'.todo = active /\ scan'.ripe = {k \in active : PastGrace(k[1])}
        /\ Doubted' = scan'.ripe /\ Scanning'
    BY <2>1, <2>2, <2>3 DEF Doubted, Scanning
  <2>5. \A k \in active : k[1] \in Items /\ post[k[1]][k[2]] = "uncertain" /\ draft[k[1]] = "approved"
    BY DEF PendingKeys
  <2>6. \A k \in active : PastGrace(k[1]) =>
          \A x \in Callers : Working(x)' => call'[x].item # k[1]
    BY <1>1, <2>3, <2>5, Abandoned DEF SameWork
  <2>7. ScanRows'
    BY <1>1, <2>4, <2>5, <2>6 DEF ScanRows
  <2> QED
    BY <1>1, <1>2, <2>3, <2>7, SameWorkStep
<1> QED
  BY <1>3, <1>4

\* nor one that the listing leaves in doubt.
LEMMA ScanListingInv ==
  ASSUME Inv, NEW found \in SUBSET scan.todo, NEW covers \in BOOLEAN, ScanListing(found, covers)
  PROVE  IInv'
<1> DEFINE todo == Resolvable(found, covers)
<1>1. /\ Worker \in Callers /\ Worker \notin Gateways /\ call[Worker].pc = "listing"
      /\ UNCHANGED <<post, thread, draft, approvedAt, now>>
  BY CallersAssumption DEF ScanListing, Callers, draftVars, ledgerVars
<1>2. SameApprovals /\ ~ Working(Worker)
  BY <1>1, StageNames DEF SameApprovals, Working
<1>3. Doubted \subseteq scan.todo /\ Doubted = scan.ripe
  BY <1>1 DEF Inv, IInv, ScanRows, Doubted
<1>4. CASE todo = {}
  <2>1. call' = [call EXCEPT ![Worker] = Idle] /\ scan' = NoScan /\ Idle.pc = "idle"
    BY <1>4 DEF ScanListing, Idle
  <2>2. SameWork /\ call'[Worker] = Idle
    BY <1>1, <1>2, <2>1, StageNames, CallerElsewhere
  <2>3. ScanRows'
    BY <2>1, <2>2 DEF ScanRows, NoScan, Doubted, Scanning
  <2> QED
    BY <1>1, <1>2, <2>2, <2>3, SameWorkStep
<1>5. CASE todo # {}
  <2> DEFINE r == [call[Worker] EXCEPT !.pc = "resolving"]
  <2>1. /\ call' = [call EXCEPT ![Worker] = r]
        /\ scan' = [todo |-> todo, ripe |-> {}, found |-> found]
    BY <1>1, <1>5 DEF ScanListing, Goto, Inv, TypeOK
  <2>2. r.pc = "resolving"
    BY <1>1 DEF Inv, TypeOK, CallType
  <2> HIDE DEF r
  <2>3. SameWork /\ call'[Worker] = r
    BY <1>1, <1>2, <2>1, <2>2, StageNames, CallerElsewhere
  <2>4. todo \subseteq scan.todo /\ todo \ found \subseteq Doubted
    BY <1>3 DEF Resolvable
  <2>5. /\ scan'.todo = todo /\ scan'.ripe = {} /\ Doubted' = todo \ found /\ Scanning'
    BY <2>1, <2>2, <2>3 DEF Doubted, Scanning
  <2>6. \A k \in Doubted : \A x \in Callers : Working(x)' => call'[x].item # k[1]
    BY <2>3 DEF SameWork, Inv, IInv, ScanRows
  <2> HIDE DEF todo
  <2>7. ScanRows'
    BY <1>1, <2>4, <2>5, <2>6 DEF ScanRows, Inv, IInv
  <2> QED
    BY <1>1, <1>2, <2>3, <2>7, SameWorkStep
<1> QED
  BY <1>4, <1>5

\* So an attempt found absent is settled alone, one found posted may still have
\* its caller.
LEMMA ScanResolveInv ==
  ASSUME Inv, NEW k \in scan.todo, ScanResolve(k)
  PROVE  IInv'
<1> DEFINE s == IF k \in scan.found THEN "verified" ELSE "absent"
           left == scan.todo \ {k}
<1>1. /\ Worker \in Callers /\ Worker \notin Gateways /\ call[Worker].pc = "resolving"
      /\ UNCHANGED <<draft, approvedAt, now>>
      /\ post' = [post EXCEPT ![k[1]][k[2]] = s]
      /\ thread' = [thread EXCEPT ![ThreadOf[k[1]]] = s]
  BY CallersAssumption DEF ScanResolve, Callers, draftVars
<1>2. ~ Working(Worker)
  BY <1>1, StageNames DEF Working
<1>3. /\ \A q \in scan.todo : q[1] \in Items /\ q[2] \in Days /\ q = <<q[1], q[2]>>
      /\ \A q \in scan.todo : post[q[1]][q[2]] = "uncertain" /\ draft[q[1]] = "approved"
      /\ Doubted = scan.todo \ scan.found
      /\ \A q \in Doubted : \A x \in Callers : Working(x) => call[x].item # q[1]
  BY <1>1 DEF Inv, IInv, TypeOK, ScanRows, Doubted
<1>4. s = "absent" => \A x \in Callers : Working(x) => call[x].item # k[1]
  BY <1>3
<1>5. CASE left = {}
  <2>1. call' = [call EXCEPT ![Worker] = Idle] /\ scan' = NoScan /\ Idle.pc = "idle"
    BY <1>5 DEF ScanResolve, Idle
  <2>2. SameWork /\ call'[Worker] = Idle
    BY <1>1, <1>2, <2>1, StageNames, CallerElsewhere
  <2>3. ScanRows'
    BY <2>1, <2>2 DEF ScanRows, NoScan, Doubted, Scanning
  <2> QED
    BY <1>1, <1>3, <1>4, <2>2, <2>3, SettleStep
<1>6. CASE left # {}
  <2>1. call' = call /\ scan' = [scan EXCEPT !.todo = left]
    BY <1>6 DEF ScanResolve
  <2>2. SameWork
    BY <2>1 DEF SameWork, Working
  <2>3. scan'.todo = left /\ scan'.ripe = scan.ripe /\ scan'.found = scan.found
    BY <2>1 DEF Inv, TypeOK
  <2>4. \A q \in left : post'[q[1]][q[2]] = "uncertain"
    <3> SUFFICES ASSUME NEW q \in left PROVE post'[q[1]][q[2]] = "uncertain"
      OBVIOUS
    <3>1. q[1] # k[1] \/ q[2] # k[2]
      BY <1>3
    <3> QED
      BY <1>1, <1>3, <3>1 DEF Inv, TypeOK
  <2>5. Doubted' = left \ scan.found /\ Scanning' /\ Doubted' \subseteq Doubted
    BY <1>1, <1>3, <2>1, <2>3 DEF Doubted, Scanning
  <2>6. ScanRows'
    BY <1>1, <1>3, <2>1, <2>3, <2>4, <2>5 DEF ScanRows, Working
  <2> QED
    BY <1>1, <1>3, <1>4, <2>2, <2>6, SettleStep
<1> QED
  BY <1>5, <1>6

-----------------------------------------------------------------------------
\* Every step keeps the inductive invariant,
LEMMA NextInv == Inv /\ [Next]_vars => Inv'
<1> SUFFICES ASSUME Inv, [Next]_vars PROVE Inv'
  OBVIOUS
<1>1. TypeOK' /\ CallShape'
  BY NextShape DEF Inv, Shape
<1> SUFFICES IInv'
  BY <1>1 DEF Inv
<1>2. ASSUME NEW c \in Callers, Caller(c) PROVE IInv'
  <2>1. CASE PostRefused(c)
    BY <2>1, PostRefusedInv
  <2>2. CASE ClaimFreezes(c)
    BY <2>2, ClaimFreezesInv
  <2>3. CASE ClaimUncertain(c) \/ ClaimRefused(c)
    BY <2>3, ClaimRefusals
  <2>4. CASE ClaimOwned(c)
    BY <2>4, ClaimOwnedInv
  <2>5. CASE Send(c)
    BY <2>5, RequestInv
  <2>6. CASE \/ TokenFails(c, "failed") \/ TokenFails(c, "uncertain")
             \/ RespPosted(c) \/ RespRefused(c) \/ RespUnknown(c)
    BY <2>6, Answers
  <2>7. CASE FinishPost(c)
    BY <2>7, FinishPostInv
  <2>8. CASE FinishThread(c)
    BY <2>8, FinishThreadInv
  <2>9. CASE FinishEvent(c)
    BY <2>9, FinishEventInv
  <2>10. CASE Verified(c) \/ NotVerified(c)
    BY <2>10, Verification
  <2> QED
    BY <1>2, <2>1, <2>2, <2>3, <2>4, <2>5, <2>6, <2>7, <2>8, <2>9, <2>10 DEF Caller
<1>3. CASE Reddit
  <2>1. ASSUME NEW c \in Callers, Land(c) PROVE IInv'
    BY <2>1, RequestInv
  <2>2. CASE \E r \in limbo : LimboLands(r) \/ LimboLost(r)
    BY <2>2, DecisionsInv
  <2> QED
    BY <1>3, <2>1, <2>2 DEF Reddit
<1>4. CASE Stage
  <2>1. CASE StartDrafts \/ EndDrafts \/ \E i \in Items, auto \in BOOLEAN : DraftReply(i, auto)
    BY <2>1, StagesInv
  <2>2. CASE AutoApprove
    BY <2>2, AutoApproveInv
  <2>3. CASE Revert
    BY <2>3, RevertInv
  <2>4. CASE FreezeStale
    BY <2>4, FreezeStaleInv
  <2>5. CASE StartScan
    BY <2>5, StartScanInv
  <2>6. ASSUME NEW found \in SUBSET scan.todo, NEW covers \in BOOLEAN, ScanListing(found, covers)
        PROVE  IInv'
    BY <2>6, ScanListingInv
  <2>7. ASSUME NEW k \in scan.todo, ScanResolve(k) PROVE IInv'
    BY <2>7, ScanResolveInv
  <2> QED
    BY <1>4, <2>1, <2>2, <2>3, <2>4, <2>5, <2>6, <2>7 DEF Stage
<1>5. CASE Tool
  <2>1. ASSUME NEW g \in Gateways, NEW i \in Items, Approve(g, i) PROVE IInv'
    BY <2>1, ApproveInv
  <2>2. ASSUME NEW g \in Gateways, NEW i \in Items, Retry(g, i) PROVE IInv'
    BY <2>2, RetryInv
  <2>3. CASE (\E i \in Items : Edit(i) \/ Ignore(i)) \/ Pause \/ Resume
    BY <2>3, DecisionsInv
  <2> QED
    BY <1>5, <2>1, <2>2, <2>3 DEF Tool
<1>6. CASE Crash \/ Tick
  BY <1>6, CrashInv, TickInv
<1>7. CASE UNCHANGED vars
  BY <1>7, DecisionsInv
<1> QED
  BY <1>2, <1>3, <1>4, <1>5, <1>6, <1>7 DEF Next

\* which the initial state satisfies.
LEMMA InitInv == Init => Inv
<1> SUFFICES ASSUME Init PROVE Inv
  OBVIOUS
<1>1. \A c \in Callers : call[c].pc = "idle"
  BY DEF Init, Idle
<1>2. \A c \in Callers : ~ Working(c) /\ ~ Writing(c)
  BY <1>1, StageNames DEF Working, Writing, Sending, Confirmed, Waiting
<1>3. Worker \in Callers /\ Gateways \subseteq Callers
  BY DEF Callers
<1>4. OneHeldPost /\ HeldThread /\ UndecidedUnposted
  BY DEF Init, OneHeldPost, HeldThread, UndecidedUnposted, Held, Claimable
<1>5. Approval /\ OneCallerPerItem /\ OneWriterPerThread /\ AutoRows
  BY <1>1, <1>2, <1>3 DEF Approval, OneCallerPerItem, OneWriterPerThread, AutoRows
<1>6. ScanRows
  BY <1>1, <1>3 DEF Init, ScanRows, NoScan, Doubted, Scanning
<1> QED
  BY <1>2, <1>4, <1>5, <1>6, InitShape DEF Inv, IInv, Shape

\* The ledger's claim is a lock on the thread, for any number of items, threads
\* and concurrent tool calls and whatever crashes, times out, is frozen, found
\* absent or retried: no two callers have a request for a thread in hand.
THEOREM OneSender == Spec => []OneSenderPerThread
<1>1. Inv => OneSenderPerThread
  BY DEF Inv, IInv, OneWriterPerThread, OneSenderPerThread, Writing, Sending
<1> QED
  BY <1>1, InitInv, NextInv, PTL DEF Spec
-----------------------------------------------------------------------------
(***************************************************************************)
(* What a step may do, variable by variable, and which action does it. The *)
(* invariants below are proved from these facts, not action by action.     *)
(***************************************************************************)
Open == {"posting", "uncertain"}

SameJob(x) ==
  call'[x].item = call[x].item /\ call'[x].day = call[x].day /\ call'[x].at = call[x].at

\* How x comes to know the outcome it will record.
Learns(x, o) ==
  \/ o = "failed" /\ (call[x].pc = "claimed" \/ (call[x].pc = "sent" /\ call[x].wire = "sent"))
  \/ o = "uncertain" /\ (call[x].pc = "claimed" \/ RespUnknown(x))
  \/ o = "posted" /\ call[x].pc = "sent" /\ call[x].wire = "landed"
  \/ o = "verified" /\ call[x].pc = "verify"

\* x goes on with its work in postReply.
Advances(x) ==
  \/ /\ ClaimOwned(x)
     /\ call'[x].pc = "claimed" /\ call'[x].text = body[call[x].item]
  \/ /\ call[x].pc = "claimed"
     /\ call'[x].pc = "sent" /\ call'[x].wire = "sent" /\ call'[x].text = call[x].text
  \/ /\ Land(x)
     /\ call'[x].pc = "sent" /\ call'[x].wire = "landed" /\ call'[x].text = call[x].text
  \/ call'[x].pc = "finPost" /\ Learns(x, call'[x].out)
  \/ FinishPost(x) /\ call'[x].pc = "finThread" /\ call'[x].out = call[x].out
  \/ FinishThread(x) /\ call'[x].pc = "finEvent" /\ call'[x].out = call[x].out
  \/ AtEvent(x, "posted") /\ call'[x].pc = "verify"
  \/ call[x].pc = "approved" /\ call'[x].pc = "finEvent" /\ call'[x].out = "uncertain"

\* x is given a draft that was pending, or an absent attempt to repeat.
Enters(x, i) ==
  /\ ~ Working(x) /\ call'[x].item = i /\ call'[x].old = FALSE
  /\ call'[x].at \in {now, call[x].at} /\ now' = now
  /\ \/ draft[i] = "pending" /\ call'[x].pc = "approved"
     \/ Retry(x, i) /\ call'[x].pc = "claimed" /\ call'[x].text = body[i] /\ x \in Gateways

CallStep(x) ==
  \/ call'[x] = call[x] /\ now' = now
  \/ Tick /\ call'[x] = [call[x] EXCEPT !.old = call[x].pc \in Posting]
  \/ /\ call'[x].pc \notin Posting /\ call'[x].at \in {0, now, call[x].at}
     /\ now' = now
  \/ /\ SameJob(x) /\ now' = now /\ x = Worker
     /\ call'[x].pc = "revert" /\ (call[x].pc = "approved" \/ AtEvent(x, "failed"))
  \/ SameJob(x) /\ call'[x].old = call[x].old /\ now' = now /\ Advances(x)
  \/ \E i \in Items : Enters(x, i)

\* The post row of item i on day d.
RowStep(i, d) ==
  LET t == ThreadOf[i]
  IN  \/ post'[i][d] = post[i][d]
      \/ {post[i][d], post'[i][d]} \subseteq {"none", "ready"}
      \/ \E c \in Callers :
           /\ ClaimOwned(c) /\ call[c].item = i /\ call[c].day = d
           /\ {post[i][d], thread[t]} \subseteq Claimable
           /\ post'[i][d] = "posting" /\ thread'[t] = "posting"
      \/ \E g \in Gateways :
           /\ Retry(g, i) /\ thread[t] = "absent"
           /\ post'[i][d] = "posting" /\ thread'[t] = "posting"
      \/ \E c \in Callers :
           /\ FinishPost(c) /\ call[c].item = i /\ call[c].day = d
           /\ post'[i][d] = call[c].out /\ thread' = thread
      \/ /\ FreezeStale /\ IsStale(i) /\ post[i][d] = "posting"
         /\ post'[i][d] = "uncertain" /\ thread'[t] = "uncertain"
      \/ /\ <<i, d>> \in scan.todo /\ ScanResolve(<<i, d>>)
         /\ thread'[t] = post'[i][d]
         /\ post'[i][d] = IF <<i, d>> \in scan.found THEN "verified" ELSE "absent"

\* The row of thread t.
ThreadStep(t) ==
  \/ thread'[t] = thread[t]
  \/ {thread[t], thread'[t]} \subseteq {"none", "ready"}
  \/ thread[t] = "posting" /\ thread'[t] = "uncertain"
  \/ \E c \in Callers :
       /\ ClaimOwned(c) /\ ThreadOf[call[c].item] = t
       /\ thread[t] \in Claimable /\ thread'[t] = "posting"
  \/ \E g \in Gateways, i \in Items :
       /\ Retry(g, i) /\ ThreadOf[i] = t /\ thread[t] = "absent" /\ thread'[t] = "posting"
  \/ \E c \in Callers :
       /\ FinishThread(c) /\ ThreadOf[call[c].item] = t
       /\ thread'[t] = call[c].out /\ post' = post
  \/ \E k \in scan.todo :
       /\ ScanResolve(k) /\ ThreadOf[k[1]] = t /\ thread'[t] = post'[k[1]][k[2]]
       /\ thread'[t] = IF k \in scan.found THEN "verified" ELSE "absent"

\* The draft of item i and its approval.
DraftStep(i) ==
  \/ UNCHANGED <<draft[i], body[i], okBody[i], approvedAt[i]>>
  \/ draft[i] # "approved" /\ draft'[i] # "approved" /\ UNCHANGED <<approvedAt[i]>>
  \/ /\ draft[i] = "pending" /\ draft'[i] = "approved"
     /\ body'[i] = body[i] /\ okBody'[i] = body[i]
     /\ \E c \in Callers : approvedAt'[i] \in {now, call[c].at}
  \/ /\ Revert /\ call[Worker].item = i /\ draft'[i] = "pending" /\ approvedAt'[i] = Never
     /\ UNCHANGED uncertainAt
  \/ /\ \E g \in Gateways : Retry(g, i)
     /\ UNCHANGED <<draft[i], body[i], okBody[i]>>

\* The time of the latest doubt about item i.
DoubtStep(i) ==
  \/ uncertainAt'[i] = uncertainAt[i]
  \/ \E c \in Callers : /\ Working(c) /\ call[c].item = i /\ uncertainAt'[i] = now
                        /\ c = Worker => call'[c].pc \notin Posting
  \/ /\ FreezeStale /\ IsStale(i)
     /\ \A r \in limbo : r.item = i => ThreadOf[i] \in lapsed'

\* What Reddit shows under item i, and the requests without a caller.
CommentStep(i) ==
  \/ comments'[i] = comments[i]
  \/ \E c \in Callers : Land(c) /\ call[c].item = i
  \/ \E r \in limbo : LimboLands(r) /\ r.item = i

Request(c) == [item |-> call[c].item, body |-> call[c].text]

LimboStep ==
  \/ limbo' \subseteq limbo
  \/ /\ UNCHANGED comments
     /\ \A r \in limbo' \ limbo : \E c \in Callers :
          /\ call[c].pc = "sent" /\ call[c].wire = "sent" /\ r = Request(c)
          /\ call'[c].pc # "sent" /\ ~ (call'[c].pc = "finPost" /\ call'[c].out = "failed")
          /\ UNCHANGED <<now, draft, body, approvedAt, uncertainAt, post>>

\* A thread's record lapses with a request in limbo, and nothing else of it changes.
LapseStep ==
  \/ lapsed' = lapsed
  \/ /\ UNCHANGED comments
     /\ \A t \in Threads : RecordOf(t)' = RecordOf(t)
     /\ \E r \in limbo : /\ lapsed' = lapsed \union {ThreadOf[r.item]}
                         /\ thread[ThreadOf[r.item]] \in Open

\* The worker's reconciliation.
ScanStep ==
  \/ /\ scan' = scan
     /\ Scanning \/ Scanning' => call'[Worker].pc = call[Worker].pc
  \/ scan' = NoScan
  \/ StartScan
  \/ \E found \in SUBSET scan.todo, covers \in BOOLEAN : ScanListing(found, covers)
  \/ /\ \E k \in scan.todo : scan' = [scan EXCEPT !.todo = scan.todo \ {k}]
     /\ UNCHANGED call

Steps ==
  /\ \A x \in Callers : CallStep(x)
  /\ \A i \in Items : DraftStep(i) /\ DoubtStep(i) /\ CommentStep(i)
  /\ \A i \in Items, d \in Days : RowStep(i, d)
  /\ \A t \in Threads : ThreadStep(t)
  /\ LimboStep /\ LapseStep /\ ScanStep
  /\ now' = now \/ limbo = {}

-----------------------------------------------------------------------------
\* What an action leaves alone is accounted for.
LEMMA Unmoved ==
  /\ post' = post => \A i \in Items, d \in Days : RowStep(i, d)
  /\ thread' = thread => \A t \in Threads : ThreadStep(t)
  /\ UNCHANGED draftVars => \A i \in Items : DraftStep(i)
  /\ uncertainAt' = uncertainAt => \A i \in Items : DoubtStep(i)
  /\ comments' = comments => \A i \in Items : CommentStep(i)
  /\ limbo' = limbo => LimboStep
  /\ lapsed' = lapsed => LapseStep
  BY DEF RowStep, ThreadStep, DraftStep, draftVars, DoubtStep, CommentStep, LimboStep, LapseStep

\* The step of one caller at work, which is not reconciliation,
LEMMA OneMoves ==
  ASSUME Inv, NEW c \in Callers, Working(c), CallStep(c),
         \A x \in Callers : x # c => call'[x] = call[x],
         call'[c].pc \notin {"listing", "resolving"}, UNCHANGED <<now, scan>>
  PROVE  (\A x \in Callers : CallStep(x)) /\ ScanStep
<1>1. \A x \in Callers : CallStep(x)
  BY DEF CallStep
<1>2. Worker \in Callers
  BY DEF Callers
<1>3. ScanStep
  BY <1>2, StageNames DEF ScanStep, Scanning, Working
<1> QED
  BY <1>1, <1>3

\* its return from postReply,
LEMMA ReturnStep ==
  ASSUME Inv, NEW c \in Callers, Working(c), NEW o, Return(c, o), UNCHANGED <<now, scan>>,
         Unsent(o) => call[c].pc = "approved" \/ AtEvent(c, "failed")
  PROVE  /\ (\A x \in Callers : CallStep(x)) /\ ScanStep
         /\ ~ Unsent(o) => call'[c].pc \notin Posting
<1>1. /\ Moves(c) /\ call'[c].pc \in {"idle", "drafting", "revert"}
      /\ call'[c].pc = "revert" => c = Worker /\ Unsent(o) /\ call'[c].item = call[c].item
  BY ReturnMoves
<1>2. call'[c].pc = "revert" => SameJob(c)
  BY <1>1, StageNames DEF Moves, SameJob
<1>3. call'[c].at \in {0, call[c].at}
  <2> DEFINE r == [call[c] EXCEPT !.pc = "revert", !.wire = "none", !.old = FALSE]
             s == [Idle EXCEPT !.pc = "drafting", !.at = call[c].at]
  <2>1. r.at = call[c].at /\ s.at = call[c].at /\ Idle.at = 0
    BY DEF Idle, Inv, TypeOK, CallType
  <2>2. call'[c] \in {Idle, r, s}
    BY DEF Return, AfterPost, Inv, TypeOK
  <2> HIDE DEF r, s
  <2> QED
    BY <2>1, <2>2
<1>4. CallStep(c)
  BY <1>1, <1>2, <1>3, StageNames DEF CallStep
<1> QED
  BY <1>1, <1>4, StageNames, OneMoves DEF Moves

\* the outcome it has learnt,
LEMMA RecordStep ==
  ASSUME Inv, NEW c \in Callers, Working(c), NEW o, Record(c, o), UNCHANGED <<now, scan>>,
         Learns(c, o)
  PROVE  (\A x \in Callers : CallStep(x)) /\ ScanStep
<1>1. Moves(c) /\ call'[c].pc = "finPost" /\ call'[c].out = o
  BY RecordMoves
<1>2. SameJob(c) /\ call'[c].old = call[c].old
  BY DEF Record, SameJob, Inv, TypeOK, CallType
<1>3. CallStep(c)
  BY <1>1, <1>2 DEF CallStep, Advances
<1> QED
  BY <1>1, <1>3, OneMoves DEF Moves

\* or its next stage.
LEMMA GotoStep ==
  ASSUME Inv, NEW c \in Callers, Working(c), NEW stage \in Posting, Goto(c, stage),
         UNCHANGED <<now, scan>>,
         call'[c].pc = stage /\ call'[c].out = call[c].out => Advances(c)
  PROVE  (\A x \in Callers : CallStep(x)) /\ ScanStep
<1>1. Moves(c) /\ call'[c].pc = stage /\ call'[c].out = call[c].out
  BY GotoMoves
<1>2. SameJob(c) /\ call'[c].old = call[c].old
  BY DEF Goto, SameJob, Inv, TypeOK, CallType
<1>3. CallStep(c)
  BY <1>1, <1>2 DEF CallStep
<1> QED
  BY <1>1, <1>3, StageNames, OneMoves DEF Moves

\* postReply refuses, and gives up its reservation.
LEMMA PostRefusedStep ==
  ASSUME Inv, NEW c \in Callers, PostRefused(c)
  PROVE  Steps
<1> DEFINE i == call[c].item
           d == call[c].day
           t == ThreadOf[i]
<1>1. Working(c) /\ call[c].pc = "approved"
  BY StageNames DEF PostRefused, Working
<1>2. i \in Items /\ d \in Days /\ t \in Threads
  BY <1>1, ItemOfCall
<1>3. (\A x \in Callers : CallStep(x)) /\ ScanStep
  BY <1>1, ReturnStep DEF PostRefused
<1>4. \A j \in Items, e \in Days : RowStep(j, e)
  <2>1. /\ \A j \in Items : j # i => post'[j] = post[j]
        /\ \A e \in Days : e # d => post'[i][e] = post[i][e]
        /\ post'[i][d] = IF post[i][d] = "ready" THEN "none" ELSE post[i][d]
    BY <1>2 DEF PostRefused, Inv, TypeOK
  <2> QED
    BY <2>1 DEF RowStep
<1>5. \A u \in Threads : ThreadStep(u)
  <2>1. /\ \A u \in Threads : u # t => thread'[u] = thread[u]
        /\ thread'[t] = thread[t] \/ (thread[t] = "ready" /\ thread'[t] = "none")
    BY <1>2 DEF PostRefused, Inv, TypeOK
  <2> QED
    BY <2>1 DEF ThreadStep
<1> QED
  BY <1>3, <1>4, <1>5, Unmoved DEF Steps, PostRefused, eventVars

\* claimKeys meets a send in progress or an outcome nobody saw,
LEMMA ClaimDoubtsStep ==
  ASSUME Inv, NEW c \in Callers, ClaimFreezes(c) \/ ClaimUncertain(c)
  PROVE  Steps
<1> DEFINE i == call[c].item
           d == call[c].day
           t == ThreadOf[i]
<1>1. Working(c) /\ call[c].pc = "approved" /\ Suspect(c) /\ UNCHANGED <<now, scan>>
  BY StageNames DEF ClaimFreezes, ClaimUncertain, Working
<1>2. i \in Items /\ d \in Days /\ t \in Threads /\ \A e \in Days : post[i][e] \in Claimable
  BY <1>1, ItemOfCall DEF Progress
<1>3. (\A x \in Callers : CallStep(x)) /\ ScanStep
  <2>1. /\ Moves(c) /\ call'[c].pc = "finEvent" /\ call'[c].out = "uncertain"
        /\ SameJob(c) /\ call'[c].old = call[c].old
    BY <1>1, SuspectMoves DEF SameJob
  <2>2. CallStep(c)
    BY <1>1, <2>1 DEF CallStep, Advances
  <2> QED
    BY <1>1, <2>1, <2>2, OneMoves DEF Moves
<1>4. \A j \in Items, e \in Days : RowStep(j, e)
  <2>1. CASE ClaimUncertain(c)
    BY <2>1, Unmoved DEF ClaimUncertain, ledgerVars
  <2>2. CASE ClaimFreezes(c)
    <3>1. /\ \A j \in Items : j # i => post'[j] = post[j]
          /\ \A e \in Days : e # d => post'[i][e] = post[i][e]
          /\ post'[i][d] = IF post[i][d] = "posting" THEN "uncertain" ELSE post[i][d]
      BY <1>2, <2>2 DEF ClaimFreezes, Inv, TypeOK
    <3>2. post[i][d] # "posting"
      BY <1>2 DEF Claimable
    <3> QED
      BY <3>1, <3>2 DEF RowStep
  <2> QED
    BY <2>1, <2>2
<1>5. \A u \in Threads : ThreadStep(u)
  <2>1. CASE ClaimUncertain(c)
    BY <2>1, Unmoved DEF ClaimUncertain, ledgerVars
  <2>2. CASE ClaimFreezes(c)
    <3>1. /\ \A u \in Threads : u # t => thread'[u] = thread[u]
          /\ thread'[t] = IF thread[t] = "posting" THEN "uncertain" ELSE thread[t]
      BY <1>2, <2>2 DEF ClaimFreezes, Inv, TypeOK
    <3> QED
      BY <3>1 DEF ThreadStep
  <2> QED
    BY <2>1, <2>2
<1>6. UNCHANGED <<draftVars, uncertainAt, comments, limbo, lapsed>>
  BY DEF ClaimFreezes, ClaimUncertain, eventVars
<1> QED
  BY <1>1, <1>3, <1>4, <1>5, <1>6, Unmoved DEF Steps

\* or refuses.
LEMMA ClaimRefusedStep ==
  ASSUME Inv, NEW c \in Callers, ClaimRefused(c)
  PROVE  Steps
<1>1. PICK o \in {"posted", "failed"} : Return(c, o)
  BY DEF ClaimRefused
<1>2. Working(c) /\ call[c].pc = "approved"
  BY StageNames DEF ClaimRefused, Working
<1>3. (\A x \in Callers : CallStep(x)) /\ ScanStep
  BY <1>1, <1>2, ReturnStep DEF ClaimRefused
<1> QED
  BY <1>3, Unmoved DEF Steps, ClaimRefused, eventVars, ledgerVars

\* claimKeys takes both keys.
LEMMA ClaimOwnedStep ==
  ASSUME Inv, NEW c \in Callers, ClaimOwned(c)
  PROVE  Steps
<1> DEFINE i == call[c].item
           d == call[c].day
           t == ThreadOf[i]
<1>1. Working(c) /\ call[c].pc = "approved"
  BY StageNames DEF ClaimOwned, Working
<1>2. /\ i \in Items /\ d \in Days /\ t \in Threads
      /\ PostKey(c) = post[i][d] /\ ThreadKey(c) = thread[t]
  BY <1>1, ItemOfCall
<1>3. /\ call'[c].pc = "claimed" /\ call'[c].text = body[i] /\ call'[c].old = call[c].old
      /\ SameJob(c) /\ \A x \in Callers : x # c => call'[x] = call[x]
  BY <1>2 DEF ClaimOwned, SameJob, Inv, TypeOK, CallType
<1>4. (\A x \in Callers : CallStep(x)) /\ ScanStep
  <2>1. CallStep(c)
    BY <1>3 DEF CallStep, Advances, ClaimOwned
  <2> QED
    BY <1>1, <1>3, <2>1, OneMoves DEF ClaimOwned
<1>5. {post[i][d], thread[t]} \subseteq Claimable
  BY <1>2 DEF ClaimOwned, MayTake
<1>6. /\ \A j \in Items : j # i => post'[j] = post[j]
      /\ \A e \in Days : e # d => post'[i][e] = post[i][e]
      /\ post'[i][d] = "posting"
      /\ \A u \in Threads : u # t => thread'[u] = thread[u]
      /\ thread'[t] = "posting"
  BY <1>2 DEF ClaimOwned, Inv, TypeOK
<1>7. \A j \in Items, e \in Days : RowStep(j, e)
  <2> SUFFICES ASSUME NEW j \in Items, NEW e \in Days, j = i /\ e = d PROVE RowStep(j, e)
    BY <1>6 DEF RowStep
  <2> QED
    BY <1>5, <1>6 DEF RowStep
<1>8. \A u \in Threads : ThreadStep(u)
  BY <1>5, <1>6 DEF ThreadStep
<1> QED
  BY <1>4, <1>7, <1>8, Unmoved DEF Steps, ClaimOwned, eventVars

\* The request goes out, and Reddit publishes the comment.
LEMMA SendStep ==
  ASSUME Inv, NEW c \in Callers, Send(c) \/ Land(c)
  PROVE  Steps
<1>1. Working(c) /\ UNCHANGED <<now, scan, limbo, lapsed>>
  <2>1. call[c].pc \in {"claimed", "sent"} /\ UNCHANGED <<now, scan, limbo, lapsed>>
    BY DEF Send, Land
  <2> QED
    BY <2>1, StageNames DEF Working
<1>2. \A x \in Callers : x # c => call'[x] = call[x]
  BY DEF Send, Land, Inv, TypeOK
<1>3. /\ call'[c].pc = "sent" /\ call'[c].text = call[c].text /\ call'[c].old = call[c].old
      /\ call'[c].wire = (IF Send(c) THEN "sent" ELSE "landed") /\ SameJob(c)
  <2>1. call[c] \in CallType /\ c \in DOMAIN call
    BY DEF Inv, TypeOK
  <2>2. CASE Send(c)
    BY <2>1, <2>2 DEF Send, SameJob, CallType
  <2>3. CASE Land(c)
    <3>1. call[c].pc = "sent" /\ call' = [call EXCEPT ![c].wire = "landed"]
      BY <2>3 DEF Land
    <3>2. ~ Send(c)
      BY <3>1 DEF Send
    <3> QED
      BY <2>1, <3>1, <3>2 DEF SameJob, CallType
  <2> QED
    BY <2>2, <2>3
<1>4. (\A x \in Callers : CallStep(x)) /\ ScanStep
  <2>1. CallStep(c)
    BY <1>1, <1>3 DEF CallStep, Advances, Send
  <2> QED
    BY <1>1, <1>2, <1>3, <2>1, OneMoves
<1>5. \A i \in Items : CommentStep(i)
  <2>1. CASE Send(c)
    BY <2>1 DEF Send, CommentStep
  <2>2. CASE Land(c)
    BY <2>2 DEF Land, Publish, CommentStep, Inv, TypeOK
  <2> QED
    BY <2>1, <2>2
<1>6. UNCHANGED <<draftVars, uncertainAt, post, thread, lapsed>>
  BY DEF Send, Land, eventVars, ledgerVars
<1> QED
  BY <1>1, <1>4, <1>5, <1>6, Unmoved DEF Steps

\* The ways in which the request ends,
LEMMA AnswersStep ==
  ASSUME Inv, NEW c \in Callers, \/ TokenFails(c, "failed") \/ TokenFails(c, "uncertain")
                                 \/ RespPosted(c) \/ RespRefused(c) \/ Verified(c)
  PROVE  Steps
<1>1. /\ Working(c)
      /\ UNCHANGED <<now, scan, draftVars, uncertainAt, post, thread, comments, limbo, lapsed>>
  BY StageNames DEF TokenFails, RespPosted, RespRefused, Verified, Working, eventVars, ledgerVars
<1>2. PICK o \in Outcomes : Record(c, o) /\ Learns(c, o)
  BY DEF TokenFails, RespPosted, RespRefused, Verified, Learns, Outcomes
<1>3. (\A x \in Callers : CallStep(x)) /\ ScanStep
  BY <1>1, <1>2, RecordStep
<1> QED
  BY <1>1, <1>3, Unmoved DEF Steps

\* one of which leaves it to its fate.
LEMMA RespUnknownStep ==
  ASSUME Inv, NEW c \in Callers, RespUnknown(c)
  PROVE  Steps
<1>1. /\ Working(c) /\ Record(c, "uncertain") /\ call[c].pc = "sent"
      /\ UNCHANGED <<now, scan, draftVars, uncertainAt, post, thread, comments, lapsed>>
  BY StageNames DEF RespUnknown, AfterUnknown, Working, eventVars, ledgerVars
<1>2. (\A x \in Callers : CallStep(x)) /\ ScanStep
  BY <1>1, RecordStep DEF Learns
<1>3. call'[c].pc = "finPost" /\ call'[c].out = "uncertain"
  BY <1>1, RecordMoves
<1>4. limbo' = limbo \/ (call[c].wire = "sent" /\ limbo' = limbo \union {Request(c)})
  BY DEF RespUnknown, AfterUnknown, Request
<1>5. LimboStep
  BY <1>1, <1>3, <1>4 DEF LimboStep, draftVars
<1> QED
  BY <1>1, <1>2, <1>5, Unmoved DEF Steps

\* The outcome is recorded: the post row, the thread row, the event.
LEMMA FinishStep ==
  ASSUME Inv, NEW c \in Callers, FinishPost(c) \/ FinishThread(c) \/ FinishEvent(c) \/ NotVerified(c)
  PROVE  Steps
<1> DEFINE i == call[c].item
           d == call[c].day
           t == ThreadOf[i]
<1>1. Working(c) /\ UNCHANGED <<now, scan, draftVars, comments, limbo, lapsed>>
  BY StageNames DEF FinishPost, FinishThread, FinishEvent, NotVerified, Working
<1>2. i \in Items /\ d \in Days /\ t \in Threads
  BY <1>1, ItemOfCall
<1>3. CASE FinishPost(c)
  <2>1. (\A x \in Callers : CallStep(x)) /\ ScanStep
    BY <1>1, <1>3, StageNames, GotoStep DEF FinishPost, Advances
  <2>2. \A j \in Items, e \in Days : RowStep(j, e)
    <3>1. /\ \A j \in Items : j # i => post'[j] = post[j]
          /\ \A e \in Days : e # d => post'[i][e] = post[i][e]
          /\ post'[i][d] = call[c].out /\ thread' = thread
      BY <1>2, <1>3 DEF FinishPost, Inv, TypeOK
    <3> SUFFICES ASSUME NEW j \in Items, NEW e \in Days, j = i /\ e = d PROVE RowStep(j, e)
      BY <3>1 DEF RowStep
    <3> QED
      BY <1>3, <3>1 DEF RowStep
  <2> QED
    BY <1>1, <1>3, <2>1, <2>2, Unmoved DEF Steps, FinishPost, eventVars
<1>4. CASE FinishThread(c)
  <2>1. (\A x \in Callers : CallStep(x)) /\ ScanStep
    BY <1>1, <1>4, StageNames, GotoStep DEF FinishThread, Advances
  <2>2. \A u \in Threads : ThreadStep(u)
    <3>1. /\ \A u \in Threads : u # t => thread'[u] = thread[u]
          /\ thread'[t] = call[c].out /\ post' = post
      BY <1>2, <1>4 DEF FinishThread, Inv, TypeOK
    <3> QED
      BY <1>4, <3>1 DEF ThreadStep
  <2> QED
    BY <1>1, <1>4, <2>1, <2>2, Unmoved DEF Steps, FinishThread, eventVars
<1>5. CASE FinishEvent(c)
  <2>1. /\ (\A x \in Callers : CallStep(x)) /\ ScanStep
        /\ call[c].out = "uncertain" => call'[c].pc \notin Posting
    <3>1. CASE call[c].out = "posted"
      BY <1>1, <1>5, <3>1, StageNames, GotoStep DEF FinishEvent, Advances, AtEvent
    <3>2. CASE call[c].out # "posted"
      <4>1. /\ Return(c, call[c].out)
            /\ Unsent(call[c].out) => AtEvent(c, "failed")
            /\ call[c].out = "uncertain" => ~ Unsent(call[c].out)
        BY <1>5, <3>2 DEF FinishEvent, Unsent, AtEvent
      <4> QED
        BY <1>1, <4>1, ReturnStep
    <3> QED
      BY <3>1, <3>2
  <2>2. \A j \in Items : DoubtStep(j)
    <3>1. CASE call[c].out # "uncertain"
      BY <1>5, <3>1 DEF FinishEvent, DoubtStep
    <3>2. CASE call[c].out = "uncertain"
      <4>1. uncertainAt' = [uncertainAt EXCEPT ![i] = now]
        BY <1>5, <3>2 DEF FinishEvent
      <4> QED
        BY <1>1, <1>2, <2>1, <3>2, <4>1 DEF DoubtStep, Inv, TypeOK
    <3> QED
      BY <3>1, <3>2
  <2> QED
    BY <1>1, <1>5, <2>1, <2>2, Unmoved DEF Steps, FinishEvent, ledgerVars
<1>6. CASE NotVerified(c)
  <2>1. (\A x \in Callers : CallStep(x)) /\ ScanStep
    BY <1>1, <1>6, ReturnStep DEF NotVerified, Unverified, Unsent
  <2> QED
    BY <1>1, <1>6, <2>1, Unmoved DEF Steps, NotVerified, eventVars, ledgerVars
<1> QED
  BY <1>3, <1>4, <1>5, <1>6

\* Requests without a caller settle.
LEMMA LimboStepOk ==
  ASSUME Inv, NEW r \in limbo, LimboLands(r) \/ LimboLost(r)
  PROVE  Steps
<1>1. /\ UNCHANGED <<now, scan, call, draftVars, uncertainAt, post, thread, lapsed>>
      /\ limbo' = limbo \ {r}
  BY DEF LimboLands, LimboLost, eventVars, ledgerVars
<1>2. (\A x \in Callers : CallStep(x)) /\ ScanStep /\ LimboStep
  BY <1>1 DEF CallStep, ScanStep, LimboStep
<1>3. \A i \in Items : CommentStep(i)
  BY DEF LimboLands, LimboLost, Publish, CommentStep, Inv, TypeOK
<1> QED
  BY <1>1, <1>2, <1>3, Unmoved DEF Steps

\* Nobody who is posting moves, and reconciliation rests.
LEMMA ElsewhereStep ==
  ASSUME Inv, UNCHANGED <<now, scan>>,
         call' = call \/ /\ ~ Scanning /\ call'[Worker].pc \notin Posting \union {"listing", "resolving"}
                         /\ call'[Worker].at \in {0, now, call[Worker].at}
                         /\ \A x \in Callers : x # Worker => call'[x] = call[x]
  PROVE  (\A x \in Callers : CallStep(x)) /\ ScanStep
<1>1. \A x \in Callers : CallStep(x)
  BY DEF CallStep
<1>2. ScanStep
  BY DEF ScanStep, Scanning
<1> QED
  BY <1>1, <1>2

\* The worker begins or ends a draft pass, or drafts a reply.
LEMMA StagesStep ==
  ASSUME Inv, \/ StartDrafts \/ EndDrafts
              \/ \E i \in Items, auto \in BOOLEAN : DraftReply(i, auto)
  PROVE  Steps
<1>1. /\ Worker \in Callers /\ ~ Scanning
      /\ UNCHANGED <<now, scan, uncertainAt, post, thread, comments, limbo, lapsed>>
  BY DEF Callers, StartDrafts, EndDrafts, DraftReply, Scanning, eventVars, ledgerVars
<1>2. (\A x \in Callers : CallStep(x)) /\ ScanStep
  <2>1. CASE StartDrafts \/ EndDrafts
    <3>1. \E r : /\ call' = [call EXCEPT ![Worker] = r]
                  /\ r.pc \in {"drafting", "idle"} /\ r.at \in {0, now}
      <4> DEFINE r == [Idle EXCEPT !.pc = "drafting", !.at = now]
      <4>1. r.pc = "drafting" /\ r.at = now /\ Idle.pc = "idle" /\ Idle.at = 0
        BY DEF Idle
      <4> QED
        BY <2>1, <4>1 DEF StartDrafts, EndDrafts
    <3>2. /\ \A x \in Callers : x # Worker => call'[x] = call[x]
          /\ call'[Worker].pc \in {"drafting", "idle"} /\ call'[Worker].at \in {0, now}
      BY <1>1, <3>1 DEF Inv, TypeOK
    <3> QED
      BY <1>1, <3>2, StageNames, ElsewhereStep
  <2>2. ASSUME NEW i \in Items, NEW auto \in BOOLEAN, DraftReply(i, auto)
        PROVE  (\A x \in Callers : CallStep(x)) /\ ScanStep
    <3>1. CASE auto
      <4>1. /\ \A x \in Callers : x # Worker => call'[x] = call[x]
            /\ call'[Worker].pc = "drafted" /\ call'[Worker].at = call[Worker].at
        <5> DEFINE r == [call[Worker] EXCEPT !.pc = "drafted", !.item = i, !.text = body[i]]
        <5>1. r.pc = "drafted" /\ r.at = call[Worker].at
          BY <1>1 DEF Inv, TypeOK, CallType
        <5>2. call' = [call EXCEPT ![Worker] = r]
          BY <1>1, <2>2, <3>1 DEF DraftReply, Inv, TypeOK
        <5> HIDE DEF r
        <5> QED
          BY <1>1, <5>1, <5>2 DEF Inv, TypeOK
      <4>2. "drafted" \notin Posting
        BY DEF Posting, Waiting
      <4> QED
        BY <1>1, <4>1, <4>2, ElsewhereStep
    <3>2. CASE ~ auto
      BY <1>1, <2>2, <3>2, ElsewhereStep DEF DraftReply
    <3> QED
      BY <3>1, <3>2
  <2> QED
    BY <2>1, <2>2
<1>3. \A i \in Items : DraftStep(i)
  BY DEF StartDrafts, EndDrafts, DraftReply, draftVars, DraftStep, Inv, TypeOK
<1> QED
  BY <1>1, <1>2, <1>3, Unmoved DEF Steps

\* Edits, refusals, the pause flag, and no step at all.
LEMMA DecisionsStep ==
  ASSUME Inv, \/ \E i \in Items : Edit(i) \/ Ignore(i)
              \/ Pause \/ Resume
              \/ UNCHANGED vars
  PROVE  Steps
<1>1. UNCHANGED <<now, scan, call, uncertainAt, post, thread, comments, limbo, lapsed>>
  BY DEF Edit, Ignore, Pause, Resume, vars, eventVars, ledgerVars
<1>2. (\A x \in Callers : CallStep(x)) /\ ScanStep
  BY <1>1, ElsewhereStep
<1>3. \A i \in Items : DraftStep(i)
  BY DEF Edit, Ignore, Pause, Resume, vars, draftVars, DraftStep, Inv, TypeOK
<1> QED
  BY <1>1, <1>2, <1>3, Unmoved DEF Steps

\* A draft is approved and its caller enters postReply.
LEMMA EnterSteps ==
  ASSUME Inv, NEW c \in Callers, NEW i \in Items, NEW t \in Time, NEW kind,
         ~ Working(c), draft[i] = "pending", t \in {now, call[c].at},
         call' = [call EXCEPT ![c] = Begin(i, kind, t)], ApproveDraft(i, body[i], t),
         UNCHANGED <<now, scan>>, ~ Scanning \/ c # Worker
  PROVE  (\A x \in Callers : CallStep(x)) /\ ScanStep /\ \A j \in Items : DraftStep(j)
<1> DEFINE r == Begin(i, kind, t)
<1>1. r.pc = "approved" /\ r.item = i /\ r.at = t /\ r.old = FALSE
  BY DEF Begin, Idle
<1> HIDE DEF r
<1>2. call'[c] = r /\ \A x \in Callers : x # c => call'[x] = call[x]
  BY DEF r, Inv, TypeOK
<1>3. \A x \in Callers : CallStep(x)
  <2>1. Enters(c, i)
    BY <1>1, <1>2 DEF Enters
  <2> QED
    BY <1>2, <2>1 DEF CallStep
<1>4. ScanStep
  BY <1>1, <1>2 DEF ScanStep, Scanning, Callers
<1>5. \A j \in Items : DraftStep(j)
  <2>1. ASSUME NEW j \in Items, j # i PROVE DraftStep(j)
    BY <2>1 DEF ApproveDraft, DraftStep, Inv, TypeOK
  <2>2. DraftStep(i)
    BY DEF ApproveDraft, DraftStep, Inv, TypeOK
  <2> QED
    BY <2>1, <2>2
<1> QED
  BY <1>3, <1>4, <1>5

\* aha_approve with its reservation,
LEMMA ApproveStep ==
  ASSUME Inv, NEW g \in Gateways, NEW i \in Items, Approve(g, i)
  PROVE  Steps
<1> DEFINE d == Day(now)
           t == ThreadOf[i]
<1>1. g \in Callers /\ g # Worker /\ ~ Working(g) /\ now \in Time
  BY CallersAssumption, StageNames DEF Approve, Callers, Working, Inv, TypeOK
<1>2. d \in Days /\ t \in Threads
  BY <1>1, DayOfTime, ThreadsAssumption
<1>3. (\A x \in Callers : CallStep(x)) /\ ScanStep /\ \A j \in Items : DraftStep(j)
  BY <1>1, EnterSteps DEF Approve
<1>4. \A j \in Items, e \in Days : RowStep(j, e)
  <2>1. /\ \A j \in Items : j # i => post'[j] = post[j]
        /\ \A e \in Days : e # d => post'[i][e] = post[i][e]
        /\ post'[i][d] = IF post[i][d] = "none" THEN "ready" ELSE post[i][d]
    BY <1>2 DEF Approve, RecordReady, Inv, TypeOK
  <2> QED
    BY <2>1 DEF RowStep
<1>5. \A u \in Threads : ThreadStep(u)
  <2>1. /\ \A u \in Threads : u # t => thread'[u] = thread[u]
        /\ thread'[t] = IF thread[t] = "none" THEN "ready" ELSE thread[t]
    BY <1>2 DEF Approve, RecordReady, Inv, TypeOK
  <2> QED
    BY <2>1 DEF ThreadStep
<1> QED
  BY <1>3, <1>4, <1>5, Unmoved DEF Steps, Approve, eventVars

\* and the L2 transaction, either way.
LEMMA AutoApproveStep ==
  ASSUME Inv, AutoApprove
  PROVE  Steps
<1> DEFINE w == call[Worker]
<1>1. /\ Worker \in Callers /\ w.pc = "drafted" /\ ~ Working(Worker) /\ ~ Scanning
      /\ w.item \in Items /\ w.at \in Time
      /\ UNCHANGED <<now, scan, uncertainAt, post, thread, comments, limbo, lapsed>>
  <2>1. Worker \in Callers /\ w.pc = "drafted"
    BY DEF AutoApprove, Callers
  <2>2. ~ Working(Worker) /\ ~ Scanning
    BY <2>1 DEF Working, Posting, Waiting, Scanning
  <2>3. w.item \in Items /\ w.at \in Time
    BY <2>1, CallFields DEF Inv, CallOK, TypeOK
  <2> QED
    BY <2>1, <2>2, <2>3 DEF AutoApprove, eventVars, ledgerVars
<1>2. CASE CheckPolicy(w.item, w.at) /\ BodyUnchanged(w.item, w.text)
  <2>1. /\ draft[w.item] = "pending" /\ ApproveDraft(w.item, body[w.item], w.at)
        /\ call' = [call EXCEPT ![Worker] = Begin(w.item, "auto", w.at)]
        /\ w.at \in {now, call[Worker].at}
    BY <1>2 DEF AutoApprove, BodyUnchanged
  <2> HIDE DEF w
  <2>2. (\A x \in Callers : CallStep(x)) /\ ScanStep /\ \A j \in Items : DraftStep(j)
    BY <1>1, <2>1, EnterSteps
  <2> QED
    BY <1>1, <2>2, Unmoved DEF Steps
<1>3. CASE ~ (CheckPolicy(w.item, w.at) /\ BodyUnchanged(w.item, w.text))
  <2>1. /\ call' = [call EXCEPT ![Worker] = [Idle EXCEPT !.pc = "drafting", !.at = w.at]]
        /\ UNCHANGED draftVars
    BY <1>3 DEF AutoApprove
  <2>2. /\ \A x \in Callers : x # Worker => call'[x] = call[x]
        /\ call'[Worker].pc = "drafting" /\ call'[Worker].at = w.at
    BY <1>1, <2>1 DEF Idle, Inv, TypeOK
  <2>3. (\A x \in Callers : CallStep(x)) /\ ScanStep
    BY <1>1, <2>2, StageNames, ElsewhereStep
  <2> QED
    BY <1>1, <2>1, <2>3, Unmoved DEF Steps
<1> QED
  BY <1>2, <1>3

\* The worker takes an approval back.
LEMMA RevertStep ==
  ASSUME Inv, Revert
  PROVE  Steps
<1> DEFINE i == call[Worker].item
           r == [Idle EXCEPT !.pc = "drafting", !.at = call[Worker].at]
<1>1. /\ Worker \in Callers /\ Working(Worker)
      /\ UNCHANGED <<now, scan, uncertainAt, post, thread, comments, limbo, lapsed>>
  BY StageNames DEF Revert, Callers, Working, eventVars, ledgerVars
<1>2. i \in Items /\ draft[i] = "approved"
  BY <1>1, ItemOfCall DEF Inv, IInv, Approval
<1>3. /\ r.pc = "drafting" /\ r.at = call[Worker].at
      /\ call' = [call EXCEPT ![Worker] = r]
  BY DEF Revert, Idle
<1> HIDE DEF r
<1>4. call'[Worker] = r /\ \A x \in Callers : x # Worker => call'[x] = call[x]
  BY <1>1, <1>3 DEF Inv, TypeOK
<1>5. (\A x \in Callers : CallStep(x)) /\ ScanStep
  <2>1. CallStep(Worker)
    BY <1>1, <1>3, <1>4, StageNames DEF CallStep
  <2> QED
    BY <1>1, <1>3, <1>4, <2>1, OneMoves
<1>6. \A j \in Items : DraftStep(j)
  BY <1>1, <1>2 DEF Revert, DraftStep, Inv, TypeOK
<1> QED
  BY <1>1, <1>5, <1>6, Unmoved DEF Steps

\* A crash gives up what is on the wire.
LEMMA CrashStep ==
  ASSUME Inv, Crash
  PROVE  Steps
<1>1. /\ UNCHANGED <<now, draftVars, uncertainAt, post, thread, comments, lapsed>>
      /\ scan' = NoScan
      /\ \A x \in Callers : call'[x].pc = "idle" /\ call'[x].at = 0
  BY DEF Crash, Idle, eventVars, ledgerVars
<1>2. (\A x \in Callers : CallStep(x)) /\ ScanStep
  BY <1>1, StageNames DEF CallStep, ScanStep
<1>3. LimboStep
  <2>1. \A r \in limbo' \ limbo : \E c \in Callers : call[c].wire = "sent" /\ r = Request(c)
    BY DEF Crash, Request
  <2> QED
    BY <1>1, <2>1 DEF LimboStep, draftVars, Inv, CallShape
<1> QED
  BY <1>1, <1>2, <1>3, Unmoved DEF Steps

\* A tick.
LEMMA TickStep ==
  ASSUME Inv, Tick
  PROVE  Steps
<1>1. /\ UNCHANGED <<scan, draftVars, uncertainAt, post, thread, comments, limbo, lapsed>>
      /\ limbo = {}
  BY DEF Tick, eventVars, ledgerVars
<1>2. \A x \in Callers : call'[x] = [call[x] EXCEPT !.old = call[x].pc \in Posting]
  BY DEF Tick
<1>3. \A x \in Callers : CallStep(x)
  BY <1>2 DEF CallStep
<1>4. ScanStep
  <2>1. Worker \in Callers
    BY DEF Callers
  <2>2. ASSUME NEW b PROVE [call[Worker] EXCEPT !.old = b].pc = call[Worker].pc
    BY <2>1 DEF Inv, TypeOK, CallType
  <2>3. call'[Worker].pc = call[Worker].pc
    BY <1>2, <2>1, <2>2
  <2> QED
    BY <1>1, <2>3 DEF ScanStep
<1> QED
  BY <1>1, <1>3, <1>4, Unmoved DEF Steps

\* aha_retry enters with its claim.
LEMMA RetryStep ==
  ASSUME Inv, NEW g \in Gateways, NEW i \in Items, Retry(g, i)
  PROVE  Steps
<1> DEFINE d == Day(now)
           t == ThreadOf[i]
           r == [Begin(i, "retry", now) EXCEPT !.pc = "claimed", !.text = body[i]]
<1>1. g \in Callers /\ g # Worker /\ ~ Working(g) /\ now \in Time
  BY CallersAssumption, StageNames DEF Retry, Callers, Working, Inv, TypeOK
<1>2. d \in Days /\ t \in Threads
  BY <1>1, DayOfTime, ThreadsAssumption
<1>3. r.pc = "claimed" /\ r.item = i /\ r.at = now /\ r.old = FALSE /\ r.text = body[i]
  BY DEF Begin, Idle
<1>4. call' = [call EXCEPT ![g] = r] /\ UNCHANGED <<now, scan, uncertainAt, comments, limbo, lapsed>>
  BY DEF Retry
<1> HIDE DEF r
<1>5. call'[g] = r /\ \A x \in Callers : x # g => call'[x] = call[x]
  BY <1>1, <1>4 DEF Inv, TypeOK
<1>6. \A x \in Callers : CallStep(x)
  <2>1. Enters(g, i)
    BY <1>1, <1>3, <1>4, <1>5 DEF Enters
  <2> QED
    BY <1>4, <1>5, <2>1 DEF CallStep
<1>7. ScanStep
  BY <1>1, <1>4, <1>5 DEF ScanStep, Callers
<1>8. /\ \A j \in Items : j # i => post'[j] = post[j]
      /\ \A e \in Days : e # d => post'[i][e] = post[i][e]
      /\ post'[i][d] = "posting"
      /\ \A u \in Threads : u # t => thread'[u] = thread[u]
      /\ thread'[t] = "posting" /\ thread[t] = "absent"
  BY <1>2 DEF Retry, RetryAllowed, Inv, TypeOK
<1>9. \A j \in Items, e \in Days : RowStep(j, e)
  <2> SUFFICES ASSUME NEW j \in Items, NEW e \in Days, j = i /\ e = d PROVE RowStep(j, e)
    BY <1>8 DEF RowStep
  <2> QED
    BY <1>8 DEF RowStep
<1>10. \A u \in Threads : ThreadStep(u)
  BY <1>8 DEF ThreadStep
<1>11. \A j \in Items : DraftStep(j)
  BY DEF Retry, DraftStep, Inv, TypeOK
<1> QED
  BY <1>4, <1>6, <1>7, <1>9, <1>10, <1>11, Unmoved DEF Steps

\* A stale attempt is frozen.
LEMMA FreezeStep ==
  ASSUME Inv, FreezeStale
  PROVE  Steps
<1>1. PICK k \in StaleKeys :
        /\ post' = [post EXCEPT ![k[1]][k[2]] = "uncertain"]
        /\ thread' = [thread EXCEPT ![ThreadOf[k[1]]] = "uncertain"]
        /\ uncertainAt' = [uncertainAt EXCEPT ![k[1]] = Later(@, approvedAt[k[1]])]
        /\ lapsed' = lapsed \union {ThreadOf[r.item] : r \in {q \in limbo : q.item = k[1]}}
  BY DEF FreezeStale
<1>2. UNCHANGED <<now, draftVars, call, scan, comments, limbo>>
  BY DEF FreezeStale
<1>3. /\ k[1] \in Items /\ k[2] \in Days /\ post[k[1]][k[2]] = "posting"
      /\ thread[ThreadOf[k[1]]] = "posting" /\ IsStale(k[1]) /\ ThreadOf[k[1]] \in Threads
  BY <1>1, ThreadsAssumption DEF StaleKeys
<1>4. (\A x \in Callers : CallStep(x)) /\ ScanStep
  BY <1>2, ElsewhereStep
<1>5. \A i \in Items : DoubtStep(i)
  <2>1. \A r \in limbo : r.item = k[1] => ThreadOf[k[1]] \in lapsed'
    BY <1>1
  <2> QED
    BY <1>1, <1>3, <2>1 DEF DoubtStep, Inv, TypeOK
<1>6. /\ \A j \in Items : j # k[1] => post'[j] = post[j]
      /\ \A e \in Days : e # k[2] => post'[k[1]][e] = post[k[1]][e]
      /\ post'[k[1]][k[2]] = "uncertain"
      /\ \A u \in Threads : u # ThreadOf[k[1]] => thread'[u] = thread[u]
      /\ thread'[ThreadOf[k[1]]] = "uncertain"
  BY <1>1, <1>3 DEF Inv, TypeOK
<1>7. \A j \in Items, e \in Days : RowStep(j, e)
  <2> SUFFICES ASSUME NEW j \in Items, NEW e \in Days, j = k[1] /\ e = k[2] PROVE RowStep(j, e)
    BY <1>6 DEF RowStep
  <2> QED
    BY <1>3, <1>6 DEF RowStep
<1>8. \A u \in Threads : ThreadStep(u)
  BY <1>3, <1>6 DEF ThreadStep
<1>9. LapseStep
  <2>1. \A u \in Threads : RecordOf(u)' = RecordOf(u)
    BY <1>3, <1>6 DEF RecordOf
  <2>2. CASE \A r \in limbo : r.item # k[1]
    BY <1>1, <2>2 DEF LapseStep
  <2>3. ASSUME NEW r \in limbo, r.item = k[1]
        PROVE  LapseStep
    <3>1. lapsed' = lapsed \union {ThreadOf[r.item]}
      BY <1>1, <2>3
    <3> QED
      BY <1>2, <1>3, <2>1, <2>3, <3>1 DEF LapseStep, Open
  <2> QED
    BY <2>2, <2>3
<1> QED
  BY <1>2, <1>4, <1>5, <1>7, <1>8, <1>9, Unmoved DEF Steps

\* The scan begins, and its listing arrives.
LEMMA ScanningStep ==
  ASSUME Inv, \/ StartScan
              \/ \E found \in SUBSET scan.todo, covers \in BOOLEAN : ScanListing(found, covers)
  PROVE  Steps
<1>1. /\ Worker \in Callers /\ ScanStep
      /\ UNCHANGED <<now, draftVars, uncertainAt, post, thread, comments, limbo, lapsed>>
  BY DEF StartScan, ScanListing, Callers, ScanStep, eventVars, ledgerVars
<1>2. call' = call \/ \E r : /\ call' = [call EXCEPT ![Worker] = r]
                             /\ r.pc \in {"idle", "listing", "resolving"}
                             /\ r.at \in {0, call[Worker].at}
  <2>1. CASE StartScan
    <3>1. /\ [Idle EXCEPT !.pc = "listing"].pc = "listing"
          /\ [Idle EXCEPT !.pc = "listing"].at = 0
      BY DEF Idle
    <3> QED
      BY <2>1, <3>1 DEF StartScan
  <2>2. ASSUME NEW found \in SUBSET scan.todo, NEW covers \in BOOLEAN, ScanListing(found, covers)
        PROVE  \E r : /\ call' = [call EXCEPT ![Worker] = r] /\ r.pc \in {"idle", "resolving"}
                      /\ r.at \in {0, call[Worker].at}
    <3> DEFINE r == [call[Worker] EXCEPT !.pc = "resolving"]
    <3>1. r.pc = "resolving" /\ r.at = call[Worker].at /\ Idle.pc = "idle" /\ Idle.at = 0
      BY <1>1 DEF Idle, Inv, TypeOK, CallType
    <3>2. call' = [call EXCEPT ![Worker] = Idle] \/ call' = [call EXCEPT ![Worker] = r]
      BY <1>1, <2>2 DEF ScanListing, Goto, Inv, TypeOK
    <3> QED
      BY <3>1, <3>2
  <2> QED
    BY <2>1, <2>2
<1>3. \A x \in Callers : CallStep(x)
  <2>1. \A x \in Callers : \/ call'[x] = call[x]
                          \/ /\ call'[x].pc \in {"idle", "listing", "resolving"}
                             /\ call'[x].at \in {0, call[x].at}
    BY <1>1, <1>2 DEF Inv, TypeOK
  <2> QED
    BY <1>1, <2>1, StageNames DEF CallStep
<1> QED
  BY <1>1, <1>3, Unmoved DEF Steps

\* An attempt in doubt is resolved.
LEMMA ScanResolveStep ==
  ASSUME Inv, NEW k \in scan.todo, ScanResolve(k)
  PROVE  Steps
<1> DEFINE s == IF k \in scan.found THEN "verified" ELSE "absent"
<1>1. /\ Worker \in Callers
      /\ UNCHANGED <<now, draftVars, uncertainAt, comments, limbo, lapsed>>
      /\ post' = [post EXCEPT ![k[1]][k[2]] = s]
      /\ thread' = [thread EXCEPT ![ThreadOf[k[1]]] = s]
  BY DEF ScanResolve, Callers, eventVars
<1>2. k[1] \in Items /\ k[2] \in Days /\ k = <<k[1], k[2]>> /\ ThreadOf[k[1]] \in Threads
  BY ThreadsAssumption DEF Inv, TypeOK
<1>3. (\A x \in Callers : CallStep(x)) /\ ScanStep
  <2>1. CASE scan.todo \ {k} = {}
    <3>1. /\ call' = [call EXCEPT ![Worker] = Idle] /\ scan' = NoScan
          /\ Idle.pc = "idle" /\ Idle.at = 0
      BY <2>1 DEF ScanResolve, Idle
    <3>2. \A x \in Callers : call'[x] = call[x] \/ (call'[x].pc = "idle" /\ call'[x].at = 0)
      BY <1>1, <3>1 DEF Inv, TypeOK
    <3> QED
      BY <1>1, <3>1, <3>2, StageNames DEF CallStep, ScanStep
  <2>2. CASE scan.todo \ {k} # {}
    BY <1>1, <2>2 DEF ScanResolve, CallStep, ScanStep
  <2> QED
    BY <2>1, <2>2
<1>4. /\ \A j \in Items : j # k[1] => post'[j] = post[j]
      /\ \A e \in Days : e # k[2] => post'[k[1]][e] = post[k[1]][e]
      /\ post'[k[1]][k[2]] = s
      /\ \A u \in Threads : u # ThreadOf[k[1]] => thread'[u] = thread[u]
      /\ thread'[ThreadOf[k[1]]] = s
  BY <1>1, <1>2 DEF Inv, TypeOK
<1>5. \A j \in Items, e \in Days : RowStep(j, e)
  <2>1. RowStep(k[1], k[2])
    BY <1>2, <1>4 DEF RowStep
  <2> SUFFICES ASSUME NEW j \in Items, NEW e \in Days, j # k[1] \/ e # k[2] PROVE RowStep(j, e)
    BY <2>1
  <2> QED
    BY <1>4 DEF RowStep
<1>6. \A u \in Threads : ThreadStep(u)
  BY <1>4 DEF ThreadStep
<1> QED
  BY <1>1, <1>3, <1>5, <1>6, Unmoved DEF Steps

\* So it is with every step.
LEMMA NextSteps ==
  ASSUME Inv, [Next]_vars
  PROVE  Steps
<1>1. ASSUME NEW c \in Callers, Caller(c) PROVE Steps
  BY <1>1, PostRefusedStep, ClaimDoubtsStep, ClaimRefusedStep, ClaimOwnedStep, SendStep,
     AnswersStep, RespUnknownStep, FinishStep DEF Caller
<1>2. CASE Reddit
  BY <1>2, SendStep, LimboStepOk DEF Reddit
<1>3. CASE Stage
  BY <1>3, StagesStep, AutoApproveStep, RevertStep, FreezeStep, ScanningStep, ScanResolveStep DEF Stage
<1>4. CASE Tool
  BY <1>4, ApproveStep, RetryStep, DecisionsStep DEF Tool
<1>5. CASE Crash \/ Tick \/ UNCHANGED vars
  BY <1>5, CrashStep, TickStep, DecisionsStep
<1> QED
  BY <1>1, <1>2, <1>3, <1>4, <1>5 DEF Next

\* The stages a caller at work goes through.
Proceeds(c) ==
  \/ /\ call[c].pc = "approved" /\ ClaimOwned(c)
     /\ call'[c].pc = "claimed" /\ call'[c].text = body[call[c].item]
  \/ /\ call[c].pc = "claimed" /\ call'[c].pc = "sent" /\ call'[c].wire = "sent"
     /\ call'[c].text = call[c].text
  \/ /\ call[c].pc = "sent" /\ call[c].wire = "sent" /\ Land(c)
     /\ call'[c].pc = "sent" /\ call'[c].wire = "landed" /\ call'[c].text = call[c].text
  \/ /\ call[c].pc \in {"claimed", "sent", "verify"} /\ call'[c].pc = "finPost"
     /\ Learns(c, call'[c].out)
  \/ /\ call[c].pc = "finPost" /\ call'[c].pc = "finThread" /\ call'[c].out = call[c].out
     /\ FinishPost(c)
  \/ /\ call[c].pc = "finThread" /\ call'[c].pc = "finEvent" /\ call'[c].out = call[c].out
     /\ FinishThread(c)
  \/ call[c].pc = "finEvent" /\ call[c].out = "posted" /\ call'[c].pc = "verify"
  \/ call[c].pc = "approved" /\ call'[c].pc = "finEvent" /\ call'[c].out = "uncertain"

Unchanging(c) ==
  /\ SameJob(c) /\ call'[c].pc = call[c].pc /\ call'[c].out = call[c].out
  /\ call'[c].text = call[c].text /\ call'[c].wire = call[c].wire

\* Whoever is at work after a step was at work before, or enters.
LEMMA CallCases ==
  ASSUME Inv, Steps, NEW c \in Callers, call'[c].pc \in Posting
  PROVE  \/ Unchanging(c) /\ Working(c)
         \/ /\ c = Worker /\ SameJob(c) /\ Working(c) /\ call'[c].pc = "revert"
            /\ call[c].pc = "approved" \/ AtEvent(c, "failed")
         \/ SameJob(c) /\ Working(c) /\ Proceeds(c)
         \/ \E i \in Items : Enters(c, i)
<1>1. CASE call'[c] = call[c]
  BY <1>1 DEF Unchanging, SameJob, Working
<1>2. CASE Tick /\ call'[c] = [call[c] EXCEPT !.old = call[c].pc \in Posting]
  <2>1. ASSUME NEW b
        PROVE  LET r == [call[c] EXCEPT !.old = b]
               IN  /\ r.pc = call[c].pc /\ r.item = call[c].item /\ r.day = call[c].day
                   /\ r.at = call[c].at /\ r.out = call[c].out /\ r.text = call[c].text
                   /\ r.wire = call[c].wire
    BY DEF Inv, TypeOK, CallType
  <2> DEFINE r == [call[c] EXCEPT !.old = call[c].pc \in Posting]
  <2>2. /\ r.pc = call[c].pc /\ r.item = call[c].item /\ r.day = call[c].day
        /\ r.at = call[c].at /\ r.out = call[c].out /\ r.text = call[c].text
        /\ r.wire = call[c].wire
    BY <2>1
  <2>3. call'[c] = r
    BY <1>2
  <2> HIDE DEF r
  <2> QED
    BY <2>2, <2>3 DEF Unchanging, SameJob, Working
<1>3. CASE SameJob(c) /\ Advances(c)
  <2>1. ClaimOwned(c) => call[c].pc = "approved"
    BY DEF ClaimOwned
  <2>2. Land(c) => call[c].pc = "sent" /\ call[c].wire = "sent"
    BY DEF Land
  <2>3. /\ FinishPost(c) => call[c].pc = "finPost"
        /\ FinishThread(c) => call[c].pc = "finThread"
        /\ RespUnknown(c) => call[c].pc = "sent"
    BY DEF FinishPost, FinishThread, RespUnknown
  <2>4. Proceeds(c)
    <3>1. Learns(c, call'[c].out) => call[c].pc \in {"claimed", "sent", "verify"}
      BY <2>3 DEF Learns
    <3> QED
      BY <1>3, <2>1, <2>2, <2>3, <3>1 DEF Advances, Proceeds, AtEvent
  <2> QED
    BY <1>3, <2>4, StageNames DEF Proceeds, Working
<1> QED
  BY <1>1, <1>2, <1>3, StageNames DEF Steps, CallStep, AtEvent, Working

\* A sequence without indices is empty.
LEMMA EmptyDomain ==
  ASSUME NEW S, NEW s \in Seq(S), DOMAIN s = {}
  PROVE  s = <<>>
<1>1. Len(s) \in Nat /\ DOMAIN s = 1 .. Len(s)
  OBVIOUS
<1>2. Len(s) = 0
  BY <1>1
<1> QED
  BY <1>2
-----------------------------------------------------------------------------
(***************************************************************************)
(* Only approved text. A draft goes back to pending only while nothing of  *)
(* it is, or can still get, out: its caller knows that its request was     *)
(* never sent or was refused.                                              *)
(***************************************************************************)
Nothing(i) == comments[i] = <<>> /\ \A r \in limbo : r.item # i

Unposted(c) == \/ call[c].pc \in {"approved", "claimed", "revert"}
               \/ call[c].pc = "sent" /\ call[c].wire = "sent"
               \/ call[c].pc \in {"finPost", "finThread", "finEvent"} /\ call[c].out = "failed"

ApprovedBodies == \A i \in Items : draft[i] = "approved" => okBody[i] = body[i]
CallersText    == \A c \in Callers : call[c].pc \in Waiting => call[c].text = body[call[c].item]
LimboText      == \A r \in limbo : draft[r.item] = "approved" /\ r.body = body[r.item]
CommentsText   == \A i \in Items : \A n \in DOMAIN comments[i] :
                    draft[i] = "approved" /\ comments[i][n].body = body[i]
WorkerUnposted == Unposted(Worker) => Nothing(call[Worker].item)

TextInv == ApprovedBodies /\ CallersText /\ LimboText /\ CommentsText /\ WorkerUnposted

\* An item stays without comments until its request is answered or given up.
LEMMA NothingKept ==
  ASSUME Inv, Steps, NEW i \in Items, Nothing(i),
         \A c \in Callers : call[c].item = i /\ call[c].pc = "sent" /\ call[c].wire = "sent" =>
           \/ call'[c].pc = "sent" /\ call'[c].wire = "sent"
           \/ call'[c].pc = "finPost" /\ call'[c].out = "failed"
  PROVE  Nothing(i)'
<1>1. comments'[i] = <<>>
  <2>1. ASSUME NEW c \in Callers, Land(c), call[c].item = i PROVE FALSE
    <3>1. call'[c].wire = "landed" /\ call'[c].pc = "sent"
      BY <2>1 DEF Land, Inv, TypeOK, CallType
    <3> QED
      BY <2>1, <3>1 DEF Land
  <2> QED
    BY <2>1 DEF Steps, CommentStep, Nothing
<1>2. \A r \in limbo' : r.item # i
  BY DEF Steps, LimboStep, Nothing, Request
<1> QED
  BY <1>1, <1>2 DEF Nothing

\* A text that is approved stays so unless the worker takes it back, and then
\* nothing of it is out.
LEMMA ApprovedStays ==
  ASSUME Inv, Steps, TextInv, NEW i \in Items, draft[i] = "approved"
  PROVE  \/ draft'[i] = "approved" /\ UNCHANGED <<body[i], okBody[i]>>
         \/ /\ call[Worker].pc = "revert" /\ call[Worker].item = i
            /\ Nothing(i) /\ Nothing(i)'
<1>1. \/ draft'[i] = "approved" /\ UNCHANGED <<body[i], okBody[i]>>
      \/ Revert /\ call[Worker].item = i
  BY DEF Steps, DraftStep
<1>2. ASSUME Revert, call[Worker].item = i
      PROVE  call[Worker].pc = "revert" /\ Nothing(i) /\ Nothing(i)'
  <2>1. call[Worker].pc = "revert" /\ Nothing(i)
    BY <1>2 DEF Revert, TextInv, WorkerUnposted, Unposted
  <2>2. ASSUME NEW c \in Callers, call[c].item = i, call[c].pc = "sent" PROVE FALSE
    BY <1>2, <2>1, <2>2, StageNames DEF Inv, IInv, OneCallerPerItem, Working, Callers
  <2> QED
    BY <2>1, <2>2, NothingKept
<1> QED
  BY <1>1, <1>2

\* Texts are kept: drafts, callers, requests and comments agree in the next state.
LEMMA TextStep ==
  ASSUME Inv, Steps, TextInv
  PROVE  TextInv'
<1>1. ApprovedBodies'
  BY DEF Steps, DraftStep, TextInv, ApprovedBodies
<1>2. CallersText'
  <2> SUFFICES ASSUME NEW c \in Callers, call'[c].pc \in Waiting
               PROVE  call'[c].text = body'[call'[c].item]
    BY DEF CallersText
  <2>1. CallStep(c) /\ call'[c].pc \in {"claimed", "sent"}
    BY DEF Steps, Waiting
  <2>2. CASE \E i \in Items : Enters(c, i)
    BY <2>1, <2>2 DEF Enters, Retry
  <2>3. CASE ~ \E i \in Items : Enters(c, i)
    <3>1. Working(c) /\ call'[c].item = call[c].item /\ call[c].pc # "revert"
          /\ \/ call'[c].text = call[c].text /\ call[c].pc \in Waiting
             \/ call'[c].text = body[call[c].item]
      BY <2>1, <2>3, StageNames, CallCases DEF Unchanging, Proceeds, SameJob, Waiting
    <3>2. call[c].item \in Items /\ draft[call[c].item] = "approved"
      BY <3>1, ItemOfCall DEF Inv, IInv, Approval
    <3>3. call'[c].text = body[call[c].item]
      BY <3>1 DEF TextInv, CallersText
    <3>4. ~ (call[Worker].pc = "revert" /\ call[Worker].item = call[c].item)
      BY <3>1, StageNames DEF Inv, IInv, OneCallerPerItem, Working, Callers
    <3> QED
      BY <3>1, <3>2, <3>3, <3>4, ApprovedStays
  <2> QED
    BY <2>2, <2>3
<1>3. LimboText'
  <2> SUFFICES ASSUME NEW r \in limbo' PROVE draft'[r.item] = "approved" /\ r.body = body'[r.item]
    BY DEF LimboText
  <2>1. CASE r \in limbo
    <3>1. r.item \in Items /\ draft[r.item] = "approved" /\ r.body = body[r.item] /\ ~ Nothing(r.item)
      BY <2>1 DEF TextInv, LimboText, Nothing, Inv, TypeOK
    <3> QED
      BY <3>1, ApprovedStays
  <2>2. CASE r \notin limbo
    <3>1. PICK c \in Callers : /\ call[c].pc = "sent" /\ r = Request(c)
                               /\ UNCHANGED <<draft, body>>
      BY <2>2 DEF Steps, LimboStep
    <3> QED
      BY <3>1, StageNames DEF Request, TextInv, CallersText, Waiting, Inv, IInv, Approval, Working
  <2> QED
    BY <2>1, <2>2
<1>4. CommentsText'
  <2> SUFFICES ASSUME NEW i \in Items, NEW n \in DOMAIN comments'[i]
               PROVE  draft'[i] = "approved" /\ comments'[i][n].body = body'[i]
    BY DEF CommentsText
  <2>1. CASE comments'[i] = comments[i]
    <3>1. draft[i] = "approved" /\ comments'[i][n].body = body[i] /\ ~ Nothing(i)
      BY <2>1 DEF TextInv, CommentsText, Nothing
    <3> QED
      BY <3>1, ApprovedStays
  <2>2. ASSUME NEW text, Publish(i, text), draft[i] = "approved", body[i] = text,
               UNCHANGED <<draft, body>>
        PROVE  draft'[i] = "approved" /\ comments'[i][n].body = body'[i]
    <3>1. comments'[i] = Append(comments[i], [body |-> text, at |-> now])
      BY <2>2 DEF Publish, Inv, TypeOK
    <3>2. comments[i] \in Seq([body : Bodies, at : Time])
      BY DEF Inv, TypeOK
    <3>3. \/ n \in DOMAIN comments[i] /\ comments'[i][n] = comments[i][n]
          \/ comments'[i][n] = [body |-> text, at |-> now]
      BY <3>1, <3>2
    <3> QED
      BY <2>2, <3>3 DEF TextInv, CommentsText
  <2>3. ASSUME NEW c \in Callers, Land(c), call[c].item = i
        PROVE  draft'[i] = "approved" /\ comments'[i][n].body = body'[i]
    <3>1. /\ call[c].pc = "sent" /\ Publish(i, call[c].text) /\ UNCHANGED <<draft, body>>
      BY <2>3 DEF Land, draftVars
    <3>2. draft[i] = "approved" /\ body[i] = call[c].text
      BY <2>3, <3>1, StageNames DEF TextInv, CallersText, Waiting, Inv, IInv, Approval, Working
    <3> QED
      BY <2>2, <3>1, <3>2
  <2>4. ASSUME NEW r \in limbo, LimboLands(r), r.item = i
        PROVE  draft'[i] = "approved" /\ comments'[i][n].body = body'[i]
    <3>1. Publish(i, r.body) /\ UNCHANGED <<draft, body>>
      BY <2>4 DEF LimboLands, draftVars
    <3> QED
      BY <2>2, <2>4, <3>1 DEF TextInv, LimboText
  <2> QED
    BY <2>1, <2>3, <2>4 DEF Steps, CommentStep
<1>5. WorkerUnposted'
  <2> SUFFICES ASSUME Unposted(Worker)' PROVE Nothing(call[Worker].item)'
    BY DEF WorkerUnposted
  <2>1. Worker \in Callers /\ CallStep(Worker) /\ Worker \notin Gateways /\ call'[Worker].pc \in Posting
    BY StageNames, CallersAssumption DEF Callers, Steps, Unposted
  <2>2. ASSUME NEW i \in Items, Enters(Worker, i) PROVE Nothing(call[Worker].item)'
    <3>1. call'[Worker].item = i /\ draft[i] = "pending"
      BY <2>1, <2>2 DEF Enters
    <3>2. Nothing(i)
      <4>1. comments[i] \in Seq([body : Bodies, at : Time]) /\ DOMAIN comments[i] = {}
        BY <3>1 DEF TextInv, CommentsText, Inv, TypeOK
      <4>2. comments[i] = <<>>
        BY <4>1, EmptyDomain
      <4> QED
        BY <3>1, <4>2 DEF TextInv, LimboText, Nothing
    <3>3. \A c \in Callers : call[c].item = i => call[c].pc # "sent"
      BY <3>1, StageNames DEF Inv, IInv, Approval, Working
    <3> QED
      BY <3>1, <3>2, <3>3, NothingKept
  <2>3. CASE ~ \E i \in Items : Enters(Worker, i)
    <3>1. Working(Worker) /\ Unposted(Worker) /\ call'[Worker].item = call[Worker].item
      BY <2>1, <2>3, CallCases DEF SameJob, Unchanging, Proceeds, Learns, AtEvent, Unposted
    <3>2. call[Worker].item \in Items /\ Nothing(call[Worker].item)
      BY <2>1, <3>1, ItemOfCall DEF TextInv, WorkerUnposted
    <3>3. call[Worker].pc = "sent" =>
            \/ call'[Worker].pc = "sent" /\ call'[Worker].wire = "sent"
            \/ call'[Worker].pc = "finPost" /\ call'[Worker].out = "failed"
      BY <2>1, <2>3, CallCases DEF Unchanging, Proceeds, Unposted, AtEvent
    <3>4. \A c \in Callers : call[c].item = call[Worker].item /\ call[c].pc = "sent" => c = Worker
      BY <2>1, <3>1, StageNames DEF Inv, IInv, OneCallerPerItem, Working
    <3>5. Nothing(call[Worker].item)' <=> (comments'[call[Worker].item] = <<>>
                                           /\ \A r \in limbo' : r.item # call[Worker].item)
      BY <3>1 DEF Nothing
    <3> DEFINE j == call[Worker].item
    <3>6. ASSUME NEW i \in Items, i = j PROVE Nothing(i)'
      BY <3>2, <3>3, <3>4, <3>6, NothingKept
    <3> QED
      BY <3>2, <3>5, <3>6 DEF Nothing
  <2> QED
    BY <2>2, <2>3
<1> QED
  BY <1>1, <1>2, <1>3, <1>4, <1>5 DEF TextInv

\* Nothing is approved, sent or shown at the start.
LEMMA TextInit == Init => TextInv
  BY DEF Init, Idle, TextInv, ApprovedBodies, CallersText, LimboText, CommentsText,
     WorkerUnposted, Unposted, Waiting, Callers

\* Whatever appears on Reddit is the text a human or the L2 rule approved, and
\* the draft still says so: no edit, revert, crash, late request or retry puts
\* another text behind a comment, for any number of items, threads and callers.
THEOREM ApprovedTextOnly == Spec => []OnlyApprovedText
<1>1. Init => Inv /\ TextInv
  BY InitInv, TextInit
<1>2. Inv /\ TextInv /\ [Next]_vars => (Inv /\ TextInv)'
  BY NextInv, NextSteps, TextStep
<1>3. Inv /\ TextInv => OnlyApprovedText
  BY DEF TextInv, ApprovedBodies, CommentsText, OnlyApprovedText
<1> QED
  BY <1>1, <1>2, <1>3, PTL DEF Spec

-----------------------------------------------------------------------------
(***************************************************************************)
(* Time and doubt. When callers began, when an attempt was last in doubt,  *)
(* and what the rows of an attempt in doubt say.                           *)
(***************************************************************************)
\* Callers began, and items were approved, in the past.
Past ==
  /\ \A c \in Callers : call[c].at <= now
  /\ \A i \in Items : approvedAt[i] <= now

\* When an attempt was last in doubt is known of approved items at rest only.
DoubtTimes ==
  /\ \A i \in Items : draft[i] # "approved" => uncertainAt[i] = Never
  /\ Working(Worker) => uncertainAt[call[Worker].item] = Never

\* An attempt whose row is open has an open thread.
OpenRows ==
  \A i \in Items, d \in Days : post[i][d] \in Open => thread[ThreadOf[i]] \in Open

\* A caller about to mark its thread uncertain has marked its row.
UncertainRows ==
  \A c \in Callers : AtThread(c, "uncertain") => Rows(c, {"uncertain"}, Open)

\* The worker resolves rows in doubt that no caller is finishing.
Undisturbed ==
  call[Worker].pc = "resolving" =>
    \A k \in scan.todo, c \in Callers : call[c].pc = "finThread" => call[c].item # k[1]

DoubtInv == Past /\ DoubtTimes /\ OpenRows /\ UncertainRows /\ Undisturbed

\* Nothing is dated in the future in the next state.
LEMMA PastStep ==
  ASSUME Inv, Inv', Steps, Past
  PROVE  Past'
<1>1. /\ now \in Nat /\ now' \in Nat /\ now <= now'
      /\ \A c \in Callers : call[c].at \in Nat
      /\ \A i \in Items : approvedAt[i] \in Int
  <2>1. now \in Nat /\ now' \in Nat
    BY TimeAssumption DEF Inv, TypeOK, Time
  <2>2. now' = now \/ now' = now + 1
    <3>1. CallStep(Worker)
      BY DEF Callers, Steps
    <3> QED
      BY <3>1 DEF CallStep, Tick, Enters
  <2>3. /\ \A c \in Callers : call[c].at \in Nat
        /\ \A i \in Items : approvedAt[i] \in Int
    BY TimeAssumption DEF Inv, TypeOK, CallType, Time, Never
  <2> QED
    BY <2>1, <2>2, <2>3
<1>2. ASSUME NEW c \in Callers PROVE call'[c].at <= now'
  <2>1. call'[c].at \in {0, now, call[c].at}
    <3>1. ASSUME NEW b PROVE [call[c] EXCEPT !.old = b].at = call[c].at
      BY DEF Inv, TypeOK, CallType
    <3> QED
      BY <3>1 DEF Steps, CallStep, SameJob, Enters
  <2> QED
    BY <1>1, <2>1 DEF Past
<1>3. ASSUME NEW i \in Items PROVE approvedAt'[i] <= now'
  <2>1. \/ approvedAt'[i] \in {Never, now, approvedAt[i]}
        \/ \E c \in Callers : approvedAt'[i] = call[c].at
    <3>1. ASSUME NEW g \in Gateways, Retry(g, i) PROVE approvedAt'[i] = now
      BY <3>1 DEF Retry, Inv, TypeOK
    <3> QED
      BY <3>1 DEF Steps, DraftStep
  <2> QED
    BY <1>1, <2>1 DEF Past, Never
<1> QED
  BY <1>2, <1>3 DEF Past

\* Only an approved item that the worker is not at has been in doubt, next state.
LEMMA DoubtTimesStep ==
  ASSUME Inv, Steps, DoubtTimes
  PROVE  DoubtTimes'
<1>1. ASSUME NEW i \in Items, draft'[i] # "approved" PROVE uncertainAt'[i] = Never
  <2>1. CASE draft[i] # "approved"
    BY <2>1 DEF Steps, DoubtStep, DoubtTimes, Inv, IInv, Approval, IsStale
  <2>2. CASE draft[i] = "approved"
    <3>1. Revert /\ call[Worker].item = i /\ UNCHANGED uncertainAt
      BY <1>1, <2>2 DEF Steps, DraftStep
    <3>2. Working(Worker)
      BY <3>1, StageNames DEF Revert, Working
    <3> QED
      BY <3>1, <3>2 DEF DoubtTimes
  <2> QED
    BY <2>1, <2>2
<1>2. ASSUME Working(Worker)' PROVE uncertainAt'[call'[Worker].item] = Never
  <2>1. Worker \in Callers /\ Worker \notin Gateways /\ call'[Worker].pc \in Posting
    BY <1>2, CallersAssumption DEF Callers, Working
  <2>2. ASSUME NEW i \in Items, Enters(Worker, i) PROVE uncertainAt'[call'[Worker].item] = Never
    BY <2>1, <2>2 DEF Enters, Steps, DoubtStep, DoubtTimes, Inv, IInv, Approval, IsStale
  <2>3. CASE ~ \E i \in Items : Enters(Worker, i)
    <3>1. Working(Worker) /\ call'[Worker].item = call[Worker].item
      BY <2>1, <2>3, CallCases DEF Unchanging, SameJob
    <3>2. call[Worker].item \in Items
      BY <2>1, <3>1, ItemOfCall
    <3>3. ~ FreezeStale
      BY <3>1, StageNames DEF FreezeStale, Working
    <3>4. \A c \in Callers : Working(c) /\ call[c].item = call[Worker].item => c = Worker
      BY <2>1, <3>1 DEF Inv, IInv, OneCallerPerItem
    <3>5. uncertainAt'[call[Worker].item] = uncertainAt[call[Worker].item]
      BY <2>1, <3>2, <3>3, <3>4 DEF Steps, DoubtStep
    <3> QED
      BY <3>1, <3>5 DEF DoubtTimes
  <2> QED
    BY <2>2, <2>3
<1> QED
  BY <1>1, <1>2 DEF DoubtTimes

\* Two rows of a thread that are held are the same row.
LEMMA HeldRowOf ==
  ASSUME Inv, NEW i \in Items, NEW d \in Days, NEW j \in Items, NEW e \in Days,
         post[i][d] \in Held, post[j][e] \in Held, ThreadOf[i] = ThreadOf[j]
  PROVE  i = j /\ d = e
  BY DEF Inv, IInv, OneHeldPost

\* An open post row still has an open thread row in the next state.
LEMMA OpenRowsStep ==
  ASSUME Inv, Steps, OpenRows
  PROVE  OpenRows'
<1> SUFFICES ASSUME NEW i \in Items, NEW d \in Days, post'[i][d] \in Open
             PROVE  thread'[ThreadOf[i]] \in Open
  BY DEF OpenRows
<1> DEFINE t == ThreadOf[i]
<1>1. t \in Threads /\ RowStep(i, d) /\ ThreadStep(t)
  BY ThreadsAssumption DEF Steps
<1>2. CASE post'[i][d] = post[i][d]
  <2>1. post[i][d] \in Held /\ thread[t] \in Open
    BY <1>2 DEF Open, Held, OpenRows
  <2>2. ASSUME NEW c \in Callers, FinishThread(c), ThreadOf[call[c].item] = t,
               thread'[t] = call[c].out
        PROVE  thread'[t] \in Open
    <3>1. /\ call[c].pc = "finThread" /\ call[c].out \in Outcomes /\ Working(c)
          /\ call[c].item \in Items /\ call[c].day \in Days /\ Progress(c)
          /\ PostKey(c) = post[call[c].item][call[c].day]
      <4>1. Working(c)
        BY <2>2, StageNames DEF FinishThread, Working
      <4> QED
        BY <2>2, <4>1, ItemOfCall DEF FinishThread, Inv, TypeOK, CallType
    <3>2. call[c].out # "failed"
      BY <2>1, <2>2, <3>1 DEF Progress, AtThread
    <3>3. call[c].out \in {"posted", "verified"} => PostKey(c) \in {"posted", "verified"}
      BY <3>1 DEF Progress, AtThread, Rows
    <3>4. call[c].out \in {"posted", "verified"} => FALSE
      BY <1>2, <2>1, <2>2, <3>1, <3>3, HeldRowOf DEF Held, Open
    <3> QED
      BY <2>2, <3>1, <3>2, <3>4 DEF Outcomes, Open
  <2>3. ASSUME NEW k \in scan.todo, ScanResolve(k), ThreadOf[k[1]] = t,
               thread'[t] = post'[k[1]][k[2]], thread'[t] \in {"verified", "absent"}
        PROVE  FALSE
    <3>1. k[1] \in Items /\ k[2] \in Days /\ post[k[1]][k[2]] = "uncertain"
      BY DEF Inv, TypeOK, IInv, ScanRows
    <3>2. k[1] = i /\ k[2] = d
      BY <2>1, <2>3, <3>1, HeldRowOf DEF Held
    <3> QED
      BY <2>1, <2>3, <3>2, <1>2 DEF Open
  <2> QED
    BY <1>1, <2>1, <2>2, <2>3 DEF ThreadStep, Open
<1>3. ASSUME NEW c \in Callers, FinishPost(c), call[c].item = i, post'[i][d] = call[c].out,
             thread' = thread
      PROVE  thread'[t] \in Open
  <2>1. call[c].pc = "finPost" /\ Working(c) /\ call[c].out # "verified"
    BY <1>3, StageNames DEF FinishPost, Working, Open
  <2>2. thread[t] \in {"posting", "uncertain"}
    BY <1>3, <2>1, ItemOfCall DEF Progress, Sending, Rows
  <2> QED
    BY <1>3, <2>2 DEF Open
<1> QED
  BY <1>1, <1>2, <1>3 DEF RowStep, Open

\* Whoever is to mark its thread uncertain has an uncertain row, next state.
LEMMA UncertainRowsStep ==
  ASSUME Inv, Steps, UncertainRows, Undisturbed, OpenRows'
  PROVE  UncertainRows'
<1> SUFFICES ASSUME NEW c \in Callers, call'[c].pc = "finThread", call'[c].out = "uncertain"
             PROVE  Rows(c, {"uncertain"}, Open)'
  BY DEF UncertainRows, AtThread
<1> DEFINE i == call[c].item
           d == call[c].day
<1>1. /\ SameJob(c) /\ Working(c) /\ call[c].out = "uncertain"
      /\ call[c].pc = "finThread" \/ FinishPost(c)
  BY StageNames, CallCases DEF Unchanging, Proceeds, Enters
<1>2. i \in Items /\ d \in Days /\ PostKey(c) = post[i][d] /\ ThreadKey(c) = thread[ThreadOf[i]]
  BY <1>1, ItemOfCall
<1>3. post'[i][d] = "uncertain"
  <2>1. CASE FinishPost(c)
    BY <1>1, <1>2, <2>1 DEF FinishPost, Inv, TypeOK
  <2>2. CASE call[c].pc = "finThread"
    <3>1. post[i][d] = "uncertain" /\ thread[ThreadOf[i]] \in Open
      BY <1>1, <1>2, <2>2 DEF UncertainRows, AtThread, Rows
    <3>2. ASSUME NEW x \in Callers, FinishPost(x), call[x].item = i PROVE FALSE
      BY <1>1, <2>2, <3>2, StageNames DEF FinishPost, Inv, IInv, OneCallerPerItem, Working
    <3>3. ASSUME <<i, d>> \in scan.todo, ScanResolve(<<i, d>>) PROVE FALSE
      BY <2>2, <3>3 DEF ScanResolve, Undisturbed
    <3> QED
      BY <1>2, <3>1, <3>2, <3>3 DEF Steps, RowStep, Open, Claimable
  <2> QED
    BY <1>1, <2>1, <2>2
<1>4. thread'[ThreadOf[i]] \in Open
  BY <1>2, <1>3 DEF OpenRows, Open
<1> QED
  BY <1>1, <1>3, <1>4 DEF Rows, PostKey, ThreadKey, SameJob

\* What a scan is about to resolve has no caller at its thread, next state.
LEMMA UndisturbedStep ==
  ASSUME Inv, Steps, Undisturbed
  PROVE  Undisturbed'
<1> SUFFICES ASSUME call'[Worker].pc = "resolving", NEW k \in scan'.todo, NEW c \in Callers,
                    call'[c].pc = "finThread", call'[c].item = k[1]
             PROVE  FALSE
  BY DEF Undisturbed
<1>1. Worker \in Callers /\ ~ StartScan /\ scan' # NoScan
  <2>1. Worker \in Callers
    BY DEF Callers
  <2>2. ASSUME StartScan PROVE FALSE
    <3> DEFINE r == [Idle EXCEPT !.pc = "listing"]
    <3>1. r.pc = "listing"
      BY DEF Idle
    <3>2. call' = call \/ call' = [call EXCEPT ![Worker] = r]
      BY <2>2 DEF StartScan
    <3> HIDE DEF r
    <3> QED
      BY <2>1, <2>2, <3>1, <3>2 DEF StartScan, Inv, TypeOK
  <2> QED
    BY <2>1, <2>2 DEF NoScan
<1>2. ASSUME call[Worker].pc = "resolving", k \in scan.todo PROVE FALSE
  <2>1. /\ SameJob(c) /\ Working(c) /\ call[c].pc \in {"finThread", "finPost"}
    BY StageNames, CallCases DEF Unchanging, Proceeds, Enters
  <2>2. call[c].pc = "finPost" /\ call[c].item = k[1]
    BY <1>2, <2>1 DEF Undisturbed, SameJob
  <2>3. /\ k[1] \in Items /\ k[2] \in Days /\ post[k[1]][k[2]] = "uncertain"
    BY <1>2 DEF Inv, TypeOK, IInv, ScanRows
  <2>4. post[call[c].item][call[c].day] \in {"posting", "posted"} /\ call[c].day \in Days
    BY <2>1, <2>2, ItemOfCall DEF Progress, Sending, Confirmed, Rows
  <2> QED
    BY <2>2, <2>3, <2>4, HeldRowOf DEF Held
<1>3. ASSUME NEW found \in SUBSET scan.todo, NEW covers \in BOOLEAN, ScanListing(found, covers)
      PROVE  FALSE
  <2>1. \A x \in Callers : call[x].pc # "finThread"
    BY <1>3 DEF ScanListing
  <2>2. c # Worker
    OBVIOUS
  <2>3. call'[c] = call[c]
    BY <1>1, <1>3, <2>2 DEF ScanListing, Goto, Inv, TypeOK
  <2> QED
    BY <2>1, <2>3
<1>4. ASSUME NEW q \in scan.todo, scan' = [scan EXCEPT !.todo = scan.todo \ {q}], UNCHANGED call
      PROVE  FALSE
  BY <1>4 DEF Undisturbed, Inv, TypeOK
<1> QED
  BY <1>1, <1>2, <1>3, <1>4 DEF Steps, ScanStep, Scanning

\* DoubtInv is inductive.
LEMMA DoubtStepInv ==
  ASSUME Inv, Inv', Steps, DoubtInv
  PROVE  DoubtInv'
  BY PastStep, DoubtTimesStep, OpenRowsStep, UncertainRowsStep, UndisturbedStep DEF DoubtInv

\* Nothing is in doubt initially.
LEMMA DoubtInit == Init => DoubtInv
<1> SUFFICES ASSUME Init PROVE DoubtInv
  OBVIOUS
<1>1. \A c \in Callers : call[c].pc = "idle" /\ call[c].at = 0
  BY DEF Init, Idle
<1> QED
  BY <1>1, StageNames DEF Init, DoubtInv, Past, Never, DoubtTimes, OpenRows, UncertainRows, Undisturbed,
     Working, AtThread, Open, Callers

-----------------------------------------------------------------------------
(***************************************************************************)
(* One answer. An attempt whose request can still land, or has landed,     *)
(* holds a post row; nobody believes that nothing landed unless nothing    *)
(* did and nothing can. This holds of each thread that has not lapsed, and *)
(* whether one has depends on its own attempts only.                       *)
(***************************************************************************)
Silent(t)  == \A i \in Items : ThreadOf[i] = t => comments[i] = <<>>
\* No request is left that could still land in t.
Settled(t) == \A r \in limbo : ThreadOf[r.item] # t

\* c believes that nothing has landed.
Unanswered(c) ==
  \/ call[c].pc = "claimed"
  \/ call[c].pc = "sent" /\ call[c].wire = "sent"
  \/ call[c].pc \in {"finPost", "finThread"} /\ call[c].out = "failed"

\* c knows of a comment.
Answered(c) ==
  \/ call[c].pc = "sent" /\ call[c].wire = "landed"
  \/ call[c].pc \in {"finPost", "finThread"} /\ call[c].out \in {"posted", "verified"}
  \/ call[c].pc = "verify"
  \/ call[c].pc = "finEvent" /\ call[c].out = "posted"

\* A comment holds a row and is the only one of its item.
CommentRows ==
  \A i \in Items : comments[i] # <<>> /\ ThreadOf[i] \notin lapsed =>
    /\ Len(comments[i]) = 1 /\ comments[i][1].at >= approvedAt[i]
    /\ \E d \in Days : post[i][d] \in Held

\* A request whose caller is gone: its thread is silent, its row open, its time short.
LimboRows ==
  \A r \in limbo : ThreadOf[r.item] \notin lapsed =>
    /\ Silent(ThreadOf[r.item])
    /\ \E d \in Days : post[r.item][d] \in Open
    /\ \/ now <= approvedAt[r.item] + 1
       \/ uncertainAt[r.item] \in {Never, now}

\* Callers are right about what has landed.
CallersKnow ==
  \A c \in Callers : ThreadOf[call[c].item] \notin lapsed =>
    /\ Unanswered(c) => Silent(ThreadOf[call[c].item]) /\ Settled(ThreadOf[call[c].item])
    /\ Answered(c) => comments[call[c].item] # <<>>

\* So is a scan.
ScanKnows ==
  /\ \A k \in scan.todo \intersect scan.found :
       ThreadOf[k[1]] \notin lapsed => comments[k[1]] # <<>>
  /\ \A k \in Doubted : ThreadOf[k[1]] \notin lapsed =>
       /\ Settled(ThreadOf[k[1]])
       /\ call[Worker].pc = "resolving" => Silent(ThreadOf[k[1]])

AnswerInv == CommentRows /\ LimboRows /\ CallersKnow /\ ScanKnows

\* The two layers below it.
Base == Inv /\ TextInv /\ DoubtInv

\* What has lapsed stays so.
LEMMA LapsedStays == Steps => lapsed \subseteq lapsed'
  BY DEF Steps, LapseStep

\* A thread stays silent and settled while no request of it is answered or lost.
LEMMA QuietKept ==
  ASSUME Inv, Steps, NEW t, Silent(t), Settled(t),
         \A c \in Callers : /\ call[c].pc = "sent" /\ call[c].wire = "sent"
                            /\ ThreadOf[call[c].item] = t
           => \/ call'[c].pc = "sent" /\ call'[c].wire = "sent"
              \/ call'[c].pc = "finPost" /\ call'[c].out = "failed"
  PROVE  Silent(t)' /\ Settled(t)'
<1>1. ASSUME NEW i \in Items, ThreadOf[i] = t PROVE Nothing(i)'
  BY <1>1, NothingKept DEF Silent, Settled, Nothing
<1>2. \A r \in limbo' : ThreadOf[r.item] = t => r.item \in Items
  <2>1. \A r \in limbo : r.item \in Items
    BY DEF Inv, TypeOK
  <2>2. \A c \in Callers : call[c].pc = "sent" => Request(c).item \in Items
    BY StageNames, ItemOfCall DEF Working, Request
  <2> QED
    BY <2>1, <2>2 DEF Steps, LimboStep
<1> QED
  BY <1>1, <1>2 DEF Silent, Settled, Nothing

\* A thread none of whose rows is held is silent and settled.
LEMMA UnheldQuiet ==
  ASSUME Inv, CommentRows, LimboRows, NEW t, t \notin lapsed,
         \A i \in Items, d \in Days : ThreadOf[i] = t => post[i][d] \notin Held
  PROVE  Silent(t) /\ Settled(t)
<1>1. Silent(t)
  BY DEF Silent, CommentRows
<1>2. \A r \in limbo : r.item \in Items
  BY DEF Inv, TypeOK
<1>3. Settled(t)
  BY <1>2 DEF Settled, LimboRows, Open, Held
<1> QED
  BY <1>1, <1>3

\* So is one whose row is not held.
LEMMA FreeThread ==
  ASSUME Inv, CommentRows, LimboRows, NEW t, t \notin lapsed, thread[t] \notin Held
  PROVE  Silent(t) /\ Settled(t)
  BY UnheldQuiet DEF Inv, IInv, HeldThread

\* The row of a caller whose request is on the wire.
LEMMA SentRow ==
  ASSUME Inv, NEW c \in Callers, call[c].pc = "sent"
  PROVE  /\ Working(c) /\ Writing(c) /\ call[c].item \in Items /\ call[c].day \in Days
         /\ post[call[c].item][call[c].day] = "posting"
<1>1. Working(c) /\ Sending(c) /\ Writing(c)
  BY StageNames DEF Working, Sending, Writing, Waiting
<1> QED
  BY <1>1, ItemOfCall DEF Progress, Rows

\* A comment that appears is the first of its thread; its attempt is open, and
\* stays so.
LEMMA Appears ==
  ASSUME Inv, Steps, TextInv, LimboRows, CallersKnow, NEW i \in Items, ThreadOf[i] \notin lapsed,
         comments'[i] # comments[i]
  PROVE  /\ Silent(ThreadOf[i]) /\ now' = now /\ UNCHANGED <<approvedAt, post, thread>>
         /\ \E text : comments'[i] = <<[body |-> text, at |-> now]>>
         /\ \A j \in Items : j # i => comments'[j] = comments[j]
         /\ \E d \in Days : post[i][d] \in Open
         /\ limbo' # limbo => Settled(ThreadOf[i])'
<1>1. ASSUME NEW text, Publish(i, text), comments[i] = <<>>
      PROVE  /\ comments'[i] = <<[body |-> text, at |-> now]>>
             /\ \A j \in Items : j # i => comments'[j] = comments[j]
  BY <1>1 DEF Publish, Inv, TypeOK
<1>2. ASSUME NEW c \in Callers, Land(c), call[c].item = i
      PROVE  /\ Silent(ThreadOf[i]) /\ UNCHANGED <<now, approvedAt, post, thread, limbo>>
             /\ Publish(i, call[c].text) /\ \E d \in Days : post[i][d] \in Open
  BY <1>2, SentRow DEF Land, CallersKnow, Unanswered, draftVars, ledgerVars, Open
<1>3. ASSUME NEW r \in limbo, LimboLands(r), r.item = i
      PROVE  /\ Silent(ThreadOf[i]) /\ UNCHANGED <<now, approvedAt, post, thread>>
             /\ Publish(i, r.body) /\ \E d \in Days : post[i][d] \in Open
             /\ Settled(ThreadOf[i])'
  <2>1. /\ Silent(ThreadOf[i]) /\ UNCHANGED <<now, approvedAt, post, thread>>
        /\ Publish(i, r.body) /\ limbo' = limbo \ {r}
    BY <1>3 DEF LimboLands, LimboRows, draftVars, ledgerVars
  <2>2. PICK d \in Days : post[i][d] \in Open
    BY <1>3 DEF LimboRows
  <2>3. ASSUME NEW q \in limbo', ThreadOf[q.item] = ThreadOf[i] PROVE FALSE
    <3>1. q \in limbo /\ q # r
      BY <2>1
    <3>2. q \in [item : Items, body : Bodies] /\ r \in [item : Items, body : Bodies]
      BY <3>1 DEF Inv, TypeOK
    <3>3. PICK e \in Days : post[q.item][e] \in Open
      BY <2>3, <3>1 DEF LimboRows
    <3>4. q.item = i
      BY <2>2, <2>3, <3>2, <3>3, HeldRowOf DEF Open, Held
    <3>5. q.body = body[i] /\ r.body = body[i]
      BY <1>3, <3>1, <3>4 DEF TextInv, LimboText
    <3> QED
      BY <1>3, <3>1, <3>2, <3>4, <3>5
  <2> QED
    BY <2>1, <2>2, <2>3 DEF Open, Held, Settled
<1>4. \/ \E c \in Callers : Land(c) /\ call[c].item = i
      \/ \E r \in limbo : LimboLands(r) /\ r.item = i
  BY DEF Steps, CommentStep
<1>5. Silent(ThreadOf[i]) => comments[i] = <<>>
  BY DEF Silent
<1> QED
  BY <1>1, <1>2, <1>3, <1>4, <1>5

\* A held row is let go only when nothing of its thread is out or on its way.
LEMMA Released ==
  ASSUME Inv, Steps, CallersKnow, ScanKnows, NEW i \in Items, NEW d \in Days,
         ThreadOf[i] \notin lapsed, post[i][d] \in Held, post'[i][d] \notin Held
  PROVE  Silent(ThreadOf[i]) /\ Settled(ThreadOf[i])
<1>1. ASSUME NEW c \in Callers, FinishPost(c), call[c].item = i, post'[i][d] = call[c].out
      PROVE  Silent(ThreadOf[i]) /\ Settled(ThreadOf[i])
  <2>1. call[c].pc = "finPost" /\ call[c].out = "failed"
    BY <1>1 DEF FinishPost, Held, Inv, TypeOK, CallType, Outcomes
  <2> QED
    BY <1>1, <2>1 DEF CallersKnow, Unanswered
<1>2. ASSUME <<i, d>> \in scan.todo, ScanResolve(<<i, d>>), <<i, d>> \notin scan.found
      PROVE  Silent(ThreadOf[i]) /\ Settled(ThreadOf[i])
  <2>1. call[Worker].pc = "resolving" /\ <<i, d>> \in Doubted
    BY <1>2 DEF ScanResolve, Doubted
  <2> QED
    BY <2>1 DEF ScanKnows
<1>3. RowStep(i, d)
  BY DEF Steps
<1> QED
  BY <1>1, <1>2, <1>3 DEF RowStep, Held

\* A comment that is there stays alone.
LEMMA CommentsStay ==
  ASSUME Base, Steps, AnswerInv, NEW i \in Items, ThreadOf[i] \notin lapsed, comments[i] # <<>>
  PROVE  comments'[i] = comments[i]
<1>1. ~ Silent(ThreadOf[i])
  BY DEF Silent
<1> QED
  BY <1>1, Appears DEF Base, AnswerInv

\* A comment still has its row, and is the only one of its item, next state.
LEMMA CommentRowsStep ==
  ASSUME Base, Steps, AnswerInv
  PROVE  CommentRows'
<1> SUFFICES ASSUME NEW i \in Items, comments'[i] # <<>>, ThreadOf[i] \notin lapsed'
             PROVE  /\ Len(comments'[i]) = 1 /\ comments'[i][1].at >= approvedAt'[i]
                    /\ \E d \in Days : post'[i][d] \in Held
  BY DEF CommentRows
<1> ThreadOf[i] \notin lapsed
  BY LapsedStays
<1>1. CASE comments'[i] # comments[i]
  <2>1. /\ UNCHANGED <<approvedAt, post>> /\ \E d \in Days : post[i][d] \in Held
        /\ \E text : comments'[i] = <<[body |-> text, at |-> now]>>
    BY <1>1, Appears DEF Base, AnswerInv, Open, Held
  <2>2. approvedAt[i] <= now /\ approvedAt[i] \in Int /\ now \in Int
    BY TimeAssumption DEF Base, DoubtInv, Past, Inv, TypeOK, Time, Never
  <2> QED
    BY <2>1, <2>2
<1>2. CASE comments'[i] = comments[i]
  <2>1. PICK d \in Days : post[i][d] \in Held
    BY <1>2 DEF AnswerInv, CommentRows
  <2>2. Len(comments[i]) = 1 /\ comments[i][1].at >= approvedAt[i] /\ ~ Silent(ThreadOf[i])
    BY <1>2 DEF AnswerInv, CommentRows, Silent
  <2>3. post'[i][d] \in Held
    BY <2>1, <2>2, Released DEF Base, AnswerInv
  <2>4. draft[i] = "approved"
    <3>1. comments[i] \in Seq([body : Bodies, at : Time])
      BY DEF Base, Inv, TypeOK
    <3>2. 1 \in DOMAIN comments[i]
      BY <2>2, <3>1
    <3> QED
      BY <3>2 DEF Base, TextInv, CommentsText
  <2>5. ~ Revert \/ call[Worker].item # i
    BY <1>2 DEF Revert, Unposted, Base, TextInv, WorkerUnposted, Nothing
  <2>6. ASSUME NEW g \in Gateways, Retry(g, i) PROVE FALSE
    BY <2>1, <2>6 DEF Retry, RetryAllowed, Base, Inv, IInv, HeldThread, Held
  <2>7. approvedAt'[i] = approvedAt[i]
    BY <2>4, <2>5, <2>6 DEF Steps, DraftStep
  <2> QED
    BY <1>2, <2>2, <2>3, <2>7
<1> QED
  BY <1>1, <1>2

\* A request in limbo still has an open row and a silent thread, next state.
LEMMA LimboRowsStep ==
  ASSUME Base, Steps, AnswerInv
  PROVE  LimboRows'
<1> SUFFICES ASSUME NEW r \in limbo', ThreadOf[r.item] \notin lapsed'
             PROVE  /\ Silent(ThreadOf[r.item])'
                    /\ \E d \in Days : post'[r.item][d] \in Open
                    /\ \/ now' <= approvedAt'[r.item] + 1
                       \/ uncertainAt'[r.item] \in {Never, now'}
  BY DEF LimboRows
<1> ThreadOf[r.item] \notin lapsed
  BY LapsedStays
<1> DEFINE i == r.item
           t == ThreadOf[i]
<1>1. CASE r \notin limbo
  <2>1. /\ UNCHANGED comments
        /\ \E c \in Callers :
             /\ call[c].pc = "sent" /\ call[c].wire = "sent" /\ r = Request(c)
             /\ UNCHANGED <<now, draft, body, approvedAt, uncertainAt, post>>
    BY <1>1 DEF Steps, LimboStep
  <2>2. PICK c \in Callers :
             /\ call[c].pc = "sent" /\ call[c].wire = "sent" /\ r = Request(c)
             /\ UNCHANGED <<now, draft, body, approvedAt, uncertainAt, post>>
    BY <2>1
  <2>3. /\ i = call[c].item /\ i \in Items /\ Working(c) /\ call[c].day \in Days
        /\ post[i][call[c].day] = "posting"
    BY <2>2, SentRow DEF Request, Base
  <2>4. Silent(t)'
    BY <2>1, <2>2, <2>3 DEF AnswerInv, CallersKnow, Unanswered, Silent
  <2>5. approvedAt[i] = call[c].at /\ (c \in Gateways => now <= call[c].at + 1)
    BY <2>3 DEF Base, Inv, IInv, Approval
  <2>6. c = Worker => uncertainAt[i] = Never
    BY <2>3 DEF Base, DoubtInv, DoubtTimes
  <2> QED
    BY <2>2, <2>3, <2>4, <2>5, <2>6 DEF Callers, Open
<1>2. CASE r \in limbo
  <2>1. /\ Silent(t) /\ ~ Settled(t) /\ i \in Items /\ draft[i] = "approved"
        /\ now <= approvedAt[i] + 1 \/ uncertainAt[i] \in {Never, now}
    BY <1>2 DEF AnswerInv, LimboRows, Settled, Base, TextInv, LimboText, Inv, TypeOK
  <2>2. PICK d \in Days : post[i][d] \in Open
    BY <1>2 DEF AnswerInv, LimboRows
  <2>3. Silent(t)'
    <3>1. ASSUME NEW j \in Items, ThreadOf[j] = t, comments'[j] # <<>> PROVE FALSE
      <4>1. comments'[j] # comments[j]
        BY <2>1, <3>1 DEF Silent
      <4>2. limbo' = limbo
        BY <3>1, <4>1, Appears DEF Base, AnswerInv, Settled
      <4>3. \E c \in Callers : Land(c) /\ call[c].item = j
        <5>1. ASSUME NEW q \in limbo, LimboLands(q) PROVE FALSE
          BY <4>2, <5>1 DEF LimboLands
        <5> QED
          BY <4>1, <5>1 DEF Steps, CommentStep
      <4> QED
        BY <2>1, <3>1, <4>3 DEF Land, AnswerInv, CallersKnow, Unanswered
    <3> QED
      BY <3>1 DEF Silent
  <2>4. post'[i][d] \in Open
    <3>1. post[i][d] \in Held /\ post'[i][d] \in Held
      BY <2>1, <2>2, Released DEF Open, Held, Base, AnswerInv
    <3>2. comments[i] = <<>>
      BY <2>1 DEF Silent
    <3>3. ASSUME NEW c \in Callers, FinishPost(c), call[c].item = i, post'[i][d] = call[c].out,
                 call[c].out \in {"posted", "verified"}
          PROVE  FALSE
      BY <3>2, <3>3 DEF FinishPost, AnswerInv, CallersKnow, Answered
    <3>4. ASSUME <<i, d>> \in scan.todo, <<i, d>> \in scan.found PROVE FALSE
      BY <3>2, <3>4 DEF AnswerInv, ScanKnows
    <3> QED
      BY <2>1, <2>2, <3>1, <3>3, <3>4 DEF Steps, RowStep, Open, Held
  <2>5. now' = now /\ approvedAt'[i] = approvedAt[i]
    <3>1. ~ Revert \/ call[Worker].item # i
      BY <1>2 DEF Revert, Unposted, Base, TextInv, WorkerUnposted, Nothing
    <3>2. ASSUME NEW g \in Gateways, Retry(g, i) PROVE FALSE
      BY <2>1, <2>2, <3>2 DEF Retry, RetryAllowed, Base, Inv, IInv, HeldThread, Held, Open
    <3> QED
      BY <1>2, <2>1, <3>1, <3>2 DEF Steps, DraftStep
  <2>6. uncertainAt'[i] \in {uncertainAt[i], now}
    BY <1>2, <2>1 DEF Steps, DoubtStep
  <2> QED
    BY <2>1, <2>3, <2>4, <2>5, <2>6
<1> QED
  BY <1>1, <1>2

\* What callers take for answered or unanswered is so in the next state.
LEMMA CallersKnowStep ==
  ASSUME Base, Steps, AnswerInv
  PROVE  CallersKnow'
<1> SUFFICES ASSUME NEW c \in Callers, NEW i, i = call'[c].item, ThreadOf[i] \notin lapsed'
             PROVE  /\ Unanswered(c)' => Silent(ThreadOf[i])' /\ Settled(ThreadOf[i])'
                    /\ Answered(c)' => comments'[i] # <<>>
  BY DEF CallersKnow
<1> ThreadOf[i] \notin lapsed
  BY LapsedStays
<1> DEFINE t == ThreadOf[i]
<1>1. ASSUME Unanswered(c)'
      PROVE  Silent(t)' /\ Settled(t)'
  <2>1. call'[c].pc \in Posting \ {"approved", "revert"}
    BY <1>1, StageNames DEF Unanswered
  <2>2. ASSUME NEW j \in Items, Enters(c, j)
        PROVE  Silent(t)' /\ Settled(t)'
    <3>1. c \in Gateways /\ Retry(c, j) /\ i = j
      BY <2>1, <2>2 DEF Enters
    <3>2. thread[t] \notin Held /\ UNCHANGED <<comments, limbo>>
      BY <3>1 DEF Retry, RetryAllowed, Held
    <3>3. Silent(t) /\ Settled(t)
      BY <3>2, FreeThread DEF Base, AnswerInv
    <3> QED
      BY <3>2, <3>3 DEF Silent, Settled
  <2>3. CASE SameJob(c) /\ ClaimOwned(c) /\ Working(c)
    <3>1. thread[t] \notin Held /\ UNCHANGED <<comments, limbo>>
      <4>1. ThreadKey(c) = thread[t]
        BY <2>3, ItemOfCall DEF Base, SameJob
      <4> QED
        BY <2>3, <4>1 DEF ClaimOwned, MayTake, Claimable, Held
    <3>2. Silent(t) /\ Settled(t)
      BY <3>1, FreeThread DEF Base, AnswerInv
    <3> QED
      BY <3>1, <3>2 DEF Silent, Settled
  <2>4. CASE SameJob(c) /\ Working(c) /\ Unanswered(c)
             /\ (call[c].pc = "sent" => \/ call'[c].pc = "sent" /\ call'[c].wire = "sent"
                                        \/ call'[c].pc = "finPost" /\ call'[c].out = "failed")
    <3>1. Silent(t) /\ Settled(t) /\ Writing(c)
      BY <2>4 DEF AnswerInv, CallersKnow, Unanswered, Writing, Sending, Waiting, SameJob
    <3>2. \A x \in Callers : call[x].pc = "sent" /\ ThreadOf[call[x].item] = t => x = c
      BY <2>4, <3>1, SentRow DEF Base, Inv, IInv, OneWriterPerThread, SameJob
    <3> QED
      BY <2>4, <3>1, <3>2, QuietKept DEF Base
  <2>5. CASE ~ \E j \in Items : Enters(c, j)
    <3>1. SameJob(c) /\ Working(c) /\ (Unchanging(c) \/ Proceeds(c))
      BY <2>1, <2>5, CallCases DEF Base, Unchanging
    <3>2. \/ ClaimOwned(c)
          \/ /\ Unanswered(c)
             /\ call[c].pc = "sent" => \/ call'[c].pc = "sent" /\ call'[c].wire = "sent"
                                       \/ call'[c].pc = "finPost" /\ call'[c].out = "failed"
      <4>1. CASE Unchanging(c)
        BY <1>1, <4>1 DEF Unchanging, Unanswered
      <4>2. CASE Proceeds(c)
        BY <1>1, <4>2 DEF Proceeds, Learns, Unanswered
      <4> QED
        BY <3>1, <4>1, <4>2
    <3> QED
      BY <2>3, <2>4, <3>1, <3>2
  <2> QED
    BY <2>2, <2>5
<1>2. ASSUME Answered(c)' PROVE comments'[i] # <<>>
  <2>1. call'[c].pc \in Posting \ {"approved", "claimed", "revert"}
    BY <1>2, StageNames DEF Answered
  <2>2. SameJob(c) /\ Working(c) /\ (Unchanging(c) \/ Proceeds(c))
    BY <2>1, CallCases DEF Base, Enters, Unchanging
  <2>3. i \in Items /\ i = call[c].item
    BY <2>2, ItemOfCall DEF Base, SameJob
  <2>4. CASE Answered(c)
    <3>1. comments[i] # <<>>
      BY <2>3, <2>4 DEF AnswerInv, CallersKnow
    <3> QED
      BY <2>3, <3>1, CommentsStay
  <2>5. CASE Land(c)
    <3> DEFINE e == [body |-> call[c].text, at |-> now]
    <3>1. comments'[i] = Append(comments[i], e) /\ comments[i] \in Seq([body : Bodies, at : Time])
      BY <2>3, <2>5 DEF Land, Publish, Base, Inv, TypeOK
    <3> HIDE DEF e
    <3> QED
      BY <3>1
  <2>6. Answered(c) \/ Land(c)
    <3>1. CASE Unchanging(c)
      BY <1>2, <3>1 DEF Unchanging, Answered
    <3>2. CASE Proceeds(c)
      BY <1>2, <3>2 DEF Proceeds, Learns, Answered
    <3> QED
      BY <2>2, <3>1, <3>2
  <2> QED
    BY <2>4, <2>5, <2>6
<1> QED
  BY <1>1, <1>2

\* No request is on the wire for a thread whose attempt reconciliation doubts.
LEMMA DoubtedAlone ==
  ASSUME Inv, NEW k \in Doubted, NEW c \in Callers, call[c].pc = "sent",
         ThreadOf[call[c].item] = ThreadOf[k[1]]
  PROVE  FALSE
<1>1. /\ k[1] \in Items /\ k[2] \in Days /\ post[k[1]][k[2]] = "uncertain"
      /\ \A x \in Callers : Working(x) => call[x].item # k[1]
  BY DEF Inv, TypeOK, IInv, ScanRows
<1> QED
  BY <1>1, SentRow, HeldRowOf DEF Held

\* What a scan has seen is still so in the next state.
LEMMA ScanKnowsStep ==
  ASSUME Base, Steps, AnswerInv
  PROVE  ScanKnows'
<1> DEFINE Resolving == call[Worker].pc = "resolving"
<1>0. lapsed \subseteq lapsed'
  BY LapsedStays
<1>1. ASSUME NEW k, k \in Doubted, ThreadOf[k[1]] \notin lapsed'
      PROVE  /\ Settled(ThreadOf[k[1]])'
             /\ Resolving => Silent(ThreadOf[k[1]])'
  <2>1. /\ Settled(ThreadOf[k[1]]) /\ (Resolving => Silent(ThreadOf[k[1]]))
        /\ \A c \in Callers : ~ (call[c].pc = "sent" /\ ThreadOf[call[c].item] = ThreadOf[k[1]])
    BY <1>0, <1>1, DoubtedAlone DEF AnswerInv, ScanKnows, Base
  <2>2. Settled(ThreadOf[k[1]])'
    <3>1. \A r \in limbo' : ThreadOf[r.item] # ThreadOf[k[1]]
      BY <2>1 DEF Steps, LimboStep, Settled, Request
    <3> QED
      BY <3>1 DEF Settled
  <2>3. Silent(ThreadOf[k[1]]) => Silent(ThreadOf[k[1]])'
    BY <2>1, QuietKept DEF Base
  <2> QED
    BY <2>1, <2>2, <2>3
<1>2. ASSUME scan'.todo \subseteq scan.todo, scan'.found = scan.found, Doubted' \subseteq Doubted,
             Resolving' => Resolving
      PROVE  ScanKnows'
  <2>1. ASSUME NEW k \in scan'.todo, k \in scan'.found, ThreadOf[k[1]] \notin lapsed'
        PROVE  comments'[k[1]] # <<>>
    <3>1. comments[k[1]] # <<>> /\ k[1] \in Items /\ ThreadOf[k[1]] \notin lapsed
      BY <1>0, <1>2, <2>1 DEF AnswerInv, ScanKnows, Base, Inv, TypeOK
    <3> QED
      BY <3>1, CommentsStay
  <2> QED
    BY <1>1, <1>2, <2>1 DEF ScanKnows
<1>3. CASE scan' = NoScan
  BY <1>3 DEF NoScan, ScanKnows, Doubted
<1>4. CASE scan' = scan /\ (Scanning \/ Scanning' => call'[Worker].pc = call[Worker].pc)
  <2>1. CASE Scanning \/ Scanning'
    BY <1>2, <1>4, <2>1 DEF Doubted
  <2>2. CASE ~ Scanning
    BY <1>3, <1>4, <2>2 DEF Base, Inv, IInv, ScanRows
  <2> QED
    BY <2>1, <2>2
<1>5. ASSUME NEW q \in scan.todo, scan' = [scan EXCEPT !.todo = scan.todo \ {q}], UNCHANGED call
      PROVE  ScanKnows'
  <2>1. /\ scan'.todo = scan.todo \ {q} /\ scan'.found = scan.found /\ scan'.ripe = scan.ripe
    BY <1>5 DEF Base, Inv, TypeOK
  <2> QED
    BY <1>2, <1>5, <2>1 DEF Doubted
<1>6. CASE StartScan
  <2>1. CASE UNCHANGED <<call, scan>>
    BY <1>4, <2>1
  <2> DEFINE active == PendingKeys \ {k \in PendingKeys : TooOld(k[1])}
  <2>2. CASE ~ UNCHANGED <<call, scan>>
    <3>1. /\ scan' = [todo |-> active, found |-> {}, ripe |-> {k \in active : PastGrace(k[1])}]
          /\ call' = [call EXCEPT ![Worker] = [Idle EXCEPT !.pc = "listing"]]
          /\ limbo' = limbo
      BY <1>6, <2>2 DEF StartScan
    <3>2. call'[Worker].pc = "listing"
      BY <3>1 DEF Idle, Base, Inv, TypeOK, Callers
    <3>3. ASSUME NEW k \in Doubted', ThreadOf[k[1]] \notin lapsed' PROVE Settled(ThreadOf[k[1]])
      <4>1. k \in PendingKeys /\ PastGrace(k[1])
        BY <3>1, <3>2, <3>3 DEF Doubted
      <4>2. /\ k[1] \in Items /\ k[2] \in Days /\ post[k[1]][k[2]] = "uncertain"
            /\ uncertainAt[k[1]] # Never
        BY <4>1 DEF PendingKeys
      <4>3. ASSUME NEW r \in limbo, ThreadOf[r.item] = ThreadOf[k[1]] PROVE FALSE
        <5>1. PICK d \in Days : post[r.item][d] \in Open
          BY <1>0, <3>3, <4>3 DEF AnswerInv, LimboRows
        <5>2. r.item \in Items
          BY <4>3 DEF Base, Inv, TypeOK
        <5>3. r.item = k[1]
          BY <4>2, <4>3, <5>1, <5>2, HeldRowOf DEF Base, Open, Held
        <5>4. now <= approvedAt[k[1]] + 1 \/ uncertainAt[k[1]] = now
          BY <1>0, <3>3, <4>2, <4>3, <5>3 DEF AnswerInv, LimboRows
        <5>5. {now, approvedAt[k[1]], uncertainAt[k[1]], Grace} \subseteq Int /\ Grace >= 2
          BY <4>2, TimeAssumption, PatienceAssumption DEF Base, Inv, TypeOK, Time, Never
        <5> QED
          BY <4>1, <5>4, <5>5 DEF PastGrace, GraceStart, Later
      <4> QED
        BY <4>3 DEF Settled
    <3>4. \A k \in Doubted' : ThreadOf[k[1]] \notin lapsed' => Settled(ThreadOf[k[1]])'
      BY <3>1, <3>3 DEF Settled
    <3>5. scan'.todo \intersect scan'.found = {}
      BY <3>1
    <3> QED
      BY <3>2, <3>4, <3>5 DEF ScanKnows
  <2> QED
    BY <2>1, <2>2
<1>7. ASSUME NEW found \in SUBSET scan.todo, NEW covers \in BOOLEAN, ScanListing(found, covers)
      PROVE  ScanKnows'
  <2> DEFINE todo == Resolvable(found, covers)
  <2>1. CASE todo = {}
    BY <1>3, <1>7, <2>1 DEF ScanListing
  <2>2. CASE todo # {}
    <3>1. /\ call[Worker].pc = "listing" /\ Goto(Worker, "resolving")
          /\ scan' = [todo |-> todo, ripe |-> {}, found |-> found]
          /\ UNCHANGED <<comments, limbo>>
      BY <1>7, <2>2 DEF ScanListing
    <3>2. call'[Worker].pc = "resolving"
      BY <3>1 DEF Goto, Base, Inv, TypeOK, CallType, Callers
    <3>3. ASSUME NEW k \in scan'.todo, k \in scan'.found PROVE comments'[k[1]] # <<>>
      <4>1. k \in found
        BY <3>1, <3>3
      <4>2. Listed(k[1])
        BY <1>7, <4>1 DEF ScanListing
      <4> QED
        BY <3>1, <4>2 DEF Listed
    <3>4. ASSUME NEW k \in Doubted', ThreadOf[k[1]] \notin lapsed'
          PROVE  Settled(ThreadOf[k[1]]) /\ Silent(ThreadOf[k[1]])
      <4>1. covers /\ k \in scan.ripe /\ k \notin found
        BY <3>1, <3>2, <3>4 DEF Doubted, Resolvable
      <4>2. k \in Doubted /\ k \in scan.todo
        BY <3>1, <4>1 DEF Doubted, Base, Inv, IInv, ScanRows
      <4>3. ~ Listed(k[1])
        BY <1>7, <4>1, <4>2 DEF ScanListing
      <4>4. k[1] \in Items /\ k[2] \in Days /\ post[k[1]][k[2]] = "uncertain"
        BY <4>2 DEF Base, Inv, TypeOK, IInv, ScanRows
      <4>5. ASSUME NEW j \in Items, ThreadOf[j] = ThreadOf[k[1]], comments[j] # <<>> PROVE FALSE
        <5>1. j = k[1]
          BY <1>0, <3>4, <4>4, <4>5, HeldRowOf DEF AnswerInv, CommentRows, Base, Held
        <5>2. Len(comments[j]) = 1 /\ comments[j][1].at >= approvedAt[j]
          BY <1>0, <3>4, <4>5 DEF AnswerInv, CommentRows
        <5>3. 1 \in DOMAIN comments[j]
          <6>1. comments[j] \in Seq([body : Bodies, at : Time])
            BY DEF Base, Inv, TypeOK
          <6> QED
            BY <5>2, <6>1
        <5>4. comments[j][1].body = body[j]
          BY <5>3 DEF Base, TextInv, CommentsText
        <5> QED
          BY <4>3, <5>1, <5>2, <5>3, <5>4 DEF Listed
      <4> QED
        BY <1>0, <3>4, <4>2, <4>5 DEF AnswerInv, ScanKnows, Silent
    <3>5. \A k \in Doubted' : ThreadOf[k[1]] \notin lapsed' =>
            Settled(ThreadOf[k[1]])' /\ Silent(ThreadOf[k[1]])'
      BY <3>1, <3>4 DEF Settled, Silent
    <3> QED
      BY <3>3, <3>5 DEF ScanKnows
  <2> QED
    BY <2>1, <2>2
<1> QED
  BY <1>3, <1>4, <1>5, <1>6, <1>7 DEF Steps, ScanStep

\* Nothing is answered initially.
LEMMA AnswerInit == Init => AnswerInv
<1> SUFFICES ASSUME Init PROVE AnswerInv
  OBVIOUS
<1>1. /\ \A c \in Callers : call[c].pc = "idle"
      /\ \A i \in Items : comments[i] = <<>>
      /\ limbo = {} /\ scan = NoScan
  BY DEF Init, Idle
<1>2. Doubted = {} /\ scan.todo = {}
  BY <1>1 DEF Doubted, NoScan
<1> QED
  BY <1>1, <1>2 DEF AnswerInv, CommentRows, LimboRows, CallersKnow, ScanKnows, Unanswered, Answered

\* AnswerInv is inductive.
LEMMA AnswerStep ==
  ASSUME Base, AnswerInv, [Next]_vars
  PROVE  Base' /\ AnswerInv'
<1>1. Inv' /\ Steps
  BY NextInv, NextSteps DEF Base
<1>2. Base'
  BY <1>1, TextStep, DoubtStepInv DEF Base
<1> QED
  BY <1>1, <1>2, CommentRowsStep, LimboRowsStep, CallersKnowStep, ScanKnowsStep DEF AnswerInv

\* AnswerInv is an invariant.
LEMMA AnswerAlways == Spec => [](Base /\ AnswerInv)
<1>1. Init => Base /\ AnswerInv
  BY InitInv, TextInit, DoubtInit, AnswerInit DEF Base
<1>2. Base /\ AnswerInv /\ [Next]_vars => (Base /\ AnswerInv)'
  BY AnswerStep
<1> QED
  BY <1>1, <1>2, PTL DEF Spec

\* A reply that is out is on record, of whatever thread has not lapsed.
THEOREM RepliesRecorded == Spec => []RepliesAreRecorded
<1>1. Base /\ AnswerInv => RepliesAreRecorded
  <2> SUFFICES ASSUME Base, AnswerInv, NEW t \in Threads \ lapsed, Replies(t) # {}
               PROVE  thread[t] \in Counted \ {"ready"}
    BY DEF RepliesAreRecorded
  <2>1. PICK i \in Items : ThreadOf[i] = t /\ DOMAIN comments[i] # {}
    BY DEF Replies, ItemsOf
  <2>2. comments[i] # <<>>
    BY <2>1
  <2>3. thread[t] \in Held
    BY <2>1, <2>2 DEF AnswerInv, CommentRows, Base, Inv, IInv, HeldThread
  <2> QED
    BY <2>3 DEF Held, Counted
<1> QED
  BY <1>1, AnswerAlways, PTL

-----------------------------------------------------------------------------
(***************************************************************************)
(* Refinement: posting implements ThreadReply. An attempt opens with the   *)
(* claim or the retry; the reply appears when the request lands; the       *)
(* thread row written by finish or by reconciliation confirms or releases  *)
(* it; freezing an attempt with its request in limbo lapses it. Every      *)
(* other step leaves the thread's replies and record alone.                *)
(***************************************************************************)
\* The comments of the threads outside L, for any comments f: none, or one under
\* one item.
Alone(f, L) ==
  /\ \A i \in Items : f[i] # <<>> /\ ThreadOf[i] \notin L => DOMAIN f[i] = {1}
  /\ \A i, j \in Items :
       f[i] # <<>> /\ f[j] # <<>> /\ ThreadOf[i] = ThreadOf[j] /\ ThreadOf[i] \notin L => i = j

\* The replies of a thread are none or one.
LEMMA CountReplies ==
  ASSUME NEW f, NEW L, Alone(f, L), NEW t, t \notin L
  PROVE  Cardinality(UNION {{i} \X DOMAIN f[i] : i \in ItemsOf(t)})
           = IF \A i \in Items : ThreadOf[i] = t => f[i] = <<>> THEN 0 ELSE 1
<1> DEFINE R == UNION {{i} \X DOMAIN f[i] : i \in ItemsOf(t)}
<1>1. CASE \A i \in Items : ThreadOf[i] = t => f[i] = <<>>
  <2>1. \A i \in ItemsOf(t) : DOMAIN f[i] = {}
    BY <1>1 DEF ItemsOf
  <2>2. R = {}
    BY <2>1
  <2> QED
    BY <1>1, <2>2, FS_EmptySet
<1>2. ASSUME NEW j \in Items, ThreadOf[j] = t, f[j] # <<>>
      PROVE  Cardinality(R) = 1
  <2>1. DOMAIN f[j] = {1} /\ j \in ItemsOf(t)
    BY <1>2 DEF Alone, ItemsOf
  <2>2. \A i \in ItemsOf(t) : i # j => DOMAIN f[i] = {}
    BY <1>2 DEF Alone, ItemsOf
  <2>3. R = {<<j, 1>>}
    BY <2>1, <2>2
  <2> QED
    BY <2>3, FS_Singleton
<1> QED
  BY <1>1, <1>2

\* Comments are alone in their threads.
LEMMA AloneInv == Inv /\ CommentRows => Alone(comments, lapsed)
<1> SUFFICES ASSUME Inv, CommentRows PROVE Alone(comments, lapsed)
  OBVIOUS
<1>1. ASSUME NEW i \in Items, comments[i] # <<>>, ThreadOf[i] \notin lapsed
      PROVE  DOMAIN comments[i] = {1}
  <2>1. Len(comments[i]) = 1 /\ comments[i] \in Seq([body : Bodies, at : Time])
    BY <1>1 DEF CommentRows, Inv, TypeOK
  <2>2. DOMAIN comments[i] = 1 .. 1
    BY <2>1
  <2> QED
    BY <2>2
<1>2. ASSUME NEW i \in Items, NEW j \in Items, comments[i] # <<>>, comments[j] # <<>>,
             ThreadOf[i] = ThreadOf[j], ThreadOf[i] \notin lapsed
      PROVE  i = j
  BY <1>2, HeldRowOf DEF CommentRows
<1> QED
  BY <1>1, <1>2 DEF Alone

\* What the abstract state is, before and after a step.
LEMMA AnswerCounts ==
  ASSUME Inv, CommentRows, Inv', CommentRows'
  PROVE  /\ \A t \in Threads : ReplyCounts[t] = IF t \in lapsed \/ Silent(t) THEN 0 ELSE 1
         /\ \A t \in Threads : ReplyCounts'[t] =
              IF \/ t \in lapsed'
                 \/ \A i \in Items : ThreadOf[i] = t => comments'[i] = <<>> THEN 0 ELSE 1
<1>1. Alone(comments, lapsed) /\ Alone(comments', lapsed')
  <2>1. Alone(comments, lapsed)
    BY AloneInv
  <2>2. Alone(comments, lapsed)'
    BY AloneInv, PTL
  <2> QED
    BY <2>1, <2>2 DEF Alone
<1>2. ASSUME NEW t \in Threads
      PROVE  ReplyCounts[t] = IF t \in lapsed \/ Silent(t) THEN 0 ELSE 1
  BY <1>1, CountReplies DEF ReplyCounts, Replies, Silent
<1>3. ASSUME NEW t \in Threads
      PROVE  ReplyCounts'[t] =
               IF \/ t \in lapsed'
                  \/ \A i \in Items : ThreadOf[i] = t => comments'[i] = <<>> THEN 0 ELSE 1
  BY <1>1, CountReplies DEF ReplyCounts, Replies, Silent
<1> QED
  BY <1>2, <1>3

\* An attempt that is open, and how it ends.
LEMMA ThreadRecord ==
  ASSUME Base, AnswerInv, Steps, NEW t \in Threads \ lapsed,
         RecordOf(t)' # RecordOf(t)
  PROVE  /\ UNCHANGED comments /\ \A u \in Threads : u # t => thread'[u] = thread[u]
         /\ \/ RecordOf(t) = "free" /\ RecordOf(t)' = "open" /\ Silent(t)
            \/ RecordOf(t) = "open" /\ RecordOf(t)' = "answered" /\ ~ Silent(t)
            \/ RecordOf(t) = "open" /\ RecordOf(t)' = "free" /\ Silent(t)
<1>1. ASSUME NEW c \in Callers, ClaimOwned(c), ThreadOf[call[c].item] = t,
             thread[t] \in Claimable, thread'[t] = "posting"
      PROVE  /\ UNCHANGED comments /\ \A u \in Threads : u # t => thread'[u] = thread[u]
             /\ RecordOf(t) = "free" /\ RecordOf(t)' = "open" /\ Silent(t)
  <2>1. RecordOf(t) = "free" /\ RecordOf(t)' = "open" /\ thread[t] \notin Held
    BY <1>1 DEF RecordOf, Claimable, Held
  <2>2. UNCHANGED comments /\ \A u \in Threads : u # t => thread'[u] = thread[u]
    BY <1>1 DEF ClaimOwned, Base, Inv, TypeOK
  <2> QED
    BY <2>1, <2>2, FreeThread DEF Base, AnswerInv
<1>2. ASSUME NEW g \in Gateways, NEW i \in Items, Retry(g, i), ThreadOf[i] = t,
             thread[t] = "absent", thread'[t] = "posting"
      PROVE  /\ UNCHANGED comments /\ \A u \in Threads : u # t => thread'[u] = thread[u]
             /\ RecordOf(t) = "free" /\ RecordOf(t)' = "open" /\ Silent(t)
  <2>1. RecordOf(t) = "free" /\ RecordOf(t)' = "open" /\ thread[t] \notin Held
    BY <1>2 DEF RecordOf, Held
  <2>2. UNCHANGED comments /\ \A u \in Threads : u # t => thread'[u] = thread[u]
    BY <1>2 DEF Retry, Base, Inv, TypeOK
  <2> QED
    BY <2>1, <2>2, FreeThread DEF Base, AnswerInv
<1>3. ASSUME NEW c \in Callers, FinishThread(c), ThreadOf[call[c].item] = t,
             thread'[t] = call[c].out
      PROVE  /\ UNCHANGED comments /\ \A u \in Threads : u # t => thread'[u] = thread[u]
             /\ \/ RecordOf(t) = "open" /\ RecordOf(t)' = "answered" /\ ~ Silent(t)
                \/ RecordOf(t) = "open" /\ RecordOf(t)' = "free" /\ Silent(t)
  <2>1. /\ call[c].pc = "finThread" /\ Working(c) /\ call[c].out \in Outcomes
        /\ call[c].item \in Items /\ ThreadKey(c) = thread[t] /\ Progress(c)
    <3>1. call[c].pc = "finThread" /\ Working(c)
      BY <1>3, StageNames DEF FinishThread, Working
    <3> QED
      BY <1>3, <3>1, ItemOfCall DEF Base, Inv, TypeOK, CallType
  <2>2. UNCHANGED comments /\ \A u \in Threads : u # t => thread'[u] = thread[u]
    BY <1>3 DEF FinishThread, Base, Inv, TypeOK
  <2>3. CASE call[c].out = "failed"
    BY <1>3, <2>1, <2>2, <2>3
       DEF Progress, AtThread, Rows, AnswerInv, CallersKnow, Unanswered, RecordOf
  <2>4. CASE call[c].out = "posted"
    BY <1>3, <2>1, <2>2, <2>4
       DEF Progress, AtThread, Rows, AnswerInv, CallersKnow, Answered, RecordOf, Silent
  <2>5. CASE call[c].out = "verified"
    BY <1>3, <2>1, <2>5 DEF Progress, AtThread, Rows, RecordOf
  <2>6. CASE call[c].out = "uncertain"
    BY <1>3, <2>1, <2>6 DEF UncertainRows, AtThread, Rows, Open, RecordOf, Base, DoubtInv
  <2> QED
    BY <2>1, <2>3, <2>4, <2>5, <2>6 DEF Outcomes
<1>4. ASSUME NEW k \in scan.todo, ScanResolve(k), ThreadOf[k[1]] = t,
             thread'[t] = IF k \in scan.found THEN "verified" ELSE "absent"
      PROVE  /\ UNCHANGED comments /\ \A u \in Threads : u # t => thread'[u] = thread[u]
             /\ \/ RecordOf(t) = "open" /\ RecordOf(t)' = "answered" /\ ~ Silent(t)
                \/ RecordOf(t) = "open" /\ RecordOf(t)' = "free" /\ Silent(t)
  <2>1. /\ k[1] \in Items /\ k[2] \in Days /\ post[k[1]][k[2]] = "uncertain"
        /\ call[Worker].pc = "resolving"
    BY <1>4 DEF ScanResolve, Base, Inv, TypeOK, IInv, ScanRows
  <2>2. UNCHANGED comments /\ \A u \in Threads : u # t => thread'[u] = thread[u]
    BY <1>4, <2>1 DEF ScanResolve, Base, Inv, TypeOK
  <2>3. RecordOf(t) = "open"
    BY <1>4, <2>1 DEF Base, DoubtInv, OpenRows, Open, RecordOf
  <2>4. CASE k \in scan.found
    BY <1>4, <2>1, <2>2, <2>3, <2>4 DEF AnswerInv, ScanKnows, Silent, RecordOf
  <2>5. CASE k \notin scan.found
    BY <1>4, <2>1, <2>2, <2>3, <2>5 DEF AnswerInv, ScanKnows, Doubted, RecordOf
  <2> QED
    BY <2>4, <2>5
<1>5. /\ thread'[t] = thread[t] => RecordOf(t)' = RecordOf(t)
      /\ {thread[t], thread'[t]} \subseteq {"none", "ready"} => RecordOf(t)' = RecordOf(t)
      /\ thread[t] = "posting" /\ thread'[t] = "uncertain" => RecordOf(t)' = RecordOf(t)
  BY DEF RecordOf
<1>6. ThreadStep(t)
  BY DEF Steps
<1> QED
  BY <1>1, <1>2, <1>3, <1>4, <1>5, <1>6 DEF ThreadStep

\* Every step maps to one of ThreadReply's or to a stutter.
LEMMA ThreadSteps ==
  ASSUME Base, AnswerInv, Base', AnswerInv', Steps
  PROVE  Thread!Next \/ UNCHANGED Thread!vars
<1> DEFINE C  == ReplyCounts
           C1 == ReplyCounts'
           R  == Records
           R1 == Records'
<1>1. /\ \A t \in Threads : C[t] = IF t \in lapsed \/ Silent(t) THEN 0 ELSE 1
      /\ \A t \in Threads : C1[t] =
           IF \/ t \in lapsed'
              \/ \A i \in Items : ThreadOf[i] = t => comments'[i] = <<>> THEN 0 ELSE 1
  BY AnswerCounts DEF Base, AnswerInv
<1>2. /\ \A t \in Threads : R[t] = IF t \in lapsed THEN "lapsed" ELSE RecordOf(t)
      /\ \A t \in Threads : R1[t] = IF t \in lapsed' THEN "lapsed" ELSE RecordOf(t)'
      /\ C = [t \in Threads |-> C[t]] /\ C1 = [t \in Threads |-> C1[t]]
      /\ R = [t \in Threads |-> R[t]] /\ R1 = [t \in Threads |-> R1[t]]
  BY DEF ReplyCounts, Records
<1>3. /\ Thread!Next <=> \E t \in Threads :
           \/ R[t] = "free" /\ C[t] = 0 /\ R1 = [R EXCEPT ![t] = "open"] /\ C1 = C
           \/ R[t] = "open" /\ C[t] = 0 /\ C1 = [C EXCEPT ![t] = 1] /\ R1 = R
           \/ R[t] = "open" /\ C[t] = 1 /\ R1 = [R EXCEPT ![t] = "answered"] /\ C1 = C
           \/ R[t] = "open" /\ C[t] = 0 /\ R1 = [R EXCEPT ![t] = "free"] /\ C1 = C
           \/ R[t] = "open" /\ C[t] = 0 /\ R1 = [R EXCEPT ![t] = "lapsed"] /\ C1 = C
      /\ UNCHANGED Thread!vars <=> C1 = C /\ R1 = R
  BY DEF Thread!Next, Thread!Open, Thread!Reply, Thread!Confirm, Thread!Release, Thread!Lapse,
     Thread!vars, ReplyCounts, Records
<1> HIDE DEF C, C1, R, R1
<1>4. CASE lapsed' # lapsed
  <2>1. PICK r \in limbo : /\ lapsed' = lapsed \union {ThreadOf[r.item]}
                           /\ thread[ThreadOf[r.item]] \in Open
    BY <1>4 DEF Steps, LapseStep
  <2> DEFINE t == ThreadOf[r.item]
  <2>2. UNCHANGED comments /\ \A u \in Threads : RecordOf(u)' = RecordOf(u)
    BY <1>4 DEF Steps, LapseStep
  <2>3. t \notin lapsed /\ t \in Threads /\ Silent(t)
    BY <1>4, <2>1, ThreadsAssumption DEF AnswerInv, LimboRows, Base, Inv, TypeOK
  <2>4. R[t] = "open" /\ R1[t] = "lapsed"
    BY <1>2, <2>1, <2>3 DEF RecordOf, Open
  <2>5. \A u \in Threads : u # t => R1[u] = R[u]
    BY <1>2, <2>1, <2>2
  <2>6. C[t] = 0 /\ C1[t] = 0
    BY <1>1, <2>1, <2>3
  <2>7. \A u \in Threads : u # t => C1[u] = C[u]
    BY <1>1, <2>1, <2>2 DEF Silent
  <2>8. C1 = C /\ R1 = [R EXCEPT ![t] = "lapsed"]
    BY <1>2, <2>3, <2>4, <2>5, <2>6, <2>7
  <2> QED
    BY <1>3, <2>3, <2>4, <2>6, <2>8
<1>5. ASSUME lapsed' = lapsed, NEW t \in Threads \ lapsed, RecordOf(t)' # RecordOf(t)
      PROVE  Thread!Next
  <2>1. /\ UNCHANGED comments /\ \A u \in Threads : u # t => thread'[u] = thread[u]
        /\ \/ RecordOf(t) = "free" /\ RecordOf(t)' = "open" /\ Silent(t)
           \/ RecordOf(t) = "open" /\ RecordOf(t)' = "answered" /\ ~ Silent(t)
           \/ RecordOf(t) = "open" /\ RecordOf(t)' = "free" /\ Silent(t)
    BY <1>5, ThreadRecord
  <2>2. C1 = C
    BY <1>1, <1>2, <1>5, <2>1 DEF Silent
  <2>3. \A u \in Threads : u # t => R1[u] = R[u]
    BY <1>2, <1>5, <2>1 DEF RecordOf
  <2>4. R1 = [R EXCEPT ![t] = R1[t]]
    BY <1>2, <2>3
  <2>5. \/ R[t] = "free" /\ R1[t] = "open" /\ C[t] = 0
        \/ R[t] = "open" /\ R1[t] = "answered" /\ C[t] = 1
        \/ R[t] = "open" /\ R1[t] = "free" /\ C[t] = 0
    BY <1>1, <1>2, <1>5, <2>1
  <2> QED
    BY <1>3, <2>2, <2>4, <2>5
<1>6. ASSUME lapsed' = lapsed, \A t \in Threads \ lapsed : RecordOf(t)' = RecordOf(t),
             NEW i \in Items, ThreadOf[i] \notin lapsed, comments'[i] # comments[i]
      PROVE  Thread!Next
  <2> DEFINE t == ThreadOf[i]
  <2>1. /\ Silent(t) /\ t \in Threads \ lapsed /\ comments'[i] # <<>>
        /\ \A j \in Items : j # i => comments'[j] = comments[j]
        /\ \E d \in Days : post[i][d] \in Open
    <3>1. \A e : <<e>> # <<>>
      OBVIOUS
    <3> QED
      BY <1>6, <3>1, Appears, ThreadsAssumption DEF Base, AnswerInv
  <2>2. R1 = R /\ R[t] = "open"
    <3>1. thread[t] \in Open
      BY <2>1 DEF Base, DoubtInv, OpenRows
    <3>2. \A u \in Threads : R1[u] = R[u]
      BY <1>2, <1>6
    <3> QED
      BY <1>2, <2>1, <3>1, <3>2 DEF RecordOf, Open
  <2>3. C[t] = 0 /\ C1[t] = 1
    BY <1>1, <1>6, <2>1
  <2>4. \A u \in Threads : u # t => C1[u] = C[u]
    BY <1>1, <1>6, <2>1 DEF Silent
  <2>5. C1 = [C EXCEPT ![t] = 1]
    BY <1>2, <2>3, <2>4
  <2> QED
    BY <1>3, <2>1, <2>2, <2>3, <2>5
<1>7. ASSUME lapsed' = lapsed, \A t \in Threads \ lapsed : RecordOf(t)' = RecordOf(t),
             \A i \in Items : ThreadOf[i] \notin lapsed => comments'[i] = comments[i]
      PROVE  UNCHANGED Thread!vars
  <2>1. \A t \in Threads : C1[t] = C[t]
    BY <1>1, <1>7 DEF Silent
  <2>2. \A t \in Threads : R1[t] = R[t]
    BY <1>2, <1>7
  <2>3. C1 = C /\ R1 = R
    BY <1>2, <2>1, <2>2
  <2> QED
    BY <1>3, <2>3
<1> QED
  BY <1>4, <1>5, <1>6, <1>7

\* Initial states map to ThreadReply's.
LEMMA ThreadInit == Init => Thread!Init
<1> SUFFICES ASSUME Init PROVE Thread!Init
  OBVIOUS
<1>1. ASSUME NEW t \in Threads PROVE Cardinality(Replies(t)) = 0 /\ RecordOf(t) = "free"
  <2>1. \A i \in ItemsOf(t) : DOMAIN comments[i] = {}
    BY DEF Init, ItemsOf
  <2>2. Replies(t) = {}
    BY <2>1 DEF Replies
  <2>3. RecordOf(t) = "free"
    BY DEF Init, RecordOf
  <2> QED
    BY <2>2, <2>3, FS_EmptySet
<1> QED
  BY <1>1 DEF Thread!Init, ReplyCounts, Records, Init

\* A thread is answered at most once, only while an attempt is on record, and its
\* record is closed as answered exactly when the reply is there: RedditPosting,
\* with its crashes, lost answers, late requests, reconciliations and retries,
\* implements ThreadReply, whose record lapses where an attempt is frozen too early.
THEOREM ImplementsThreadReply == Spec => AnsweredOnce
<1>1. Init => Thread!Init
  BY ThreadInit
<1>2. Base /\ AnswerInv /\ (Base /\ AnswerInv)' /\ [Next]_vars => [Thread!Next]_(Thread!vars)
  BY ThreadSteps, NextSteps DEF Base
<1> QED
  BY <1>1, <1>2, AnswerAlways, PTL DEF Spec, AnsweredOnce, Thread!Spec

=============================================================================
