--------------------------- MODULE AutonomyProofs ---------------------------
(***************************************************************************)
(* TypeOK, TrustIsEarned and SuggestedOnce of Autonomy, for any pairs,     *)
(* drafts, calls and length of the streak. A level is earned because the   *)
(* row never counts an approval that did not happen; that in turn rests on *)
(* the column edited, which must tell of every change that a pending draft *)
(* has seen, the one included that the worker puts back after a failed     *)
(* post.                                                                   *)
(***************************************************************************)
EXTENDS Autonomy, TLAPS

\* The row never claims more approvals than there were.
RowsEarned ==
  \A p \in Pairs :
    /\ row[p].streak <= clean[p]
    /\ row[p].suggested \/ row[p].level = "L2" => clean[p] = Streak

\* A suggestion made stands until it is confirmed or corrected.
AskedFits ==
  \A p \in Pairs :
    /\ asked[p] <= 1
    /\ asked[p] = 1 => row[p].suggested \/ row[p].level = "L2"

\* The column edited tells of every change that a pending draft has seen.
EditsShow == \A d \in Drafts : Open(d) /\ d \in touched => draft[d].edited

\* The draft that the worker is about to store, or to put back, is untouched.
WorkerFits ==
  /\ worker.pc = "model" =>
       draft[worker.item].state = "none" /\ worker.item \notin touched
  /\ worker.pc = "post" => worker.item \notin touched

Inv == TypeOK /\ RowsEarned /\ AskedFits /\ EditsShow /\ WorkerFits

\* TypeOK by table.
RowType   == row \in [Pairs -> [level : {"L1", "L2"}, streak : 0 .. Streak, suggested : BOOLEAN]]
DraftType == draft \in [Drafts -> [state : {"none", "pending", "approved", "ignored"},
                                   edited : BOOLEAN]]
CallType  ==
  /\ call \in [Gateways -> Pairs \union {None}]
  /\ notice \in [Pairs -> {"none", "sent", "failed", "uncertain"}]
  /\ heard \in [Pairs -> BOOLEAN]
WorkerType ==
  /\ worker \in [pc : {"idle", "model", "level", "approve", "post"}, item : Drafts \union {None}]
  /\ worker.pc # "idle" => worker.item \in Drafts
  /\ worker.pc = "post" => draft[worker.item].state = "approved"
GhostType == touched \subseteq Drafts /\ clean \in [Pairs -> 0 .. Streak] /\ asked \in [Pairs -> 0 .. 2]

LEMMA Types == TypeOK <=> RowType /\ DraftType /\ CallType /\ WorkerType /\ GhostType
  BY DEF TypeOK, RowType, DraftType, CallType, WorkerType, GhostType

\* What a decision about drafts keeps, and what a step of the levels keeps.
Levels == RowType /\ GhostType /\ RowsEarned /\ AskedFits
Papers == DraftType /\ WorkerType /\ touched \subseteq Drafts /\ EditsShow /\ WorkerFits

LEMMA Parts == Inv <=> Levels /\ Papers /\ CallType
  BY Types DEF Inv, Levels, Papers, GhostType

LEMMA PartsNext == Inv' <=> Levels' /\ Papers' /\ CallType'
<1>1. TypeOK' <=> RowType' /\ DraftType' /\ CallType' /\ WorkerType' /\ GhostType'
  BY DEF TypeOK, RowType, DraftType, CallType, WorkerType, GhostType
<1> QED
  BY <1>1 DEF Inv, Levels, Papers, GhostType

-----------------------------------------------------------------------------
\* Init establishes the invariant.
LEMMA InitInv == Init => Inv
<1> SUFFICES ASSUME Init PROVE Inv
  OBVIOUS
<1>1. Streak \in Nat /\ Streak # 0 /\ 0 \in 0 .. Streak
  BY AutonomyAssumption
<1>2. Levels
  BY <1>1 DEF Init, Lowest, Levels, RowType, GhostType, RowsEarned, AskedFits
<1>3. worker.pc = "idle" /\ worker.item = None
  BY DEF Init, Idle
<1>4. WorkerType
  BY <1>3 DEF Init, Idle, WorkerType
<1>5. Papers
  BY <1>3, <1>4 DEF Init, Papers, DraftType, EditsShow, Open, WorkerFits
<1>6. CallType
  BY DEF Init, CallType
<1> QED
  BY <1>2, <1>5, <1>6, Parts

-----------------------------------------------------------------------------
(***************************************************************************)
(* The parts of the invariant under the ways a step may change them.       *)
(***************************************************************************)
\* Adding one up to a limit.
LEMMA MoreFacts ==
  ASSUME NEW max \in Nat, NEW n \in 0 .. max
  PROVE  More(n, max) \in 0 .. max /\ More(n, max) >= n /\ (n + 1 >= max => More(n, max) = max)
  BY DEF More

\* A correction takes back all the pair had.
LEMMA CorrectLevels ==
  ASSUME Levels, NEW p \in Pairs, Correct(p), touched' \subseteq Drafts
  PROVE  Levels'
<1>1. Streak \in Nat /\ 0 \in 0 .. Streak
  BY AutonomyAssumption
<1>2. /\ row' = [row EXCEPT ![p] = Lowest]
      /\ clean' = [clean EXCEPT ![p] = 0] /\ asked' = [asked EXCEPT ![p] = 0]
  BY DEF Correct, Demoted
<1>3. RowType' /\ GhostType'
  BY <1>1, <1>2 DEF Levels, RowType, GhostType, Lowest
<1>4. ASSUME NEW q \in Pairs
      PROVE  /\ row'[q].streak <= clean'[q]
             /\ row'[q].suggested \/ row'[q].level = "L2" => clean'[q] = Streak
             /\ asked'[q] <= 1
             /\ asked'[q] = 1 => row'[q].suggested \/ row'[q].level = "L2"
  <2>1. CASE q = p
    BY <1>2, <2>1 DEF Levels, RowType, GhostType, Lowest
  <2>2. CASE q # p
    BY <1>2, <2>2 DEF Levels, RowType, GhostType, RowsEarned, AskedFits
  <2> QED
    BY <2>1, <2>2
<1> QED
  BY <1>3, <1>4 DEF Levels, RowsEarned, AskedFits

\* A decision about one pending draft touches none the worker relies on.
LEMMA DecidePapers ==
  ASSUME Papers, NEW d \in Drafts, Open(d), DraftType',
         \A o \in Drafts : o # d => draft'[o] = draft[o],
         touched' \subseteq touched \union {d},
         draft'[d].state = "pending" /\ d \in touched' => draft'[d].edited,
         UNCHANGED worker
  PROVE  Papers'
<1>1. touched' \subseteq Drafts
  BY DEF Papers
<1>2. worker.pc \in {"model", "post"} => worker.item # d
  BY DEF Papers, WorkerType, WorkerFits, Open
<1>3. WorkerType' /\ WorkerFits'
  BY <1>2 DEF Papers, WorkerType, WorkerFits
<1>4. EditsShow'
  BY DEF Papers, EditsShow, Open
<1> QED
  BY <1>1, <1>3, <1>4 DEF Papers

\* What neither a draft nor the worker sees.
LEMMA SamePapers ==
  ASSUME Papers, UNCHANGED <<draft, worker, touched>>
  PROVE  Papers'
  BY DEF Papers, DraftType, WorkerType, EditsShow, Open, WorkerFits

\* What no level sees.
LEMMA SameLevels ==
  ASSUME Levels, UNCHANGED <<row, clean, asked>>, touched' \subseteq Drafts
  PROVE  Levels'
  BY DEF Levels, RowType, GhostType, RowsEarned, AskedFits

\* A level depends on rows and ghosts that only grow towards the limit.
LEMMA ApprovalClean ==
  ASSUME Levels, NEW d \in Drafts, Approval(d)
  PROVE  /\ clean' \in [Pairs -> 0 .. Streak]
         /\ \A q \in Pairs : clean'[q] >= clean[q]
         /\ \A q \in Pairs : clean[q] = Streak => clean'[q] = Streak
<1>1. Streak \in Nat /\ PairOf[d] \in Pairs
  BY AutonomyAssumption
<1>2. clean \in [Pairs -> 0 .. Streak]
  BY DEF Levels, GhostType
<1>3. /\ More(clean[PairOf[d]], Streak) \in 0 .. Streak
      /\ More(clean[PairOf[d]], Streak) >= clean[PairOf[d]]
      /\ clean[PairOf[d]] = Streak => More(clean[PairOf[d]], Streak) = Streak
  BY <1>1, <1>2, MoreFacts
<1>4. \/ clean' = clean
      \/ clean' = [clean EXCEPT ![PairOf[d]] = More(@, Streak)]
  BY DEF Approval
<1> QED
  BY <1>1, <1>2, <1>3, <1>4

-----------------------------------------------------------------------------
(***************************************************************************)
(* The tools.                                                              *)
(***************************************************************************)
LEMMA ApproveTrustedStep ==
  ASSUME Inv, NEW d \in Drafts, ApproveTrusted(d)
  PROVE  Inv'
<1>1. Levels /\ Papers /\ CallType
  BY Parts
<1>2. Approval(d) /\ UNCHANGED <<row, call, asked, heard, notice, worker, touched>>
  BY DEF ApproveTrusted, Approval
<1>3. Levels'
  BY <1>1, <1>2, ApprovalClean, AutonomyAssumption DEF Levels, RowType, GhostType, RowsEarned, AskedFits
<1>4. Papers'
  <2>1. /\ DraftType' /\ draft'[d].state = "approved"
        /\ \A o \in Drafts : o # d => draft'[o] = draft[o]
    BY <1>1 DEF ApproveTrusted, Papers, DraftType
  <2> QED
    BY <1>1, <1>2, <2>1, DecidePapers DEF Approval
<1>5. CallType'
  BY <1>1, <1>2 DEF CallType
<1> QED
  BY <1>3, <1>4, <1>5, PartsNext

LEMMA ApproveUncountedStep ==
  ASSUME Inv, NEW d \in Drafts, ApproveUncounted(d)
  PROVE  Inv'
<1>1. Levels /\ Papers /\ CallType
  BY Parts
<1>2. Approval(d) /\ UNCHANGED <<call, asked, heard, notice, worker, touched>>
  BY DEF ApproveUncounted, Approval
<1>3. UNCHANGED row
  BY <1>1, AutonomyAssumption DEF ApproveUncounted, Levels, RowType
<1>4. Levels'
  BY <1>1, <1>2, <1>3, ApprovalClean, AutonomyAssumption
     DEF Levels, RowType, GhostType, RowsEarned, AskedFits
<1>5. Papers'
  <2>1. /\ DraftType' /\ draft'[d].state = "approved"
        /\ \A o \in Drafts : o # d => draft'[o] = draft[o]
    BY <1>1 DEF ApproveUncounted, Papers, DraftType
  <2> QED
    BY <1>1, <1>2, <2>1, DecidePapers DEF Approval
<1>6. CallType'
  BY <1>1, <1>2 DEF CallType
<1> QED
  BY <1>4, <1>5, <1>6, PartsNext

\* An approval that is counted was of an untouched draft, so both counts grow.
LEMMA ApproveCountedStep ==
  ASSUME Inv, NEW g \in Gateways, NEW d \in Drafts, ApproveCounted(g, d)
  PROVE  Inv'
<1> DEFINE p == PairOf[d]
           n == More(row[p].streak, Streak)
<1>1. Levels /\ Papers /\ CallType
  BY Parts
<1>2. p \in Pairs /\ Streak \in Nat /\ Streak # 0
  BY AutonomyAssumption
<1>3. /\ Approval(d) /\ Open(d) /\ ~ draft[d].edited
      /\ row[p].level # "L2"
      /\ UNCHANGED <<notice, worker, touched>>
  BY DEF ApproveCounted, Counts, Approval
<1>4. d \notin touched
  BY <1>1, <1>3 DEF Papers, EditsShow
<1>5. clean' = [clean EXCEPT ![p] = More(@, Streak)]
  BY <1>3, <1>4 DEF Approval
<1>6. row' = [row EXCEPT ![p] = [level |-> "L1", streak |-> n,
                                 suggested |-> row[p].suggested \/ Suggest(row[p])]]
  BY DEF ApproveCounted
<1>7. /\ row[p].streak \in 0 .. Streak /\ clean[p] \in 0 .. Streak
      /\ row[p].suggested \in BOOLEAN /\ asked[p] \in 0 .. 2
      /\ row[p].streak <= clean[p] /\ asked[p] <= 1
      /\ asked[p] = 1 => row[p].suggested
      /\ row[p].suggested => clean[p] = Streak
  BY <1>1, <1>2, <1>3 DEF Levels, RowType, GhostType, RowsEarned, AskedFits
<1>8. Suggest(row[p]) \in BOOLEAN /\ (Suggest(row[p]) => row[p].streak + 1 >= Streak /\ asked[p] = 0)
  BY <1>7 DEF Suggest
<1>9. /\ n \in 0 .. Streak /\ More(clean[p], Streak) \in 0 .. Streak
      /\ n <= More(clean[p], Streak)
      /\ row[p].suggested \/ Suggest(row[p]) => More(clean[p], Streak) = Streak
  BY <1>2, <1>7, <1>8 DEF More
<1>10. asked' \in [Pairs -> 0 .. 2] /\ asked'[p] <= 1
       /\ (asked'[p] = 1 => row[p].suggested \/ Suggest(row[p]))
       /\ \A q \in Pairs : q # p => asked'[q] = asked[q]
  <2>1. CASE Suggest(row[p])
    <3>1. asked' = [asked EXCEPT ![p] = More(@, 2)]
      BY <2>1 DEF ApproveCounted
    <3>2. More(asked[p], 2) = 1
      BY <1>8, <2>1 DEF More
    <3> QED
      BY <1>1, <1>2, <2>1, <3>1, <3>2 DEF Levels, GhostType
  <2>2. CASE ~ Suggest(row[p])
    <3>1. asked' = asked
      BY <2>2 DEF ApproveCounted
    <3> QED
      BY <1>1, <1>7, <3>1 DEF Levels, GhostType
  <2> QED
    BY <2>1, <2>2
<1>11. Levels'
  <2> HIDE DEF n
  <2>1. RowType'
    BY <1>1, <1>2, <1>6, <1>7, <1>8, <1>9 DEF Levels, RowType
  <2>2. GhostType'
    BY <1>1, <1>2, <1>3, <1>5, <1>9, <1>10 DEF Levels, GhostType
  <2>3. ASSUME NEW q \in Pairs
        PROVE  /\ row'[q].streak <= clean'[q]
               /\ row'[q].suggested \/ row'[q].level = "L2" => clean'[q] = Streak
               /\ asked'[q] <= 1
               /\ asked'[q] = 1 => row'[q].suggested \/ row'[q].level = "L2"
    <3>1. CASE q = p
      BY <1>1, <1>2, <1>5, <1>6, <1>9, <1>10, <3>1 DEF Levels, RowType, GhostType
    <3>2. CASE q # p
      BY <1>1, <1>5, <1>6, <1>10, <3>2 DEF Levels, RowType, GhostType, RowsEarned, AskedFits
    <3> QED
      BY <3>1, <3>2
  <2> QED
    BY <2>1, <2>2, <2>3 DEF Levels, RowsEarned, AskedFits
<1>12. Papers'
  <2>1. /\ DraftType' /\ draft'[d].state = "approved"
        /\ \A o \in Drafts : o # d => draft'[o] = draft[o]
    BY <1>1 DEF ApproveCounted, Papers, DraftType
  <2> QED
    BY <1>1, <1>3, <2>1, DecidePapers
<1>13. CallType'
  <2>1. CASE Suggest(row[p])
    BY <1>1, <1>2, <1>3, <2>1 DEF ApproveCounted, CallType
  <2>2. CASE ~ Suggest(row[p])
    BY <1>1, <1>3, <2>2 DEF ApproveCounted, CallType
  <2> QED
    BY <2>1, <2>2
<1> QED
  BY <1>11, <1>12, <1>13, PartsNext

\* An edit shows in the column, whether or not it changed the text.
LEMMA EditStep ==
  ASSUME Inv, NEW d \in Drafts, NEW changed \in BOOLEAN, Edit(d, changed)
  PROVE  Inv'
<1>1. Levels /\ Papers /\ CallType
  BY Parts
<1>2. PairOf[d] \in Pairs
  BY AutonomyAssumption
<1>3. Correct(PairOf[d]) /\ UNCHANGED <<call, notice, worker>>
  BY DEF Edit, Correct
<1>4. touched' \subseteq touched \union {d} /\ touched' \subseteq Drafts
  BY <1>1 DEF Edit, Papers
<1>5. Levels'
  BY <1>1, <1>2, <1>3, <1>4, CorrectLevels
<1>6. /\ DraftType' /\ draft'[d].edited
      /\ \A o \in Drafts : o # d => draft'[o] = draft[o]
  BY <1>1 DEF Edit, Papers, DraftType
<1>7. Papers'
  BY <1>1, <1>3, <1>4, <1>6, DecidePapers DEF Edit
<1>8. CallType'
  BY <1>1, <1>2, <1>3 DEF CallType, Correct
<1> QED
  BY <1>5, <1>7, <1>8, PartsNext

LEMMA IgnoreStep ==
  ASSUME Inv, NEW d \in Drafts, Ignore(d)
  PROVE  Inv'
<1>1. Levels /\ Papers /\ CallType
  BY Parts
<1>2. PairOf[d] \in Pairs
  BY AutonomyAssumption
<1>3. Correct(PairOf[d]) /\ Open(d) /\ UNCHANGED <<call, notice, worker, touched>>
  BY DEF Ignore, Ignorable, Correct
<1>4. Levels'
  BY <1>1, <1>2, <1>3, CorrectLevels DEF Papers
<1>5. /\ DraftType' /\ draft'[d].state = "ignored"
      /\ \A o \in Drafts : o # d => draft'[o] = draft[o]
  BY <1>1 DEF Ignore, Papers, DraftType
<1>6. Papers'
  BY <1>1, <1>3, <1>5, DecidePapers
<1>7. CallType'
  BY <1>1, <1>2, <1>3 DEF CallType, Correct
<1> QED
  BY <1>4, <1>6, <1>7, PartsNext

LEMMA ComplainStep ==
  ASSUME Inv, NEW d \in Drafts, Complain(d)
  PROVE  Inv'
<1>1. Levels /\ Papers /\ CallType
  BY Parts
<1>2. PairOf[d] \in Pairs
  BY AutonomyAssumption
<1>3. Correct(PairOf[d]) /\ UNCHANGED <<draft, touched, call, notice, worker>>
  BY DEF Complain, Correct
<1>4. Levels'
  BY <1>1, <1>2, <1>3, CorrectLevels DEF Papers
<1>5. Papers'
  BY <1>1, <1>3, SamePapers
<1>6. CallType'
  BY <1>1, <1>2, <1>3 DEF CallType, Correct
<1> QED
  BY <1>4, <1>5, <1>6, PartsNext

\* A confirmation needs the suggestion or the streak, and either was earned.
LEMMA ConfirmStep ==
  ASSUME Inv, NEW p \in Pairs, Confirm(p)
  PROVE  Inv'
<1>1. Levels /\ Papers /\ CallType
  BY Parts
<1>2. row' = [row EXCEPT ![p].level = "L2", ![p].suggested = FALSE]
      /\ UNCHANGED <<draft, call, notice, worker, touched, clean, asked, heard>>
  BY DEF Confirm, ghosts
<1>3. row[p] \in [level : {"L1", "L2"}, streak : 0 .. Streak, suggested : BOOLEAN]
      /\ row'[p] = [level |-> "L2", streak |-> row[p].streak, suggested |-> FALSE]
  BY <1>1, <1>2 DEF Levels, RowType
<1>4. clean[p] = Streak
  <2>1. row[p].streak \in 0 .. Streak /\ clean[p] \in 0 .. Streak /\ row[p].streak <= clean[p]
        /\ (row[p].suggested => clean[p] = Streak)
    BY <1>1, <1>3 DEF Levels, GhostType, RowsEarned
  <2>2. row[p].suggested \/ row[p].streak >= Streak
    BY DEF Confirm, Confirmable
  <2> QED
    BY <2>1, <2>2, AutonomyAssumption
<1>5. RowType'
  BY <1>1, <1>2, <1>3 DEF Levels, RowType
<1>6. RowsEarned' /\ AskedFits'
  BY <1>1, <1>2, <1>3, <1>4 DEF Levels, RowType, RowsEarned, AskedFits
<1>7. Levels'
  BY <1>1, <1>2, <1>5, <1>6 DEF Levels, GhostType
<1>8. Papers' /\ CallType'
  BY <1>1, <1>2, SamePapers DEF CallType
<1> QED
  BY <1>7, <1>8, PartsNext

\* Telling the owner, and settling what was left in doubt, change no level.
LEMMA NoticeStep ==
  ASSUME Inv, (\E g \in Gateways : Tell(g)) \/ (\E p \in Pairs : Settle(p))
  PROVE  Inv'
<1>1. Levels /\ Papers /\ CallType
  BY Parts
<1>2. UNCHANGED <<row, draft, worker, touched, clean, asked>>
  BY DEF Tell, Settle
<1>3. CallType'
  <2>1. ASSUME NEW g \in Gateways, Tell(g)
        PROVE  CallType'
    <3>1. call[g] \in Pairs
      BY <1>1, <2>1 DEF Tell, CallType
    <3> QED
      BY <1>1, <2>1, <3>1 DEF Tell, CallType
  <2>2. ASSUME NEW p \in Pairs, Settle(p)
        PROVE  CallType'
    BY <1>1, <2>2 DEF Settle, CallType
  <2> QED
    BY <2>1, <2>2
<1> QED
  BY <1>1, <1>2, <1>3, SamePapers, SameLevels, PartsNext DEF Papers

-----------------------------------------------------------------------------
(***************************************************************************)
(* The worker.                                                             *)
(***************************************************************************)
LEMMA StageStep ==
  ASSUME Inv, Stage \/ Crash
  PROVE  Inv'
<1>1. Levels /\ Papers /\ CallType
  BY Parts
<1>2. Levels' /\ CallType'
  <2>1. UNCHANGED <<row, clean, asked, notice, heard>> /\ touched' \subseteq Drafts
    BY <1>1 DEF Stage, Crash, StartDraft, NoDraft, StoreDraft, ReadLevel, AutoApprove,
                LeaveToPeople, Posted, PostFails, ghosts, Papers
  <2>2. call' = call \/ call' = [g \in Gateways |-> None]
    BY DEF Stage, Crash, StartDraft, NoDraft, StoreDraft, ReadLevel, AutoApprove,
           LeaveToPeople, Posted, PostFails
  <2> QED
    BY <1>1, <2>1, <2>2, SameLevels DEF CallType
<1>3. ASSUME NEW d \in Drafts, StartDraft(d)
      PROVE  Papers'
  <2>1. worker' = [pc |-> "model", item |-> d] /\ touched' = touched \ {d}
        /\ draft' = [draft EXCEPT ![d] = [state |-> "none", edited |-> FALSE]]
    BY <1>3 DEF StartDraft
  <2>2. DraftType' /\ draft'[d].state = "none"
    BY <1>1, <2>1 DEF Papers, DraftType
  <2>3. EditsShow'
    BY <1>1, <2>1 DEF Papers, DraftType, EditsShow, Open
  <2> QED
    BY <1>1, <2>1, <2>2, <2>3 DEF Papers, WorkerType, WorkerFits
<1>4. ASSUME NoDraft \/ LeaveToPeople \/ Posted \/ Crash
      PROVE  Papers'
  <2>1. worker' = Idle /\ UNCHANGED <<draft, touched>>
    BY <1>4 DEF NoDraft, LeaveToPeople, Posted, Crash, Finish, ghosts
  <2> QED
    BY <1>1, <2>1 DEF Idle, Papers, DraftType, WorkerType, EditsShow, Open, WorkerFits
<1>5. CASE StoreDraft
  <2>1. worker.pc = "model" /\ worker.item \in Drafts /\ worker.item \notin touched
    BY <1>1, <1>5 DEF StoreDraft, Papers, WorkerType, WorkerFits
  <2>2. /\ draft' = [draft EXCEPT ![worker.item].state = "pending"]
        /\ worker' = [worker EXCEPT !.pc = "level"] /\ UNCHANGED touched
    BY <1>5 DEF StoreDraft, Goto, ghosts
  <2>3. WorkerType' /\ worker'.pc = "level"
    BY <1>1, <2>1, <2>2 DEF Papers, WorkerType
  <2>4. DraftType' /\ EditsShow'
    BY <1>1, <2>1, <2>2 DEF Papers, DraftType, EditsShow, Open
  <2>5. Papers'
    BY <1>1, <2>2, <2>3, <2>4 DEF Papers, WorkerFits
  <2> QED
    BY <1>2, <2>5, PartsNext
<1>6. CASE ReadLevel
  <2>1. worker.pc = "level" /\ worker.item \in Drafts /\ UNCHANGED <<draft, touched>>
        /\ (worker' = [worker EXCEPT !.pc = "approve"] \/ worker' = Idle)
    BY <1>1, <1>6 DEF ReadLevel, Goto, Finish, ghosts, Papers, WorkerType
  <2>2. WorkerType' /\ worker'.pc \in {"approve", "idle"}
    BY <1>1, <2>1 DEF Papers, WorkerType, Idle
  <2>3. Papers'
    BY <1>1, <2>1, <2>2 DEF Papers, DraftType, EditsShow, Open, WorkerFits
  <2> QED
    BY <1>2, <2>3, PartsNext
<1>7. CASE AutoApprove
  <2> DEFINE d == worker.item
  <2>1. d \in Drafts /\ d \notin touched /\ UNCHANGED touched
        /\ draft' = [draft EXCEPT ![d].state = "approved"]
        /\ worker' = [worker EXCEPT !.pc = "post"]
    BY <1>1, <1>7 DEF AutoApprove, Unchanged, Goto, ghosts, Papers, WorkerType
  <2>2. DraftType' /\ EditsShow' /\ draft'[d].state = "approved"
    BY <1>1, <2>1 DEF Papers, DraftType, EditsShow, Open
  <2>3. WorkerType' /\ worker'.item = d
    BY <1>1, <2>1, <2>2 DEF Papers, WorkerType
  <2>4. Papers'
    BY <1>1, <2>1, <2>2, <2>3 DEF Papers, WorkerFits, WorkerType
  <2> QED
    BY <1>2, <2>4, PartsNext
<1>8. CASE PostFails
  <2>1. worker.item \in Drafts /\ worker.item \notin touched /\ UNCHANGED touched
        /\ draft' = [draft EXCEPT ![worker.item].state = "pending"] /\ worker' = Idle
    BY <1>1, <1>8 DEF PostFails, Finish, ghosts, Papers, WorkerType, WorkerFits
  <2>2. DraftType' /\ EditsShow'
    BY <1>1, <2>1 DEF Papers, DraftType, EditsShow, Open
  <2>3. Papers'
    BY <1>1, <2>1, <2>2 DEF Papers, Idle, WorkerType, WorkerFits
  <2> QED
    BY <1>2, <2>3, PartsNext
<1> QED
  BY <1>2, <1>3, <1>4, <1>5, <1>6, <1>7, <1>8, PartsNext DEF Stage

-----------------------------------------------------------------------------
(***************************************************************************)
(* The theorems.                                                           *)
(***************************************************************************)
LEMMA NextInv == Inv /\ [Next]_vars => Inv'
<1> SUFFICES ASSUME Inv, [Next]_vars PROVE Inv'
  OBVIOUS
<1>1. CASE UNCHANGED vars
  <2>1. Levels /\ Papers /\ CallType
    BY Parts
  <2>2. UNCHANGED <<row, draft, call, notice, worker, touched, clean, asked, heard>>
    BY <1>1 DEF vars, ghosts
  <2>3. Papers' /\ Levels' /\ CallType'
    BY <2>1, <2>2, SamePapers, SameLevels DEF Papers, CallType
  <2> QED
    BY <2>3, PartsNext
<1>2. CASE Tools
  BY <1>2, ApproveTrustedStep, ApproveUncountedStep, ApproveCountedStep, EditStep, IgnoreStep,
     ComplainStep, ConfirmStep, NoticeStep DEF Tools
<1>3. CASE Stage \/ Crash
  BY <1>3, StageStep
<1>4. CASE \E p \in Pairs : Settle(p)
  BY <1>4, NoticeStep
<1> QED
  BY <1>1, <1>2, <1>3, <1>4 DEF Next

LEMMA Invariance == Spec => []Inv
  BY InitInv, NextInv, PTL DEF Spec

\* The tables and the callers keep their types.
THEOREM TypeCorrect == Spec => []TypeOK
<1>1. Inv => TypeOK
  BY DEF Inv
<1> QED
  BY Invariance, <1>1, PTL

\* L2 is held only by pairs with L2_STREAK approvals of untouched drafts since
\* the last correction, however tools, worker and crashes interleave
\* (autonomy.ts:61-119, aha-tools.ts:943-1000).
THEOREM TrustEarned == Spec => []TrustIsEarned
<1>1. Inv => TrustIsEarned
  BY DEF Inv, RowsEarned, TrustIsEarned
<1> QED
  BY Invariance, <1>1, PTL

\* The owner is asked about a streak once (autonomy.ts:93-96).
THEOREM AskedOnce == Spec => []SuggestedOnce
<1>1. Inv => SuggestedOnce
  BY DEF Inv, AskedFits, SuggestedOnce
<1> QED
  BY Invariance, <1>1, PTL
=============================================================================
