--------------------------- MODULE DeliveryProofs ---------------------------
(***************************************************************************)
(* The safety properties of Delivery, for any keys and callers, any limits *)
(* that meet its assumption and clocks that stand still for any time.  The *)
(* row of a key is the lock under which its message is posted: it is       *)
(* 'uncertain' for as long as the key is young and a POST of it is under   *)
(* way, and what is left of the POST is over before the row is ripe.  This *)
(* is so when the claim is made, unless it is dated too long ago, in which *)
(* case the key is late, and both age alike from then on.                  *)
(***************************************************************************)
EXTENDS Delivery, TLAPS

RowType   == [status : Statuses, body : BOOLEAN, created : 0 .. Eldest, updated : 0 .. Ripest]
CallType  == [pc : {"idle", "sending"} \union Claiming, key : Keys \union {NoKey}, age : 0 .. Timeout]
ClockType == [fixed : BOOLEAN, age : 0 .. Longest]

Typed ==
  /\ paused \in BOOLEAN /\ row \in [Keys -> RowType] /\ call \in [Callers -> CallType]
  /\ clock \in [Callers -> ClockType] /\ todo \in SUBSET Keys
  /\ accepted \in [Keys -> 0 .. 2] /\ doubt \in [Keys -> BOOLEAN] /\ late \in [Keys -> BOOLEAN]

CallsFit ==
  \A c \in Callers : /\ call[c].pc # "idle" => call[c].key \in Keys
                     /\ call[c].pc # "sending" => call[c].age = 0

\* What is known of a key while its lock holds.
Lock(k) ==
  \A c \in Callers : Sends(c, k) =>
    /\ row[k].status = "uncertain" /\ row[k].body
    /\ row[k].updated + (Timeout - call[c].age) < Grace
    /\ \A d \in Callers : Sends(d, k) => d = c

KeyFits(k) ==
  /\ row[k].body => row[k].status = "uncertain"
  /\ row[k].status = "none" => row[k].created = 0
  /\ Locked(k) => /\ Lock(k)
                  /\ row[k].status = "uncertain" => row[k].body
                  /\ accepted[k] > 0 => doubt[k] \/ row[k].status = "sent"
  /\ accepted[k] > 1 => doubt[k] \/ ~ Locked(k)

Inv == Typed /\ CallsFit /\ \A k \in Keys : KeyFits(k)

\* What SentIsFinal says of a step.
StaysSent == \A k \in Keys : row[k].status = "sent" /\ Locked(k) => row'[k].status = "sent"

-----------------------------------------------------------------------------
(***************************************************************************)
(* The limits.                                                             *)
(***************************************************************************)
LEMMA Sizes ==
  /\ Timeout \in Nat \ {0} /\ Grace \in Nat /\ MaxAge \in Nat
  /\ Longest \in Nat /\ Eldest \in Nat /\ Ripest \in Nat
  /\ Longest <= Eldest /\ Longest <= Ripest /\ Timeout < Grace /\ Grace < MaxAge
  /\ MaxAge <= Eldest /\ Grace <= Ripest
  BY DeliveryAssumption DEF Eldest, Ripest

LEMMA WorkerIsCaller == Worker \in Callers
  BY DEF Callers

LEMMA Clock ==
  ASSUME Inv, NEW c \in Callers
  PROVE  At(c) \in 0 .. Longest /\ At(c) \in 0 .. Eldest /\ At(c) \in 0 .. Ripest
  BY Sizes DEF At, Inv, Typed, ClockType

\* Nobody sends a locked key that is ripe for another caller, or not undecided.
LEMMA NobodySends ==
  ASSUME Inv, NEW k \in Keys, Locked(k), NEW c \in Callers,
         row[k].status # "uncertain" \/ row[k].updated - At(c) >= Grace
  PROVE  \A d \in Callers : ~ Sends(d, k)
<1> SUFFICES ASSUME NEW d \in Callers, Sends(d, k) PROVE FALSE
  OBVIOUS
<1>1. row[k].status = "uncertain" /\ row[k].updated + (Timeout - call[d].age) < Grace
  BY DEF Inv, KeyFits, Lock
<1>2. At(c) \in 0 .. Longest /\ call[d].age \in 0 .. Timeout /\ row[k].updated \in 0 .. Ripest
  BY Clock DEF Inv, Typed, RowType, CallType
<1> QED
  BY <1>1, <1>2, Sizes

-----------------------------------------------------------------------------
LEMMA InitInv == Init => Inv
<1> SUFFICES ASSUME Init PROVE Inv
  OBVIOUS
<1>1. NoRow \in RowType /\ Idle \in CallType /\ Live \in ClockType
  BY Sizes DEF NoRow, Idle, Live, RowType, CallType, ClockType, Statuses
<1>2. Typed
  <2>1. row \in [Keys -> RowType] /\ call \in [Callers -> CallType] /\ clock \in [Callers -> ClockType]
    <3> HIDE DEF NoRow, Idle, Live, RowType, CallType, ClockType
    <3> QED
      BY <1>1 DEF Init
  <2>2. paused \in BOOLEAN /\ todo \in SUBSET Keys
    BY DEF Init
  <2>3. doubt \in [Keys -> BOOLEAN] /\ late \in [Keys -> BOOLEAN]
    BY Zenon DEF Init
  <2>4. accepted \in [Keys -> 0 .. 2]
    <3>1. accepted = [k \in Keys |-> 0] /\ 0 \in 0 .. 2
      BY DEF Init
    <3> QED
      BY <3>1
  <2> QED
    BY <2>1, <2>2, <2>3, <2>4 DEF Typed
<1>3. CallsFit
  BY DEF Init, CallsFit, Idle
<1>4. \A k \in Keys : KeyFits(k)
  BY DEF Init, KeyFits, Lock, Sends, Idle, NoRow
<1> QED
  BY <1>2, <1>3, <1>4 DEF Inv

(***************************************************************************)
(* A step of one caller that writes the row of one key at most.            *)
(***************************************************************************)
LEMMA CallerStep ==
  ASSUME Inv, NEW c \in Callers, NEW k \in Keys, Typed', CallsFit',
         \A d \in Callers : d # c => call'[d] = call[d],
         call'[c].pc = "sending" => call'[c].key = k,
         \A j \in Keys : j # k => /\ row'[j] = row[j] /\ accepted'[j] = accepted[j]
                                 /\ doubt'[j] = doubt[j] /\ late'[j] = late[j],
         KeyFits(k)'
  PROVE  Inv'
<1> SUFFICES ASSUME NEW j \in Keys, j # k PROVE KeyFits(j)'
  BY DEF Inv
<1>1. \A d \in Callers : Sends(d, j)' => Sends(d, j) /\ call'[d] = call[d]
  BY DEF Sends
<1>2. Lock(j) => Lock(j)'
  BY <1>1 DEF Lock
<1> QED
  BY <1>2 DEF Inv, KeyFits, Locked, Young

\* For a caller that sends nothing in the end, and leaves the key to the others.
LEMMA OthersSend ==
  ASSUME NEW c \in Callers, NEW k \in Keys,
         \A d \in Callers : d # c => call'[d] = call[d],
         call'[c].pc # "sending", Lock(k), row'[k] = row[k]
  PROVE  Lock(k)'
<1>1. \A d \in Callers : Sends(d, k)' => Sends(d, k) /\ call'[d] = call[d]
  BY DEF Sends
<1> QED
  BY <1>1 DEF Lock

\* A key that has just been claimed, when nobody else sends it.
LEMMA ClaimLocks ==
  ASSUME Inv, NEW c \in Callers, NEW k \in Keys,
         \A d \in Callers : ~ Sends(d, k), Post(c, k), ~ late'[k],
         row'[k].status = "uncertain", row'[k].body, row'[k].updated = At(c)
  PROVE  Lock(k)'
<1>1. call' = [call EXCEPT ![c] = [pc |-> "sending", key |-> k, age |-> 0]]
  BY DEF Post
<1>2. \A d \in Callers : Sends(d, k)' => d = c
  BY <1>1 DEF Sends, Inv, Typed
<1>3. call'[c].age = 0
  BY <1>1 DEF Inv, Typed
<1>4. ~ Outlived(At(c))
  BY DEF Post, Inv, Typed
<1>5. At(c) + (Timeout - 0) < Grace
  BY <1>4, Clock, Sizes DEF Outlived
<1> QED
  BY <1>2, <1>3, <1>5 DEF Lock

-----------------------------------------------------------------------------
(***************************************************************************)
(* sendToChat: the statements of claim.                                    *)
(***************************************************************************)
NewCall(pc, k) == [pc |-> pc, key |-> k, age |-> 0]

LEMMA NewCallTyped ==
  ASSUME NEW pc \in {"idle", "sending"} \union Claiming, NEW k \in Keys \union {NoKey}
  PROVE  NewCall(pc, k) \in CallType
  BY Sizes DEF NewCall, CallType

\* A caller goes on to a call that is at its beginning, or has ended.
LEMMA CallMoves ==
  ASSUME Inv, NEW c \in Callers,
         NEW pc \in {"idle", "sending"} \union Claiming, NEW k \in Keys \union {NoKey},
         pc # "idle" => k \in Keys, call' = [call EXCEPT ![c] = NewCall(pc, k)]
  PROVE  /\ call' \in [Callers -> CallType] /\ CallsFit' /\ call'[c] = NewCall(pc, k)
         /\ call'[c].pc = pc /\ call'[c].key = k
         /\ \A d \in Callers : d # c => call'[d] = call[d]
<1> HIDE DEF CallType
<1>1. /\ call' \in [Callers -> CallType] /\ call'[c] = NewCall(pc, k)
      /\ \A d \in Callers : d # c => call'[d] = call[d]
  BY NewCallTyped DEF Inv, Typed
<1>2. call'[c].pc = pc /\ call'[c].key = k
  BY <1>1 DEF NewCall
<1>3. call'[c].age = 0
  BY <1>1 DEF NewCall
<1>4. CallsFit'
  BY <1>1, <1>2, <1>3 DEF Inv, CallsFit
<1> QED
  BY <1>1, <1>2, <1>4

LEMMA PostMoves ==
  ASSUME Inv, NEW c \in Callers, NEW k \in Keys, Post(c, k)
  PROVE  /\ call' \in [Callers -> CallType] /\ CallsFit'
         /\ call'[c].pc = "sending" /\ call'[c].key = k
         /\ \A d \in Callers : d # c => call'[d] = call[d]
         /\ late' \in [Keys -> BOOLEAN] /\ (late[k] => late'[k])
         /\ \A j \in Keys : j # k => late'[j] = late[j]
<1>1. call' = [call EXCEPT ![c] = NewCall("sending", k)]
  BY DEF Post, NewCall
<1>2. /\ call' \in [Callers -> CallType] /\ CallsFit'
      /\ call'[c].pc = "sending" /\ call'[c].key = k
      /\ \A d \in Callers : d # c => call'[d] = call[d]
  BY <1>1, CallMoves
<1>3. Outlived(At(c)) \in BOOLEAN
  BY DEF Outlived
<1> DEFINE new == late[k] \/ Outlived(At(c))
<1>4. late' = [late EXCEPT ![k] = new] /\ new \in BOOLEAN /\ late \in [Keys -> BOOLEAN]
  BY <1>3 DEF Post, Inv, Typed
<1>5. late[k] => new
  OBVIOUS
<1> HIDE DEF new
<1>6. /\ late' \in [Keys -> BOOLEAN] /\ (late[k] => late'[k])
      /\ \A j \in Keys : j # k => late'[j] = late[j]
  BY <1>4, <1>5, Zenon
<1> QED
  BY <1>2, <1>6

\* A statement of claim that takes the row: the caller sends.
LEMMA TakeStep ==
  ASSUME Inv, NEW c \in Callers, NEW k \in Keys, Claim(k, At(c)), Post(c, k),
         row[k].status = "failed" \/ Ripe(k, At(c)),
         UNCHANGED <<paused, clock, todo, accepted, doubt>>
  PROVE  Inv' /\ StaysSent
<1>1. row[k] \in RowType /\ row \in [Keys -> RowType]
  BY DEF Inv, Typed
<1>2. At(c) \in 0 .. Ripest
  BY Clock
<1>3. /\ row' \in [Keys -> RowType] /\ \A j \in Keys : j # k => row'[j] = row[j]
      /\ row'[k].status = "uncertain" /\ row'[k].body /\ row'[k].updated = At(c)
      /\ row'[k].created = row[k].created
  BY <1>1, <1>2 DEF Claim, RowType, Statuses
<1>4. /\ call' \in [Callers -> CallType] /\ CallsFit'
      /\ call'[c].pc = "sending" /\ call'[c].key = k
      /\ \A d \in Callers : d # c => call'[d] = call[d]
      /\ late' \in [Keys -> BOOLEAN] /\ (late[k] => late'[k])
      /\ \A j \in Keys : j # k => late'[j] = late[j]
  BY PostMoves
<1>5. Typed'
  BY <1>3, <1>4 DEF Inv, Typed
<1>6. row[k].status # "sent" /\ row[k].status # "none"
  BY DEF Ripe
<1>7. Locked(k)' => Locked(k)
  BY <1>3, <1>4 DEF Locked, Young
<1>8. Locked(k) => \A d \in Callers : ~ Sends(d, k)
  BY NobodySends DEF Ripe
<1>9. Locked(k)' => Lock(k)'
  BY <1>3, <1>7, <1>8, ClaimLocks DEF Locked
<1>10. KeyFits(k)'
  BY <1>3, <1>6, <1>7, <1>9 DEF Inv, KeyFits
<1>11. Inv'
  BY <1>3, <1>4, <1>5, <1>10, CallerStep
<1> QED
  BY <1>3, <1>6, <1>11 DEF StaysSent

LEMMA Rewritten ==
  ASSUME NEW S, NEW C, NEW U, NEW r \in [status : S, body : BOOLEAN, created : C, updated : U],
         NEW s \in S, NEW b \in BOOLEAN, NEW u \in U
  PROVE  LET new == [r EXCEPT !.status = s, !.body = b, !.updated = u]
         IN  /\ new \in [status : S, body : BOOLEAN, created : C, updated : U]
             /\ new.status = s /\ new.body = b /\ new.created = r.created /\ new.updated = u
  OBVIOUS

LEMMA Updated ==
  ASSUME NEW K, NEW R, NEW f \in [K -> R], NEW k \in K, NEW e \in R
  PROVE  /\ [f EXCEPT ![k] = e] \in [K -> R] /\ [f EXCEPT ![k] = e][k] = e
         /\ \A j \in K : j # k => [f EXCEPT ![k] = e][j] = f[j]
  OBVIOUS

LEMMA ExpiredRow ==
  ASSUME Inv, NEW k \in Keys
  PROVE  /\ Expired(k) \in RowType
         /\ Expired(k).status = "failed" /\ Expired(k).body = FALSE
         /\ Expired(k).created = row[k].created
<1>1. row[k] \in RowType
  BY DEF Inv, Typed
<1>2. "failed" \in Statuses /\ 0 \in 0 .. Ripest
  BY Sizes DEF Statuses
<1> QED
  BY <1>1, <1>2, Rewritten DEF Expired, RowType

\* One that does not: the caller goes on to the next statement or returns.
LEMMA LeaveStep ==
  ASSUME Inv, NEW c \in Callers, NEW k \in Keys,
         NEW pc \in {"idle"} \union Claiming, NEW key \in Keys \union {NoKey},
         pc # "idle" => key \in Keys, call' = [call EXCEPT ![c] = NewCall(pc, key)],
         UNCHANGED row \/ (TooOld(k, At(c)) /\ row' = [row EXCEPT ![k] = Expired(k)]),
         UNCHANGED <<paused, clock, todo, accepted, doubt, late>>
  PROVE  Inv' /\ StaysSent
<1>1. row[k] \in RowType /\ row \in [Keys -> RowType]
  BY DEF Inv, Typed
<1>2. /\ row' \in [Keys -> RowType] /\ \A j \in Keys : j # k => row'[j] = row[j]
      /\ \/ row'[k] = row[k]
         \/ /\ row[k].status = "uncertain" /\ row'[k].status = "failed" /\ ~ row'[k].body
            /\ row'[k].created = row[k].created /\ row[k].created - At(c) >= MaxAge
  <2>1. CASE UNCHANGED row
    BY <1>1, <2>1
  <2>2. CASE TooOld(k, At(c)) /\ row' = [row EXCEPT ![k] = Expired(k)]
    <3>1. /\ row' \in [Keys -> RowType] /\ row'[k] = Expired(k)
          /\ \A j \in Keys : j # k => row'[j] = row[j]
      <4> HIDE DEF RowType, Expired
      <4> QED
        BY <1>1, <2>2, ExpiredRow, Updated
    <3> QED
      BY <2>2, <3>1, ExpiredRow DEF TooOld
  <2> QED
    BY <2>1, <2>2
<1>3. pc \in {"idle", "sending"} \union Claiming /\ pc # "sending"
  BY DEF Claiming
<1>4. /\ call' \in [Callers -> CallType] /\ CallsFit' /\ call'[c].pc = pc
      /\ \A d \in Callers : d # c => call'[d] = call[d]
  BY <1>3, CallMoves, Zenon
<1>5. Typed'
  BY <1>2, <1>4 DEF Inv, Typed
<1>6. KeyFits(k)'
  <2>1. CASE row'[k] = row[k]
    <3>1. Lock(k) => Lock(k)'
      BY <1>3, <1>4, <2>1, OthersSend
    <3> QED
      BY <2>1, <3>1 DEF Inv, KeyFits, Locked, Young
  <2>2. CASE row'[k] # row[k]
    <3>1. At(c) \in 0 .. Longest
      BY Clock
    <3>2. ~ Locked(k)'
      BY <1>1, <1>2, <2>2, <3>1, Sizes DEF Locked, Young, RowType
    <3> QED
      BY <1>2, <2>2, <3>2 DEF KeyFits
  <2> QED
    BY <2>1, <2>2
<1>7. Inv'
  BY <1>2, <1>3, <1>4, <1>5, <1>6, CallerStep
<1> QED
  BY <1>2, <1>7 DEF StaysSent

LEMMA GotoIs ==
  ASSUME Inv, NEW c \in Callers, call[c].pc \in Claiming, NEW pc \in Claiming, Goto(c, pc)
  PROVE  call' = [call EXCEPT ![c] = NewCall(pc, call[c].key)]
<1>1. call[c] \in CallType /\ call[c].age = 0
  BY DEF Inv, Typed, CallsFit, Claiming
<1>2. [call[c] EXCEPT !.pc = pc] = NewCall(pc, call[c].key)
  BY <1>1 DEF CallType, NewCall
<1>3. call' = [call EXCEPT ![c] = [call[c] EXCEPT !.pc = pc]]
  BY DEF Goto
<1> QED
  BY <1>2, <1>3, Zenon

LEMMA LeaveIs ==
  ASSUME NEW c \in Callers, Leave(c)
  PROVE  call' = [call EXCEPT ![c] = NewCall("idle", NoKey)]
  BY DEF Leave, Idle, NewCall

LEMMA StatementStep ==
  ASSUME Inv, NEW c \in Callers, Statement(c)
  PROVE  Inv' /\ StaysSent
<1> DEFINE k == call[c].key
<1>1. call[c].pc \in Claiming /\ UNCHANGED <<paused, clock, todo, accepted, doubt>>
  BY DEF Statement, ClaimFailed, ClaimExpired, ClaimRipe, Claiming
<1>2. k \in Keys
  BY <1>1 DEF Inv, CallsFit, Claiming
<1>3. "expire" \in Claiming /\ "reclaim" \in Claiming
  BY DEF Claiming
<1>4. ASSUME NEW pc \in Claiming, Goto(c, pc), UNCHANGED <<row, late>> PROVE Inv' /\ StaysSent
  BY <1>1, <1>2, <1>4, GotoIs, LeaveStep
<1>5. ASSUME Leave(c), UNCHANGED late,
             UNCHANGED row \/ (TooOld(k, At(c)) /\ row' = [row EXCEPT ![k] = Expired(k)])
      PROVE  Inv' /\ StaysSent
  BY <1>1, <1>2, <1>5, LeaveIs, LeaveStep
<1>6. CASE ClaimFailed(c)
  <2>1. CASE Retriable(k)
    BY <1>1, <1>2, <1>6, <2>1, TakeStep DEF ClaimFailed, Retriable
  <2>2. CASE ~ Retriable(k)
    BY <1>3, <1>4, <1>6, <2>2 DEF ClaimFailed
  <2> QED
    BY <2>1, <2>2
<1>7. CASE ClaimExpired(c)
  BY <1>3, <1>4, <1>5, <1>7 DEF ClaimExpired
<1>8. CASE ClaimRipe(c)
  <2>1. CASE Ripe(k, At(c))
    BY <1>1, <1>2, <1>8, <2>1, TakeStep DEF ClaimRipe
  <2>2. CASE ~ Ripe(k, At(c))
    BY <1>5, <1>8, <2>2 DEF ClaimRipe
  <2> QED
    BY <2>1, <2>2
<1> QED
  BY <1>6, <1>7, <1>8 DEF Statement

-----------------------------------------------------------------------------
(***************************************************************************)
(* sendToChat from the beginning: by a tool call or by a pass.             *)
(***************************************************************************)
LEMMA EnterStep ==
  ASSUME Inv, NEW c \in Callers, NEW k \in Keys, call[c].pc = "idle", Enter(c, k),
         UNCHANGED <<paused, clock, accepted, doubt>>, todo' \in SUBSET Keys
  PROVE  Inv' /\ StaysSent
<1>1. CASE row[k].status = "none"
  <2> DEFINE new == [status |-> "uncertain", body |-> TRUE, created |-> At(c), updated |-> At(c)]
  <2>1. Post(c, k) /\ row' = [row EXCEPT ![k] = new]
    BY <1>1 DEF Enter
  <2>2. /\ call' \in [Callers -> CallType] /\ CallsFit'
        /\ call'[c].pc = "sending" /\ call'[c].key = k
        /\ \A d \in Callers : d # c => call'[d] = call[d]
        /\ late' \in [Keys -> BOOLEAN] /\ (late[k] => late'[k])
        /\ \A j \in Keys : j # k => late'[j] = late[j]
    BY <2>1, PostMoves
  <2>3. /\ new \in RowType
        /\ new.status = "uncertain" /\ new.body /\ new.updated = At(c)
    BY Clock DEF Statuses, RowType
  <2> HIDE DEF new
  <2>4. /\ row' \in [Keys -> RowType] /\ \A j \in Keys : j # k => row'[j] = row[j]
        /\ row'[k].status = "uncertain" /\ row'[k].body /\ row'[k].updated = At(c)
    BY <2>1, <2>3 DEF Inv, Typed
  <2>5. Typed'
    BY <2>2, <2>4 DEF Inv, Typed
  <2>6. Young(k)
    BY <1>1, Sizes DEF Inv, KeyFits, Young
  <2>7. Locked(k)' => Locked(k)
    BY <2>2, <2>6 DEF Locked
  <2>8. Locked(k) => (\A d \in Callers : ~ Sends(d, k)) /\ (accepted[k] > 0 => doubt[k])
    BY <1>1, NobodySends DEF Inv, KeyFits
  <2>9. Locked(k)' => Lock(k)'
    BY <2>1, <2>4, <2>7, <2>8, ClaimLocks DEF Locked
  <2>10. accepted[k] \in 0 .. 2
    BY DEF Inv, Typed
  <2>11. KeyFits(k)'
    BY <2>4, <2>7, <2>8, <2>9, <2>10 DEF KeyFits
  <2>12. Inv'
    BY <2>2, <2>4, <2>5, <2>11, CallerStep
  <2> QED
    BY <1>1, <2>4, <2>12 DEF StaysSent
<1>2. CASE row[k].status # "none"
  <2>1. call' = [call EXCEPT ![c] = NewCall("retry", k)] /\ UNCHANGED <<row, late>>
    BY <1>2 DEF Enter, NewCall
  <2>2. /\ call' \in [Callers -> CallType] /\ CallsFit' /\ call'[c].pc = "retry"
        /\ \A d \in Callers : d # c => call'[d] = call[d]
    BY <2>1, CallMoves DEF Claiming
  <2>3. Typed'
    BY <2>1, <2>2 DEF Inv, Typed
  <2>4. Lock(k) => Lock(k)'
    BY <2>1, <2>2, OthersSend
  <2>5. KeyFits(k)'
    BY <2>1, <2>4 DEF Inv, KeyFits, Locked, Young
  <2>6. Inv'
    BY <2>1, <2>2, <2>3, <2>5, CallerStep
  <2> QED
    BY <2>1, <2>6 DEF StaysSent
<1> QED
  BY <1>1, <1>2

-----------------------------------------------------------------------------
(***************************************************************************)
(* finish.                                                                 *)
(***************************************************************************)
LEMMA FinishStep ==
  ASSUME Inv, NEW c \in Callers, call[c].pc = "sending", NEW k \in Keys, call[c].key = k,
         NEW status \in {"uncertain", "sent", "failed"}, Finish(c, status),
         UNCHANGED <<paused, clock, todo, late>>,
         accepted' \in [Keys -> 0 .. 2], doubt' \in [Keys -> BOOLEAN],
         \A j \in Keys : j # k => accepted'[j] = accepted[j] /\ doubt'[j] = doubt[j],
         doubt[k] => doubt'[k],
         \/ doubt'[k]
         \/ accepted'[k] = accepted[k]
         \/ status = "sent" /\ (accepted'[k] > 1 => accepted[k] > 0)
  PROVE  Inv' /\ StaysSent
<1> DEFINE updated == IF status = "uncertain" THEN At(c) ELSE 0
           body == KeepsBody(k, status)
<1>1. row[k] \in RowType /\ row \in [Keys -> RowType]
  BY DEF Inv, Typed
<1>2. status \in Statuses /\ updated \in 0 .. Ripest /\ body \in BOOLEAN
  BY <1>1, Clock, Sizes DEF Statuses, KeepsBody, RowType
<1>3. row' = [row EXCEPT ![k] = [row[k] EXCEPT !.status = status, !.body = body, !.updated = updated]]
  BY DEF Finish
<1>4. body <=> row[k].body /\ status = "uncertain"
  BY DEF KeepsBody
<1> HIDE DEF updated, body
<1>5. LET new == [row[k] EXCEPT !.status = status, !.body = body, !.updated = updated]
      IN  new \in RowType /\ new.status = status /\ new.body = body /\ new.created = row[k].created
  BY <1>1, <1>2, Rewritten DEF RowType
<1>6. /\ row' \in [Keys -> RowType] /\ \A j \in Keys : j # k => row'[j] = row[j]
      /\ row'[k].status = status /\ row'[k].body = body /\ row'[k].created = row[k].created
  <2> HIDE DEF RowType
  <2> QED
    BY <1>1, <1>3, <1>5
<1>7. /\ call' \in [Callers -> CallType] /\ CallsFit' /\ call'[c].pc = "idle"
      /\ \A d \in Callers : d # c => call'[d] = call[d]
  BY LeaveIs, CallMoves DEF Finish
<1>8. Typed'
  BY <1>6, <1>7 DEF Inv, Typed
<1>9. Locked(k) => row[k].status = "uncertain" /\ row[k].body /\ \A d \in Callers : Sends(d, k) => d = c
  BY DEF Inv, KeyFits, Lock, Sends
<1>10. Locked(k)' <=> Locked(k)
  BY <1>6 DEF Locked, Young
<1>11. KeyFits(k)'
  <2>1. /\ row'[k].body => row'[k].status = "uncertain"
        /\ row'[k].status # "none"
    BY <1>4, <1>6
  <2>2. CASE ~ Locked(k)
    BY <1>10, <2>1, <2>2 DEF KeyFits
  <2>3. CASE Locked(k)
    <3>1. \A d \in Callers : ~ Sends(d, k)'
      BY <1>7, <1>9, <2>3 DEF Sends
    <3>2. Lock(k)'
      BY <3>1 DEF Lock
    <3>3. row'[k].status = "uncertain" => row'[k].body
      BY <1>4, <1>6, <1>9, <2>3
    <3>4. accepted[k] \in 0 .. 2 /\ accepted'[k] \in 0 .. 2 /\ (accepted[k] > 0 => doubt[k])
      BY <1>9, <2>3 DEF Inv, Typed, KeyFits
    <3>5. accepted'[k] > 0 => doubt'[k] \/ row'[k].status = "sent"
      BY <1>6, <3>4
    <3>6. accepted'[k] > 1 => doubt'[k]
      BY <3>4
    <3> QED
      BY <2>1, <3>2, <3>3, <3>5, <3>6 DEF KeyFits
  <2> QED
    BY <2>2, <2>3
<1>12. Inv'
  BY <1>6, <1>7, <1>8, <1>11, CallerStep
<1>13. StaysSent
  BY <1>6, <1>9 DEF StaysSent
<1> QED
  BY <1>12, <1>13

LEMMA AnswerStep ==
  ASSUME Inv, NEW c \in Callers, Answer(c)
  PROVE  Inv' /\ StaysSent
<1> DEFINE k == call[c].key
<1>1. call[c].pc = "sending" /\ UNCHANGED <<paused, clock, todo, late>>
  BY DEF Answer, Accepted, Refused, Unanswered
<1>2. k \in Keys
  BY <1>1 DEF Inv, CallsFit
<1>3. accepted \in [Keys -> 0 .. 2] /\ doubt \in [Keys -> BOOLEAN]
  BY DEF Inv, Typed
<1>4. Took(k) => /\ accepted' \in [Keys -> 0 .. 2] /\ (accepted'[k] > 1 => accepted[k] > 0)
                 /\ \A j \in Keys : j # k => accepted'[j] = accepted[j]
  BY <1>2, <1>3 DEF Took
<1> HIDE DEF k
<1>5. CASE Accepted(c)
  <2>1. Finish(c, "sent") /\ Took(k) /\ UNCHANGED doubt
    BY <1>5 DEF Accepted, AfterAccept, k
  <2> QED
    BY <1>1, <1>2, <1>3, <1>4, <2>1, FinishStep DEF k
<1>6. CASE Refused(c)
  <2>1. Finish(c, "failed") /\ UNCHANGED <<accepted, doubt>>
    BY <1>6 DEF Refused
  <2> QED
    BY <1>1, <1>2, <1>3, <2>1, FinishStep DEF k
<1>7. ASSUME NEW took \in BOOLEAN, Unanswered(c, took) PROVE Inv' /\ StaysSent
  <2>1. /\ Finish(c, "uncertain") /\ doubt' = [doubt EXCEPT ![k] = TRUE]
        /\ Took(k) \/ UNCHANGED accepted
    BY <1>7 DEF Unanswered, k
  <2>2. /\ accepted' \in [Keys -> 0 .. 2] /\ \A j \in Keys : j # k => accepted'[j] = accepted[j]
    BY <1>3, <1>4, <2>1
  <2>3. /\ doubt' \in [Keys -> BOOLEAN] /\ doubt'[k]
        /\ \A j \in Keys : j # k => doubt'[j] = doubt[j]
    BY <1>2, <1>3, <2>1, Zenon
  <2> QED
    BY <1>1, <1>2, <2>1, <2>2, <2>3, FinishStep DEF k
<1> QED
  BY <1>5, <1>6, <1>7 DEF Answer

-----------------------------------------------------------------------------
(***************************************************************************)
(* The clocks, the pass, the pause, crashes and time.                      *)
(***************************************************************************)
\* A step that touches no row and no call.
LEMMA QuietStep ==
  ASSUME Inv, UNCHANGED <<row, call, accepted, doubt, late>>, paused' \in BOOLEAN,
         clock' \in [Callers -> ClockType], todo' \in SUBSET Keys
  PROVE  Inv' /\ StaysSent
<1>1. Typed' /\ CallsFit'
  BY DEF Inv, Typed, CallsFit
<1>2. \A k \in Keys : KeyFits(k)'
  BY DEF Inv, KeyFits, Lock, Locked, Young, Sends
<1> QED
  BY <1>1, <1>2 DEF Inv, StaysSent

LEMMA Fixes ==
  ASSUME Inv, NEW c \in Callers,
         \/ clock' = [clock EXCEPT ![c].fixed = TRUE]
         \/ clock' = [clock EXCEPT ![c] = Live]
  PROVE  clock' \in [Callers -> ClockType]
<1>1. clock \in [Callers -> ClockType] /\ Live \in ClockType
  BY Sizes DEF Inv, Typed, Live, ClockType
<1>2. [clock[c] EXCEPT !.fixed = TRUE] \in ClockType
  BY <1>1 DEF ClockType
<1> HIDE DEF Live, ClockType
<1>3. CASE clock' = [clock EXCEPT ![c].fixed = TRUE]
  BY <1>1, <1>2, <1>3
<1>4. CASE clock' = [clock EXCEPT ![c] = Live]
  BY <1>1, <1>4
<1> QED
  BY <1>3, <1>4

LEMMA DigestStep ==
  ASSUME Inv, NEW c \in Callers, Digest(c)
  PROVE  Inv' /\ StaysSent
<1>1. /\ UNCHANGED <<paused, row, call, todo, accepted, doubt, late>>
      /\ \/ clock' = [clock EXCEPT ![c].fixed = TRUE]
         \/ clock' = [clock EXCEPT ![c] = Live]
  BY DEF Digest, StartDigest, EndDigest
<1>2. clock' \in [Callers -> ClockType]
  BY <1>1, Fixes
<1>3. paused' \in BOOLEAN /\ todo' \in SUBSET Keys
  BY <1>1 DEF Inv, Typed
<1> QED
  BY <1>1, <1>2, <1>3, QuietStep

LEMMA StartPassStep == Inv /\ StartPass => Inv' /\ StaysSent
<1> SUFFICES ASSUME Inv, StartPass PROVE Inv' /\ StaysSent
  OBVIOUS
<1>1. /\ UNCHANGED <<paused, call, accepted, doubt, late>> /\ todo' \in SUBSET Keys
      /\ clock' \in [Callers -> ClockType]
  BY Fixes, WorkerIsCaller DEF StartPass
<1>2. ASSUME NEW k \in Keys
      PROVE  /\ row'[k] = row[k] \/ (row'[k] = Expired(k) /\ row[k].status = "uncertain" /\ ~ Locked(k))
             /\ row'[k] \in RowType
  <2>1. row[k] \in RowType
    BY DEF Inv, Typed
  <2>2. Locked(k) /\ row[k].status = "uncertain" => row[k].body
    BY DEF Inv, KeyFits
  <2>3. TooOld(k, 0) => row[k].status = "uncertain" /\ ~ Locked(k)
    BY <2>1, Sizes DEF TooOld, Locked, Young, RowType
  <2>4. Ripe(k, 0) => row[k].status = "uncertain"
    BY DEF Ripe
  <2>5. row'[k] = IF TooOld(k, 0) \/ (Ripe(k, 0) /\ ~ row[k].body) THEN Expired(k) ELSE row[k]
    BY DEF StartPass
  <2> QED
    BY <2>1, <2>2, <2>3, <2>4, <2>5, ExpiredRow
<1>3. row' \in [Keys -> RowType]
  <2>1. row' = [k \in Keys |-> row'[k]]
    BY DEF StartPass
  <2> QED
    BY <1>2, <2>1
<1>4. Typed' /\ CallsFit'
  BY <1>1, <1>3 DEF Inv, Typed, CallsFit
<1>5. ASSUME NEW k \in Keys PROVE KeyFits(k)'
  <2>1. CASE row'[k] = row[k]
    <3>1. Lock(k) => Lock(k)'
      BY <1>1, <2>1 DEF Lock, Sends
    <3> QED
      BY <1>1, <2>1, <3>1 DEF Inv, KeyFits, Locked, Young
  <2>2. CASE row'[k] = Expired(k) /\ ~ Locked(k)
    <3>1. row'[k].status = "failed" /\ ~ row'[k].body /\ ~ Locked(k)'
      BY <1>1, <2>2, ExpiredRow DEF Locked, Young
    <3> QED
      BY <3>1 DEF KeyFits
  <2> QED
    BY <1>2, <2>1, <2>2
<1>6. StaysSent
  BY <1>2 DEF StaysSent
<1> QED
  BY <1>4, <1>5, <1>6 DEF Inv

LEMMA PassSendStep ==
  ASSUME Inv, NEW k \in Keys, PassSend(k)
  PROVE  Inv' /\ StaysSent
<1>1. call[Worker].pc = "idle" /\ UNCHANGED <<paused, clock, accepted, doubt>> /\ todo' \in SUBSET Keys
  BY DEF PassSend, Inv, Typed
<1>2. CASE Enter(Worker, k)
  BY <1>1, <1>2, EnterStep, WorkerIsCaller
<1>3. CASE UNCHANGED <<row, call, late>>
  <2>1. paused' \in BOOLEAN /\ clock' \in [Callers -> ClockType]
    BY <1>1 DEF Inv, Typed
  <2> QED
    BY <1>1, <1>3, <2>1, QuietStep
<1> QED
  BY <1>2, <1>3 DEF PassSend

LEMMA EndPassStep == Inv /\ EndPass => Inv' /\ StaysSent
<1> SUFFICES ASSUME Inv, EndPass PROVE Inv' /\ StaysSent
  OBVIOUS
<1>1. /\ UNCHANGED <<paused, row, call, todo, accepted, doubt, late>>
      /\ clock' \in [Callers -> ClockType]
  BY Fixes, WorkerIsCaller DEF EndPass
<1>2. paused' \in BOOLEAN /\ todo' \in SUBSET Keys
  BY <1>1 DEF Inv, Typed
<1> QED
  BY <1>1, <1>2, QuietStep

LEMMA PauseStep == Inv /\ SetPaused => Inv' /\ StaysSent
<1> SUFFICES ASSUME Inv, SetPaused PROVE Inv' /\ StaysSent
  OBVIOUS
<1>1. UNCHANGED <<row, call, clock, todo, accepted, doubt, late>> /\ paused' \in BOOLEAN
  BY DEF SetPaused
<1>2. clock' \in [Callers -> ClockType] /\ todo' \in SUBSET Keys
  BY <1>1 DEF Inv, Typed
<1> QED
  BY <1>1, <1>2, QuietStep

LEMMA StopStep ==
  ASSUME Inv, NEW stopped \in SUBSET Callers, NEW took \in SUBSET Keys, Stop(stopped, took)
  PROVE  Inv' /\ StaysSent
<1> DEFINE cut == {call[c].key : c \in {x \in stopped : call[x].pc = "sending"}}
<1>1. /\ Idle \in CallType /\ Idle.pc = "idle" /\ Idle.age = 0
      /\ Live \in ClockType
  BY Sizes DEF Idle, Live, CallType, ClockType
<1>2. /\ took \subseteq cut /\ UNCHANGED <<paused, row, late>>
      /\ todo' = IF Worker \in stopped THEN {} ELSE todo
      /\ accepted' = [k \in Keys |->
                        IF k \in took THEN IF accepted[k] = 0 THEN 1 ELSE 2 ELSE accepted[k]]
      /\ doubt' = [k \in Keys |-> doubt[k] \/ k \in cut]
  BY DEF Stop
<1>3. /\ call' = [c \in Callers |-> IF c \in stopped THEN Idle ELSE call[c]]
      /\ clock' = [c \in Callers |-> IF c \in stopped THEN Live ELSE clock[c]]
  BY DEF Stop
<1>4. /\ call' \in [Callers -> CallType] /\ clock' \in [Callers -> ClockType]
      /\ \A c \in Callers : call'[c] = IF c \in stopped THEN Idle ELSE call[c]
  <2> HIDE DEF Idle, Live, CallType, ClockType
  <2> QED
    BY <1>1, <1>3 DEF Inv, Typed
<1>5. todo' \in SUBSET Keys
  BY <1>2 DEF Inv, Typed
<1> HIDE DEF cut
<1>6. accepted' \in [Keys -> 0 .. 2] /\ doubt' \in [Keys -> BOOLEAN]
  <2>1. accepted' \in [Keys -> 0 .. 2]
    BY <1>2 DEF Inv, Typed
  <2>2. doubt' \in [Keys -> BOOLEAN]
    BY <1>2, Zenon DEF Inv, Typed
  <2> QED
    BY <2>1, <2>2
<1>7. Typed' /\ CallsFit'
  BY <1>1, <1>2, <1>4, <1>5, <1>6 DEF Inv, Typed, CallsFit
<1>8. ASSUME NEW k \in Keys PROVE KeyFits(k)'
  <2>1. \A d \in Callers : Sends(d, k)' => Sends(d, k) /\ call'[d] = call[d]
    BY <1>1, <1>4 DEF Sends
  <2>2. Lock(k) => Lock(k)'
    BY <1>2, <2>1 DEF Lock
  <2>3. (doubt[k] \/ k \in took) => doubt'[k]
    BY <1>2
  <2>4. k \notin took => accepted'[k] = accepted[k]
    BY <1>2
  <2> QED
    BY <1>2, <2>2, <2>3, <2>4 DEF Inv, KeyFits, Locked, Young
<1> QED
  BY <1>2, <1>7, <1>8 DEF Inv, StaysSent

LEMMA OlderIs ==
  ASSUME NEW limit \in Nat, NEW age \in 0 .. limit
  PROVE  Older(age, limit) \in 0 .. limit /\ Older(age, limit) >= age /\ Older(age, limit) <= age + 1
  BY DEF Older

\* What a row is after a tick.
LEMMA AgedRow ==
  ASSUME Inv, NEW k \in Keys
  PROVE  /\ Aged(k) \in RowType
         /\ Aged(k).status = row[k].status /\ Aged(k).body = row[k].body
         /\ Aged(k).created >= row[k].created /\ Aged(k).updated <= row[k].updated + 1
         /\ row[k].status = "none" => Aged(k).created = row[k].created
<1>1. row[k] \in RowType
  BY DEF Inv, Typed
<1>2. CASE Aged(k) = row[k]
  BY <1>1, <1>2 DEF RowType
<1>3. CASE Aged(k) # row[k]
  <2> DEFINE created == Older(row[k].created, Eldest)
             updated == IF row[k].status = "uncertain" THEN Older(row[k].updated, Ripest) ELSE row[k].updated
  <2>1. Aged(k) = [row[k] EXCEPT !.created = created, !.updated = updated] /\ row[k].status # "none"
    BY <1>3 DEF Aged
  <2>2. row[k].created \in 0 .. Eldest /\ row[k].updated \in 0 .. Ripest
    BY <1>1 DEF RowType
  <2>3. created \in 0 .. Eldest /\ created >= row[k].created
    BY <2>2, OlderIs, Sizes
  <2>4. Older(row[k].updated, Ripest) \in 0 .. Ripest /\ Older(row[k].updated, Ripest) <= row[k].updated + 1
    BY <2>2, OlderIs, Sizes
  <2>5. updated \in 0 .. Ripest /\ updated <= row[k].updated + 1
    BY <2>2, <2>4
  <2> HIDE DEF created, updated
  <2>6. /\ Aged(k) \in RowType
        /\ Aged(k).status = row[k].status /\ Aged(k).body = row[k].body
        /\ Aged(k).created = created /\ Aged(k).updated = updated
    BY <1>1, <2>1, <2>3, <2>5 DEF RowType
  <2> QED
    BY <2>1, <2>3, <2>5, <2>6
<1> QED
  BY <1>2, <1>3

LEMMA TickStep == Inv /\ Tick => Inv' /\ StaysSent
<1> SUFFICES ASSUME Inv, Tick PROVE Inv' /\ StaysSent
  OBVIOUS
<1>1. UNCHANGED <<paused, todo, accepted, doubt, late>>
  BY DEF Tick
<1>2. row' = [k \in Keys |-> Aged(k)]
  BY DEF Tick
<1>3. /\ row' \in [Keys -> RowType]
      /\ \A k \in Keys : row'[k] = Aged(k)
  BY <1>2, AgedRow
<1>4. ASSUME NEW c \in Callers
      PROVE  /\ call'[c] \in CallType /\ call'[c].pc = call[c].pc /\ call'[c].key = call[c].key
             /\ call'[c].age = IF call[c].pc = "sending" THEN call[c].age + 1 ELSE call[c].age
  <2>1. call[c] \in CallType
    BY DEF Inv, Typed
  <2>2. call[c].pc = "sending" => call[c].age < Timeout
    BY DEF Tick
  <2>3. call'[c] = IF call[c].pc = "sending" THEN [call[c] EXCEPT !.age = @ + 1] ELSE call[c]
    BY DEF Tick
  <2> QED
    BY <2>1, <2>2, <2>3, Sizes DEF CallType
<1>5. call' \in [Callers -> CallType]
  <2>1. call' = [c \in Callers |-> call'[c]]
    BY DEF Tick
  <2> HIDE DEF CallType
  <2> QED
    BY <1>4, <2>1
<1>6. ASSUME NEW c \in Callers PROVE clock'[c] \in ClockType
  <2>1. clock[c] \in ClockType
    BY DEF Inv, Typed
  <2>2. clock[c].fixed => clock[c].age < Longest
    BY DEF Tick
  <2>3. clock'[c] = IF clock[c].fixed THEN [clock[c] EXCEPT !.age = @ + 1] ELSE clock[c]
    BY DEF Tick
  <2> QED
    BY <2>1, <2>2, <2>3, Sizes DEF ClockType
<1>7. clock' \in [Callers -> ClockType]
  <2>1. clock' = [c \in Callers |-> clock'[c]]
    BY DEF Tick
  <2> HIDE DEF ClockType
  <2> QED
    BY <1>6, <2>1
<1>8. Typed' /\ CallsFit'
  <2>1. Typed'
    BY <1>1, <1>3, <1>5, <1>7 DEF Inv, Typed
  <2>2. CallsFit'
    BY <1>4 DEF Inv, CallsFit
  <2> QED
    BY <2>1, <2>2
<1>9. ASSUME NEW k \in Keys PROVE KeyFits(k)'
  <2>1. /\ row'[k] \in RowType /\ row[k] \in RowType
        /\ row'[k].status = row[k].status /\ row'[k].body = row[k].body
        /\ row'[k].created >= row[k].created /\ row'[k].updated <= row[k].updated + 1
        /\ row[k].status = "none" => row'[k].created = row[k].created
    BY <1>3, AgedRow DEF Inv, Typed
  <2>2. /\ row[k].created \in Nat /\ row'[k].created \in Nat
        /\ row[k].updated \in Nat /\ row'[k].updated \in Nat
    BY <2>1 DEF RowType
  <2>3. Locked(k)' => Locked(k)
    BY <1>1, <2>1, <2>2, Sizes DEF Locked, Young
  <2>4. \A d \in Callers : Sends(d, k)' => Sends(d, k) /\ call'[d].age = call[d].age + 1
    BY <1>4 DEF Sends
  <2>5. \A d \in Callers : Sends(d, k) => Sends(d, k)'
    BY <1>4 DEF Sends
  <2>6. \A d \in Callers : call[d].age \in Nat
    BY DEF Inv, Typed, CallType
  <2>7. Lock(k) => Lock(k)'
    BY <2>1, <2>2, <2>4, <2>5, <2>6, Sizes DEF Lock
  <2> QED
    BY <1>1, <2>1, <2>3, <2>7 DEF Inv, KeyFits
<1>10. StaysSent
  BY <1>3, AgedRow DEF StaysSent
<1> QED
  BY <1>8, <1>9, <1>10 DEF Inv

-----------------------------------------------------------------------------
LEMMA Step == Inv /\ [Next]_vars => Inv' /\ (StaysSent \/ UNCHANGED vars)
<1> SUFFICES ASSUME Inv, [Next]_vars PROVE Inv' /\ (StaysSent \/ UNCHANGED vars)
  OBVIOUS
<1>1. ASSUME NEW c \in Callers, Statement(c) PROVE Inv' /\ StaysSent
  BY <1>1, StatementStep
<1>2. ASSUME NEW c \in Callers, Answer(c) PROVE Inv' /\ StaysSent
  BY <1>2, AnswerStep
<1>3. ASSUME NEW c \in Callers, Digest(c) PROVE Inv' /\ StaysSent
  BY <1>3, DigestStep
<1>4. ASSUME NEW c \in Callers, NEW k \in Keys, SendToChat(c, k) PROVE Inv' /\ StaysSent
  <2>1. todo' \in SUBSET Keys
    BY <1>4 DEF SendToChat, Inv, Typed
  <2> QED
    BY <1>4, <2>1, EnterStep DEF SendToChat
<1>5. CASE Retries
  BY <1>5, StartPassStep, EndPassStep, PassSendStep DEF Retries
<1>6. CASE SetPaused
  BY <1>6, PauseStep
<1>7. CASE Crash
  <2>1. Gateways \in SUBSET Callers /\ {Worker} \in SUBSET Callers
    BY DEF Callers
  <2> QED
    BY <1>7, <2>1, StopStep DEF Crash
<1>8. CASE Tick
  BY <1>8, TickStep
<1>9. CASE UNCHANGED vars
  <2>1. UNCHANGED <<row, call, accepted, doubt, late>> /\ UNCHANGED <<paused, clock, todo>>
    BY <1>9 DEF vars
  <2>2. paused' \in BOOLEAN /\ clock' \in [Callers -> ClockType] /\ todo' \in SUBSET Keys
    BY <2>1 DEF Inv, Typed
  <2> QED
    BY <1>9, <2>1, <2>2, QuietStep
<1> QED
  BY <1>1, <1>2, <1>3, <1>4, <1>5, <1>6, <1>7, <1>8, <1>9 DEF Next

LEMMA Invariant == Spec => []Inv
<1>1. Inv /\ [Next]_vars => Inv'
  BY Step
<1> QED
  BY <1>1, InitInv, PTL DEF Spec

\* Every state has its types, and a text is stored only while its delivery is
\* undecided.
THEOREM TypeCorrect == Spec => []TypeOK
<1>1. Inv => TypeOK
  <2> SUFFICES ASSUME Inv PROVE TypeOK
    OBVIOUS
  <2>1. \A k \in Keys : row[k].body => row[k].status = "uncertain"
    BY DEF Inv, KeyFits
  <2> QED
    BY <2>1 DEF TypeOK, Inv, Typed, RowType, CallType, ClockType
<1> QED
  BY <1>1, Invariant, PTL

\* Two callers never POST one key at a time, however many callers and keys there
\* are, whenever one stops and however long a clock stands still, while the key is
\* young and no claim of it was dated so long ago that it could end before its POST.
THEOREM OnePost == Spec => []OnePostInFlight
<1>1. Inv => OnePostInFlight
  <2> SUFFICES ASSUME Inv, NEW k \in Keys, Locked(k), Overlap(k) PROVE FALSE
    BY DEF OnePostInFlight
  <2>1. PICK c, d \in Callers : c # d /\ Sends(c, k) /\ Sends(d, k)
    BY DEF Overlap
  <2> QED
    BY <2>1 DEF Inv, KeyFits, Lock
<1> QED
  BY <1>1, Invariant, PTL

\* The message of such a key arrives twice only when some POST of it was never
\* answered.
THEOREM Duplicates == Spec => []DuplicatesNeedDoubt
<1>1. Inv => DuplicatesNeedDoubt
  BY DEF Inv, KeyFits, DuplicatesNeedDoubt
<1> QED
  BY <1>1, Invariant, PTL

\* While such a key is undecided it has the text that may be sent again.
THEOREM TextIsKept == Spec => []TextKept
<1>1. Inv => TextKept
  BY DEF Inv, KeyFits, TextKept
<1> QED
  BY <1>1, Invariant, PTL

\* No step takes back that the message of such a key was sent.
THEOREM SentStays == Spec => SentIsFinal
<1>1. Inv /\ [Next]_vars => [StaysSent]_vars
  BY Step
<1>2. Spec => [][StaysSent]_vars
  BY <1>1, Invariant, PTL DEF Spec
<1> QED
  BY <1>2 DEF SentIsFinal, StaysSent
=============================================================================
