-------------------------- MODULE TransportProofs ---------------------------
(***************************************************************************)
(* Every message once and in order: the safety of Transport.               *)
(*                                                                         *)
(* The heart of it is Gapless. Once the chat has been recovered, what is   *)
(* still to come - the job under way, the queue, the unread frames, and    *)
(* the frames the socket has not carried - lists every message beyond the  *)
(* checkpoint, none before those that precede it. So a frame's message is  *)
(* the next one when its job begins, whatever was repeated or is late.     *)
(***************************************************************************)
EXTENDS Transport, FiniteSetTheorems, TLAPS

\* Where the connection is not yet up, and where a message is being consumed.
Setup     == {"open", "baseline", "buffered", "late"}
Consuming == {"chat", "turn", "ack"}

\* What the phases of a connection allow.
Phases ==
  /\ conn \in Setup \union {"off"} => work = NoWork /\ queue = <<>>
  /\ conn \in Setup => replayed = {} /\ ~ recovered
  /\ conn \in {"baseline", "buffered"} => file = NoFile
  /\ conn = "buffered" => baseline # NoFile
  /\ conn = "late" => file # NoFile
  /\ conn = "closing" => queue = <<>>
  /\ aborted => conn = "closing"
  /\ queue # <<>> \/ work.pc # "none" \/ recovered => file # NoFile

\* Nobody is ahead of the history, and what was recovered is behind the checkpoint.
Ranges ==
  /\ heard <= Newest /\ work.job <= Newest
  /\ \A j \in DOMAIN frames : frames[j] <= Newest
  /\ \A j \in DOMAIN queue : queue[j] <= Newest
  /\ conn = "live" => \A m \in replayed : m <= Pos(file)

\* What has had its turn: all that is owed behind the checkpoint, at most one
\* message beyond it, and nothing before the first checkpoint is settled.
Progress ==
  /\ NothingSkipped
  /\ \A m \in Messages : done[m] > 0 => m <= Pos(file) + 1
  /\ file = NoFile \/ conn = "late" => \A m \in Messages : done[m] = 0

\* What a job holds at each stage: a recovery its messages, a frame's job its own.
InHand ==
  /\ work.pc \in {"none", "list"} => work.left = <<>> /\ ~ work.live
  /\ work.pc = "none" => work = NoWork
  /\ work.live => work.left = <<>> /\ work.pc \in Consuming /\ work.job = work.cur
  /\ work.pc \in Consuming /\ ~ work.live => work.left # <<>>

\* The message being consumed is the next to the checkpoint.
AtNext ==
  work.pc \in Consuming =>
    /\ work.cur = Pos(file) + 1 /\ work.cur <= Newest
    /\ work.pc = "turn" => kind[work.cur] = "in"
    /\ work.pc = "ack" /\ kind[work.cur] = "in" => done[work.cur] > 0

\* What a recovery has before it follows the checkpoint.
InLine ==
  work.pc \in Consuming \/ (work.pc = "next" /\ conn = "live") =>
    /\ \A j \in DOMAIN work.left : work.left[j] = Pos(file) + j
    /\ Pos(file) + Len(work.left) <= Newest

AtWork == InHand /\ AtNext /\ InLine

\* The last message that the checkpoint or the recovery under way covers.
Reach == Pos(file) + Len(work.left)

\* The recovery of this connection has its listing.
Caught == conn = "live" /\ (recovered \/ work.pc \notin {"none", "list"})

AtHand(y)  == y = work.job
Queued(y)  == \E k \in DOMAIN queue : queue[k] = y
Unread(y)  == \E k \in DOMAIN frames : frames[k] = y

Gapless ==
  Caught =>
    /\ work.job <= Reach + 1
    /\ \A j \in DOMAIN queue, y \in Messages :
         Reach < y /\ y < queue[j] => AtHand(y) \/ \E k \in 1 .. j - 1 : queue[k] = y
    /\ \A j \in DOMAIN frames, y \in Messages :
         Reach < y /\ y < frames[j] => AtHand(y) \/ Queued(y) \/ \E k \in 1 .. j - 1 : frames[k] = y
    /\ \A y \in Messages : Reach < y /\ y <= fed => AtHand(y) \/ Queued(y) \/ Unread(y)

Inv == TypeOK /\ Phases /\ Ranges /\ Progress /\ AtWork /\ Gapless

-----------------------------------------------------------------------------
(***************************************************************************)
(* Operators.                                                              *)
(***************************************************************************)
\* A set of numbers has a least one.
LEMMA LeastNat ==
  ASSUME NEW T \in SUBSET Nat, T # {}
  PROVE  \E x \in T : \A y \in T : x <= y
<1> DEFINE R == OpToRel(<, Nat)
<1>1. IsWellFoundedOn(R, Nat)
  BY NatLessThanWellFounded
<1>2. ASSUME NEW a \in Nat, NEW b \in Nat, a < b PROVE <<a, b>> \in R
  BY <1>2 DEF OpToRel
<1> HIDE DEF R
<1>3. PICK x \in T : \A y \in T : ~ (<<y, x>> \in R)
  BY <1>1, WFMin
<1>4. ASSUME NEW y \in T PROVE x <= y
  <2>1. x \in Nat /\ y \in Nat
    OBVIOUS
  <2>2. <<y, x>> \notin R
    BY <1>3
  <2>3. ~ (y < x)
    BY <2>1, <2>2, <1>2
  <2> QED
    BY <2>1, <2>3
<1> QED
  BY <1>4

\* Sequences of no or one element.
LEMMA ShortSeq == \A S : <<>> \in Seq(S) /\ \A x \in S : <<x>> \in Seq(S)
  OBVIOUS

\* A sequence with an element more ...
LEMMA AppendFacts ==
  ASSUME NEW S, NEW s \in Seq(S), NEW x \in S
  PROVE  /\ Append(s, x) \in Seq(S) /\ Len(s) \in Nat
         /\ DOMAIN s = 1 .. Len(s) /\ DOMAIN Append(s, x) = 1 .. Len(s) + 1
         /\ \A k \in 1 .. Len(s) : Append(s, x)[k] = s[k]
         /\ Append(s, x)[Len(s) + 1] = x
  OBVIOUS

\* ... and without its first.
LEMMA TailFacts ==
  ASSUME NEW S, NEW s \in Seq(S), s # <<>>
  PROVE  /\ Tail(s) \in Seq(S) /\ Len(s) \in Nat /\ 1 <= Len(s)
         /\ DOMAIN s = 1 .. Len(s) /\ DOMAIN Tail(s) = 1 .. Len(s) - 1
         /\ Len(Tail(s)) = Len(s) - 1
         /\ \A k \in 1 .. Len(s) - 1 : Tail(s)[k] = s[k + 1]
         /\ Head(s) = s[1] /\ s[1] \in S
  OBVIOUS

\* What a checkpoint covers is in the history.
LEMMA FilePos ==
  ASSUME TypeOK
  PROVE  /\ Newest \in Nat /\ Newest <= MaxMessages
         /\ Pos(file) \in Int /\ -1 <= Pos(file) /\ Pos(file) <= Newest
         /\ file # NoFile => Pos(file) >= 0
<1>1. Newest \in Nat /\ Newest <= MaxMessages /\ file.uid <= Newest
  BY DEF TypeOK, Newest
<1>2. CASE file \in [first : {FALSE}, uid : -1 .. MaxMessages]
  <2>1. file.first = FALSE /\ file.uid \in -1 .. MaxMessages
    BY <1>2
  <2>2. file.uid = -1 => file = [first |-> FALSE, uid |-> -1]
    BY <1>2
  <2>3. Pos(file) = file.uid
    BY <2>1 DEF Pos
  <2>4. file.uid = -1 => file = NoFile
    BY <2>2 DEF NoFile, Plain
  <2>5. file.uid \in Int /\ -1 <= file.uid
    BY <2>1, TransportAssumption
  <2> QED
    BY <2>3, <2>4, <2>5, <1>1
<1>3. CASE file \in [first : {TRUE}, uid : Messages]
  <2>1. file.first = TRUE /\ file.uid \in Messages
    BY <1>3
  <2>2. file.uid \in Int /\ 1 <= file.uid
    BY <2>1, TransportAssumption DEF Messages
  <2>3. Pos(file) = file.uid - 1
    BY <2>1 DEF Pos
  <2> QED
    BY <2>2, <2>3, <1>1
<1> QED
  BY <1>2, <1>3 DEF TypeOK, Checkpoints

\* A checkpoint of a message, either way.
LEMMA Checkpoint ==
  ASSUME NEW m \in Int
  PROVE  /\ Plain(m).uid = m /\ Pos(Plain(m)) = m
         /\ First(m).uid = m /\ Pos(First(m)) = m - 1
         /\ First(m) # NoFile
         /\ m # -1 => Plain(m) # NoFile
         /\ m \in {0} \union Messages => Plain(m) \in Checkpoints
         /\ m \in Messages => First(m) \in Checkpoints
<1>1. Plain(m).uid = m /\ Pos(Plain(m)) = m
  BY DEF Plain, Pos
<1>2. First(m).uid = m /\ Pos(First(m)) = m - 1
  BY DEF First, Pos
<1>3. First(m) # NoFile /\ (m # -1 => Plain(m) # NoFile)
  BY DEF First, Plain, NoFile
<1>4. /\ m \in {0} \union Messages => Plain(m) \in Checkpoints
      /\ m \in Messages => First(m) \in Checkpoints
  BY TransportAssumption DEF Plain, First, Checkpoints, Messages
<1> QED
  BY <1>1, <1>2, <1>3, <1>4

\* The checkpoint is at a message, or before it.
LEMMA FileKind ==
  ASSUME TypeOK
  PROVE  /\ file.uid \in Int
         /\ \/ file = Plain(file.uid) /\ Pos(file) = file.uid
            \/ file = First(file.uid) /\ Pos(file) = file.uid - 1
<1>1. CASE file \in [first : {FALSE}, uid : -1 .. MaxMessages]
  <2>1. file = Plain(file.uid)
    BY <1>1 DEF Plain
  <2>2. Pos(file) = file.uid
    BY <1>1 DEF Pos
  <2> QED
    BY <1>1, <2>1, <2>2, TransportAssumption
<1>2. CASE file \in [first : {TRUE}, uid : Messages]
  <2>1. file = First(file.uid)
    BY <1>2 DEF First
  <2>2. Pos(file) = file.uid - 1
    BY <1>2 DEF Pos
  <2> QED
    BY <1>2, <2>1, <2>2, TransportAssumption DEF Messages
<1> QED
  BY <1>1, <1>2 DEF TypeOK, Checkpoints

\* The numbers are numbers.
LEMMA Numbers ==
  ASSUME TypeOK
  PROVE  /\ MaxMessages \in Nat /\ \A m \in Messages : m \in Nat /\ 1 <= m
         /\ file.uid \in Int /\ baseline.uid \in Int
         /\ heard \in Nat /\ base \in Int
         /\ work.job \in Nat /\ work.cur \in Nat /\ Len(work.left) \in Nat
         /\ \A j \in DOMAIN frames : frames[j] \in Nat
         /\ \A j \in DOMAIN queue : queue[j] \in Nat
         /\ \A j \in DOMAIN work.left : work.left[j] \in Nat
<1>1. MaxMessages \in Nat /\ \A m \in Messages : m \in Nat /\ 1 <= m
  BY TransportAssumption DEF Messages
<1>2. ASSUME NEW c \in Checkpoints PROVE c.uid \in Int
  <2>1. CASE c \in [first : {FALSE}, uid : -1 .. MaxMessages]
    BY <1>1, <2>1
  <2>2. CASE c \in [first : {TRUE}, uid : Messages]
    BY <1>1, <2>2
  <2> QED
    BY <2>1, <2>2 DEF Checkpoints
<1>3. work.job \in Jobs /\ work.cur \in {0} \union Messages /\ work.left \in Seq(Messages)
  BY DEF TypeOK, WorkType
<1>4. \A j \in Jobs : j \in Nat
  BY <1>1 DEF Jobs, Replay
<1>5. file.uid \in Int /\ baseline.uid \in Int /\ heard \in Nat /\ base \in Int
  <2>1. file \in Checkpoints /\ baseline \in Checkpoints
        /\ heard \in {0} \union Messages /\ base \in -1 .. MaxMessages
    BY DEF TypeOK
  <2> QED
    BY <1>1, <1>2, <2>1
<1>6. work.job \in Nat /\ work.cur \in Nat /\ Len(work.left) \in Nat
  BY <1>1, <1>3, <1>4
<1>7. /\ \A j \in DOMAIN frames : frames[j] \in Nat
      /\ \A j \in DOMAIN queue : queue[j] \in Nat
      /\ \A j \in DOMAIN work.left : work.left[j] \in Nat
  BY <1>1, <1>3, <1>4 DEF TypeOK
<1> QED
  BY <1>1, <1>5, <1>6, <1>7

\* The owner's first unanswered message exists.
LEMMA UnansweredMessage ==
  ASSUME TypeOK, Newest > 0, kind[Newest] = "in"
  PROVE  Unanswered(Newest) \in 1 .. Newest
<1>1. Newest \in Nat
  BY FilePos
<1> DEFINE P(j) == \A i \in j .. Newest : kind[i] = "in"
           S == {j \in 1 .. Newest : P(j)}
<1>2. Newest \in S
  BY <1>1
<1>3. PICK j \in S : \A k \in S : j <= k
  <2>1. S \in SUBSET Nat /\ S # {}
    BY <1>2, <1>1
  <2> HIDE DEF S
  <2> QED
    BY <2>1, LeastNat
<1>4. j = 1 \/ kind[j - 1] # "in"
  <2> SUFFICES ASSUME j # 1, kind[j - 1] = "in" PROVE FALSE
    OBVIOUS
  <2>1. j - 1 \in 1 .. Newest
    BY <1>1
  <2>2. ASSUME NEW i \in (j - 1) .. Newest PROVE kind[i] = "in"
    <3>1. i = j - 1 \/ i \in j .. Newest
      BY <2>1, <1>1
    <3> QED
      BY <3>1
  <2>3. j - 1 \in S
    BY <2>1, <2>2
  <2> QED
    BY <2>1, <2>3, <1>3, <1>1
<1> QED
  BY <1>3, <1>4 DEF Unanswered

\* A listing holds the messages after the checkpoint, in order.
LEMMA MissedList ==
  ASSUME TypeOK, file # NoFile
  PROVE  /\ Missed(file) \in Seq(Messages)
         /\ Len(Missed(file)) = Newest - Pos(file)
         /\ \A j \in DOMAIN Missed(file) : Missed(file)[j] = Pos(file) + j
<1>1. Newest - Pos(file) \in Nat
  BY FilePos
<1>2. \A j \in 1 .. Newest - Pos(file) : Pos(file) + j \in Messages
  BY FilePos, TransportAssumption DEF Messages
<1> QED
  BY <1>1, <1>2 DEF Missed

-----------------------------------------------------------------------------
(***************************************************************************)
(* What a step does to the job under way, as records without EXCEPT.       *)
(***************************************************************************)
Stages == {"none", "list", "next", "chat", "turn", "ack"}

At(p, j, l, c, v) == [pc |-> p, job |-> j, left |-> l, cur |-> c, live |-> v]

\* The fields of a job.
LEMMA AtFields ==
  ASSUME NEW p, NEW j, NEW l, NEW c, NEW v
  PROVE  /\ At(p, j, l, c, v).pc = p /\ At(p, j, l, c, v).job = j
         /\ At(p, j, l, c, v).left = l /\ At(p, j, l, c, v).cur = c
         /\ At(p, j, l, c, v).live = v
         /\ NoWork = At("none", Replay, <<>>, 0, FALSE)
  BY DEF At, NoWork

\* A job is its fields.
LEMMA AtSame ==
  ASSUME NEW w \in WorkType
  PROVE  w = At(w.pc, w.job, w.left, w.cur, w.live)
  BY DEF At, WorkType

\* Changing one field of a job.
LEMMA AtField ==
  ASSUME NEW w \in WorkType, NEW x
  PROVE  /\ [w EXCEPT !.pc = x]   = At(x, w.job, w.left, w.cur, w.live)
         /\ [w EXCEPT !.job = x]  = At(w.pc, x, w.left, w.cur, w.live)
         /\ [w EXCEPT !.left = x] = At(w.pc, w.job, x, w.cur, w.live)
         /\ [w EXCEPT !.cur = x]  = At(w.pc, w.job, w.left, x, w.live)
         /\ [w EXCEPT !.live = x] = At(w.pc, w.job, w.left, w.cur, x)
<1>1. [w EXCEPT !.pc = x] = At(x, w.job, w.left, w.cur, w.live)
  BY DEF At, WorkType
<1>2. [w EXCEPT !.job = x] = At(w.pc, x, w.left, w.cur, w.live)
  BY DEF At, WorkType
<1>3. [w EXCEPT !.left = x] = At(w.pc, w.job, x, w.cur, w.live)
  BY DEF At, WorkType
<1>4. [w EXCEPT !.cur = x] = At(w.pc, w.job, w.left, x, w.live)
  BY DEF At, WorkType
<1>5. [w EXCEPT !.live = x] = At(w.pc, w.job, w.left, w.cur, x)
  BY DEF At, WorkType
<1> QED
  BY <1>1, <1>2, <1>3, <1>4, <1>5, Zenon

\* Changing the stage of a job and the messages before it.
LEMMA AtLeft ==
  ASSUME NEW w \in WorkType, NEW p \in Stages, NEW l
  PROVE  [w EXCEPT !.pc = p, !.left = l] = At(p, w.job, l, w.cur, w.live)
<1> DEFINE w1 == [w EXCEPT !.pc = p]
<1>1. w1 \in WorkType /\ w1 = At(p, w.job, w.left, w.cur, w.live)
  <2>1. w1 = At(p, w.job, w.left, w.cur, w.live)
    BY AtField, Zenon
  <2>2. w1 \in WorkType
    BY DEF WorkType, Stages
  <2> QED
    BY <2>1, <2>2
<1>2. [w EXCEPT !.pc = p, !.left = l] = [w1 EXCEPT !.left = l]
  OBVIOUS
<1> HIDE DEF w1
<1>3. [w1 EXCEPT !.left = l] = At(w1.pc, w1.job, l, w1.cur, w1.live)
  BY <1>1, AtField, Zenon
<1>4. w1.pc = p /\ w1.job = w.job /\ w1.cur = w.cur /\ w1.live = w.live
  BY <1>1 DEF At
<1> QED
  BY <1>2, <1>3, <1>4, Zenon

\* A message is consumed in the chat's stage.
LEMMA ConsumeChat ==
  ASSUME NEW w \in WorkType, NEW m \in Messages, NEW v \in BOOLEAN,
         file # Plain(m), ~ (v /\ Behind(m))
  PROVE  Consume(w, m, v) = At("chat", w.job, w.left, m, v)
<1> DEFINE w1 == [w EXCEPT !.pc = "chat"]
           w2 == [w1 EXCEPT !.cur = m]
<1>1. w1 \in WorkType /\ w1 = At("chat", w.job, w.left, w.cur, w.live)
  <2>1. w1 = At("chat", w.job, w.left, w.cur, w.live)
    BY AtField, Zenon
  <2>2. w1 \in WorkType
    BY DEF WorkType
  <2> QED
    BY <2>1, <2>2
<1>2. Consume(w, m, v) = [w2 EXCEPT !.live = v]
  BY DEF Consume
<1> HIDE DEF w1
<1>3. w2 = At("chat", w.job, w.left, m, w.live) /\ w2 \in WorkType
  <2>1. w2 = At(w1.pc, w1.job, w1.left, m, w1.live)
    BY <1>1, AtField, Zenon
  <2>2. w2 \in WorkType
    BY <1>1 DEF WorkType
  <2>3. w1.pc = "chat" /\ w1.job = w.job /\ w1.left = w.left /\ w1.live = w.live
    BY <1>1 DEF At
  <2> QED
    BY <2>1, <2>2, <2>3, Zenon
<1> HIDE DEF w2
<1>4. [w2 EXCEPT !.live = v] = At(w2.pc, w2.job, w2.left, w2.cur, v)
  BY <1>3, AtField, Zenon
<1>5. w2.pc = "chat" /\ w2.job = w.job /\ w2.left = w.left /\ w2.cur = m
  BY <1>3 DEF At
<1> QED
  BY <1>2, <1>4, <1>5, Zenon

\* A job for a queue's element, before anything else is known of it.
LEMMA AtNew ==
  ASSUME NEW q \in Jobs
  PROVE  /\ [NoWork EXCEPT !.job = q] = At("none", q, <<>>, 0, FALSE)
         /\ [NoWork EXCEPT !.job = q] \in WorkType
<1>1. NoWork \in WorkType
  BY DEF NoWork, WorkType, Jobs
<1>2. [NoWork EXCEPT !.job = q] \in WorkType
  BY <1>1 DEF WorkType
<1>3. [NoWork EXCEPT !.job = q] = At(NoWork.pc, q, NoWork.left, NoWork.cur, NoWork.live)
  BY <1>1, AtField, Zenon
<1>4. NoWork.pc = "none" /\ NoWork.left = <<>> /\ NoWork.cur = 0 /\ NoWork.live = FALSE
  BY DEF NoWork
<1> QED
  BY <1>2, <1>3, <1>4, Zenon

\* A job's type.
LEMMA AtType ==
  ASSUME NEW p \in Stages, NEW j \in Jobs,
         NEW l \in Seq(Messages), NEW c \in {0} \union Messages, NEW v \in BOOLEAN
  PROVE  At(p, j, l, c, v) \in WorkType
  BY DEF At, WorkType, Stages

\* A frame's message: dropped when it is behind the checkpoint, else consumed.
LEMMA ConsumeLive ==
  ASSUME TypeOK, NEW w \in WorkType, NEW m \in Messages
  PROVE  \/ m <= Pos(file) /\ Consume(w, m, TRUE) = NoWork
         \/ m > Pos(file) /\ Consume(w, m, TRUE) = At("chat", w.job, w.left, m, TRUE)
<1>1. m \in Nat
  BY TransportAssumption DEF Messages
<1>2. Pos(Plain(m)) = m /\ Plain(m).uid = m
  BY <1>1, Checkpoint
<1>3. CASE file = Plain(m)
  <2>1. Consume(w, m, TRUE) = NoWork
    BY <1>3 DEF Consume
  <2>2. Pos(file) = m
    BY <1>2, <1>3
  <2>3. m <= Pos(file)
    BY <2>2, <1>1
  <2> QED
    BY <2>1, <2>3, Zenon
<1>4. CASE Behind(m)
  <2>1. Consume(w, m, TRUE) = NoWork
    BY <1>4 DEF Consume
  <2>2. m <= Pos(file)
    BY <1>1, <1>4, FileKind DEF Behind
  <2> QED
    BY <2>1, <2>2
<1>5. CASE file # Plain(m) /\ ~ Behind(m)
  <2>1. Consume(w, m, TRUE) = At("chat", w.job, w.left, m, TRUE)
    BY <1>5, ConsumeChat
  <2>2. m > Pos(file)
    BY <1>1, <1>5, FileKind DEF Behind
  <2> QED
    BY <2>1, <2>2
<1> QED
  BY <1>3, <1>4, <1>5

\* A missed message beyond the checkpoint is consumed.
LEMMA ConsumeMissed ==
  ASSUME TypeOK, NEW w \in WorkType, NEW m \in Messages, m > Pos(file)
  PROVE  Consume(w, m, FALSE) = At("chat", w.job, w.left, m, FALSE)
<1>1. m \in Nat /\ Pos(file) \in Int
  BY FilePos, TransportAssumption DEF Messages
<1>2. Pos(Plain(m)) = m
  BY <1>1, Checkpoint
<1>3. file # Plain(m)
  BY <1>1, <1>2
<1> QED
  BY <1>3, ConsumeChat

\* The queue's first job begins: with a recovery, or with its own message.
LEMMA StartJobMoves ==
  ASSUME TypeOK, AtWork, StartJob
  PROVE  \E q \in Jobs :
           /\ q = Head(queue) /\ queue # <<>> /\ queue' = Tail(queue)
           /\ conn = "live" /\ work.pc = "none"
           /\ \/ work' = At("list", q, <<>>, 0, FALSE)
              \/ recovered /\ work' = NoWork /\ (q \in replayed \/ q <= Pos(file))
              \/ recovered /\ q > Pos(file) /\ q \in Messages
                 /\ work' = At("chat", q, <<>>, q, TRUE)
<1> DEFINE q == Head(queue)
           w == [NoWork EXCEPT !.job = q]
<1>1. /\ queue # <<>> /\ queue' = Tail(queue) /\ conn = "live" /\ work.pc = "none"
      /\ work' = IF MustRecover(w.job) THEN [w EXCEPT !.pc = "list"]
                 ELSE IF w.job \in replayed THEN NoWork ELSE Consume(w, w.job, TRUE)
  BY DEF StartJob, Accepting
<1>2. q \in Jobs
  BY <1>1 DEF TypeOK
<1> HIDE DEF q
<1>3. w = At("none", q, <<>>, 0, FALSE) /\ w \in WorkType
  BY <1>2, AtNew
<1> HIDE DEF w
<1>4. w.job = q /\ w.left = <<>> /\ w.cur = 0 /\ w.live = FALSE
  BY <1>3 DEF At
<1>5. CASE MustRecover(q)
  <2>1. work' = [w EXCEPT !.pc = "list"]
    BY <1>1, <1>4, <1>5
  <2>2. [w EXCEPT !.pc = "list"] = At("list", w.job, w.left, w.cur, w.live)
    BY <1>3, AtField
  <2>3. work' = At("list", q, <<>>, 0, FALSE)
    BY <2>1, <2>2, <1>4
  <2> QED
    BY <2>3, <1>1, <1>2 DEF q
<1>6. CASE ~ MustRecover(q)
  <2>1. recovered /\ q # Replay
    BY <1>6 DEF MustRecover, TypeOK
  <2>2. CASE q \in replayed
    <3>1. work' = NoWork
      BY <1>1, <1>4, <1>6, <2>2
    <3> QED
      BY <3>1, <2>1, <2>2, <1>1, <1>2 DEF q
  <2>3. CASE q \notin replayed
    <3>1. work' = Consume(w, q, TRUE)
      BY <1>1, <1>4, <1>6, <2>3
    <3>2. q \in Messages
      BY <1>2, <2>1 DEF Jobs
    <3>3. \/ q <= Pos(file) /\ work' = NoWork
          \/ q > Pos(file) /\ work' = At("chat", q, <<>>, q, TRUE)
      BY <1>3, <1>4, <3>1, <3>2, ConsumeLive
    <3> QED
      BY <3>2, <3>3, <2>1, <1>1, <1>2 DEF q
  <2> QED
    BY <2>2, <2>3
<1> QED
  BY <1>5, <1>6

\* The listing of a recovery arrives.
LEMMA ListMoves ==
  ASSUME TypeOK, Phases, AtWork, ListMissed
  PROVE  /\ work.pc = "list" /\ file # NoFile
         /\ work' = At("next", work.job, Missed(file), work.cur, FALSE)
<1>1. work.pc = "list" /\ file # NoFile /\ ~ work.live
  BY DEF ListMissed, Phases, AtWork, InHand
<1>2. work' = At("next", work.job, Missed(file), work.cur, work.live)
  <2>1. work' = [work EXCEPT !.pc = "next", !.left = Missed(file)]
    BY DEF ListMissed
  <2>2. work \in WorkType /\ "next" \in Stages
    BY DEF TypeOK, Stages
  <2> QED
    BY <2>1, <2>2, AtLeft, Zenon
<1>3. work.live = FALSE
  BY <1>1 DEF TypeOK, WorkType
<1> QED
  BY <1>1, <1>2, <1>3

\* The next missed message is consumed; after the last one, the job's own.
LEMMA NextMoves ==
  ASSUME TypeOK, AtWork, NextMissed
  PROVE  /\ work.pc = "next" /\ replayed' = replayed
         /\ \/ /\ conn = "live" /\ work.left # <<>> /\ recovered' = recovered
               /\ work' = At("chat", work.job, work.left, Pos(file) + 1, FALSE)
            \/ /\ recovered' = TRUE
               /\ work' = NoWork
               /\ \/ conn # "live"
                  \/ work.left = <<>> /\ (work.job \in replayed \/ work.job <= Pos(file) \/ work.job = Replay)
            \/ /\ conn = "live" /\ work.left = <<>> /\ recovered' = TRUE
               /\ work.job \in Messages /\ work.job > Pos(file)
               /\ work' = At("chat", work.job, <<>>, work.job, TRUE)
<1>1. work.pc = "next" /\ work \in WorkType /\ Pos(file) \in Int
  BY FilePos DEF NextMissed, TypeOK
<1>2. CASE Accepting /\ work.left # <<>>
  <2> DEFINE m == Head(work.left)
  <2>1. m = Pos(file) + 1 /\ m \in Messages
    <3>1. work.left \in Seq(Messages)
      BY <1>1 DEF WorkType
    <3>2. 1 \in DOMAIN work.left /\ m = work.left[1] /\ m \in Messages
      BY <1>2, <3>1
    <3> QED
      BY <1>1, <1>2, <3>2 DEF AtWork, InLine, Accepting
  <2>2. /\ work' = Consume(work, m, FALSE) /\ recovered' = recovered
        /\ replayed' = IF work'.pc = "next" THEN replayed \union {m} ELSE replayed
    BY <1>2 DEF NextMissed
  <2> HIDE DEF m
  <2>3. work' = At("chat", work.job, work.left, m, FALSE)
    <3>1. m > Pos(file) /\ m \in Messages
      BY <1>1, <2>1
    <3> QED
      BY <1>1, <3>1, <2>2, ConsumeMissed, Zenon
  <2>4. replayed' = replayed
    <3>1. work'.pc = "chat"
      BY <2>3, Zenon DEF At
    <3> QED
      BY <2>2, <3>1
  <2> QED
    BY <1>1, <1>2, <2>1, <2>2, <2>3, <2>4 DEF Accepting
<1>3. CASE ~ (Accepting /\ work.left # <<>>)
  <2>1. /\ recovered' = TRUE /\ replayed' = replayed
        /\ work' = IF work.job = Replay \/ ~ Accepting \/ work.job \in replayed
                   THEN NoWork ELSE Consume(work, work.job, TRUE)
    BY <1>3 DEF NextMissed
  <2>2. CASE work.job = Replay \/ ~ Accepting \/ work.job \in replayed
    BY <1>1, <1>3, <2>1, <2>2 DEF Accepting
  <2>3. CASE ~ (work.job = Replay \/ ~ Accepting \/ work.job \in replayed)
    <3>1. work.job \in Messages /\ work.left = <<>> /\ conn = "live"
      BY <1>1, <1>3, <2>3 DEF WorkType, Jobs, Accepting
    <3>2. work' = Consume(work, work.job, TRUE)
      BY <2>1, <2>3
    <3>3. \/ work.job <= Pos(file) /\ work' = NoWork
          \/ work.job > Pos(file) /\ work' = At("chat", work.job, <<>>, work.job, TRUE)
      BY <1>1, <3>1, <3>2, ConsumeLive
    <3> QED
      BY <1>1, <2>1, <3>1, <3>3
  <2> QED
    BY <2>2, <2>3
<1> QED
  BY <1>2, <1>3

\* A message is over: a recovery goes on, a frame's job ends.
LEMMA AfterMoves ==
  ASSUME TypeOK, AtWork, AfterConsume
  PROVE  \/ work.live /\ work' = NoWork /\ replayed' = replayed
         \/ /\ ~ work.live
            /\ work' = At("next", work.job, Tail(work.left), work.cur, FALSE)
            /\ replayed' = replayed \union {work.cur}
<1>1. CASE work.live
  BY <1>1 DEF AfterConsume
<1>2. CASE ~ work.live
  <2>1. /\ work' = [work EXCEPT !.pc = "next", !.left = Tail(work.left)]
        /\ replayed' = replayed \union {work.cur}
    BY <1>2 DEF AfterConsume
  <2>2. work \in WorkType
    BY DEF TypeOK
  <2>5. "next" \in Stages
    BY DEF Stages
  <2>3. work' = At("next", work.job, Tail(work.left), work.cur, work.live)
    BY <2>1, <2>2, <2>5, AtLeft, Zenon
  <2>4. work.live = FALSE
    BY <1>2, <2>2 DEF WorkType
  <2> QED
    BY <1>2, <2>1, <2>3, <2>4
<1> QED
  BY <1>1, <1>2

\* A stage of the turn follows another.
LEMMA StageMoves ==
  ASSUME TypeOK, NEW p, work' = [work EXCEPT !.pc = p]
  PROVE  work' = At(p, work.job, work.left, work.cur, work.live)
  BY AtField, Zenon DEF TypeOK

-----------------------------------------------------------------------------
(***************************************************************************)
(* Frames: what is kept when its variables are.                            *)
(***************************************************************************)
\* Progress is about the history, the checkpoint and the turns.
LEMMA ProgressFrame ==
  ASSUME Progress, kind' = kind, file' = file, base' = base, done' = done,
         conn' = "late" => conn = "late"
  PROVE  Progress'
  BY DEF Progress, NothingSkipped, Owed, Pos, Newest

\* A job goes on as it was, unless the connection begins under it.
LEMMA AtWorkFrame ==
  ASSUME AtWork, kind' = kind, file' = file, done' = done, work' = work,
         conn' = "live" => conn = "live" \/ work.pc = "none"
  PROVE  AtWork'
  BY DEF AtWork, InHand, AtNext, InLine, Consuming, Pos, Newest

\* Nothing is at work.
LEMMA AtWorkNone ==
  ASSUME work' = NoWork
  PROVE  AtWork'
  BY DEF AtWork, InHand, AtNext, InLine, NoWork, Consuming

\* The messages to come matter on a live connection, once there is a listing.
LEMMA GaplessNot ==
  ASSUME conn' # "live" \/ (~ recovered' /\ work' = NoWork)
  PROVE  Gapless'
  BY DEF Gapless, Caught, NoWork

\* The job under way, the queue, the frames and what the socket has carried.
LEMMA GaplessFrame ==
  ASSUME Gapless, conn' = conn, recovered' = recovered, work' = work, file' = file,
         queue' = queue, frames' = frames, fed' = fed
  PROVE  Gapless'
  BY DEF Gapless, Caught, Reach, Pos, AtHand, Queued, Unread

\* A message that is being consumed is the next one.
LEMMA ConsumingFacts ==
  ASSUME Inv, work.pc \in Consuming
  PROVE  /\ file # NoFile /\ Pos(file) \in Nat
         /\ work.cur = Pos(file) + 1 /\ work.cur \in Messages /\ work.cur <= Newest
         /\ 1 <= work.cur /\ conn \in {"live", "closing"}
<1>1. file # NoFile
  BY DEF Inv, Phases, Consuming
<1>2. work.cur = Pos(file) + 1 /\ work.cur <= Newest
  BY DEF Inv, AtWork, AtNext
<1>3. conn \in {"live", "closing"}
  BY DEF Inv, Phases, Consuming, Setup, TypeOK, NoWork
<1> QED
  BY <1>1, <1>2, <1>3, FilePos, Numbers DEF Inv, Messages

-----------------------------------------------------------------------------
(***************************************************************************)
(* The steps, an action each.                                              *)
(***************************************************************************)
\* A message arrives.
LEMMA ArriveStep ==
  ASSUME Inv, NEW k \in {"in", "out"}, Arrive(k)
  PROVE  Inv'
<1>1. /\ kind \in Seq({"in", "out"}) /\ kind' = Append(kind, k)
      /\ Newest \in Nat /\ Newest' = Newest + 1 /\ Newest + 1 <= MaxMessages
      /\ \A m \in 1 .. Newest : kind'[m] = kind[m]
  <2>1. kind \in Seq({"in", "out"}) /\ kind' = Append(kind, k) /\ Newest < MaxMessages
    BY DEF Arrive, Inv, TypeOK
  <2>2. Newest' = Len(kind')
    BY DEF Newest
  <2> QED
    BY <2>1, <2>2, TransportAssumption DEF Newest
<1>2. UNCHANGED <<file, loaded, socketVars, jobVars, aborted, done, base>>
  BY DEF Arrive
<1>3. Pos(file) \in Int /\ Pos(file) <= Newest
  BY FilePos DEF Inv
<1>4. TypeOK'
  <2>1. kind' \in Seq({"in", "out"})
    BY <1>1
  <2>2. file'.uid <= Newest' /\ baseline'.uid <= Newest' /\ fed' \in 0 .. Newest'
    <3>1. file.uid \in Int /\ file.uid <= Newest /\ baseline.uid \in Int /\ baseline.uid <= Newest /\ fed \in 0 .. Newest
      BY Numbers DEF Inv, TypeOK
    <3> QED
      BY <3>1, <1>1, <1>2 DEF socketVars
  <2> QED
    BY <2>1, <2>2, <1>1, <1>2 DEF Inv, TypeOK, socketVars, jobVars
<1>5. Phases'
  BY <1>2 DEF Inv, Phases, socketVars, jobVars
<1>6. Ranges'
  BY <1>1, <1>2, Numbers DEF Inv, Ranges, Pos, socketVars, jobVars
<1>7. Progress'
  <2>1. ASSUME file' # NoFile, NEW m \in Owed', m <= Pos(file') PROVE done'[m] > 0
    <3>1. m \in 1 .. Newest' /\ kind'[m] = "in" /\ m > base /\ m <= Pos(file)
      BY <2>1, <1>2 DEF Owed, Pos
    <3>2. m \in 1 .. Newest
      BY <3>1, <1>1, <1>3
    <3>3. m \in Owed
      BY <3>1, <3>2, <1>1 DEF Owed
    <3> QED
      BY <2>1, <3>1, <3>3, <1>2 DEF Inv, Progress, NothingSkipped
  <2> QED
    BY <2>1, <1>2 DEF Inv, Progress, NothingSkipped, Pos, socketVars
<1>8. AtWork'
  <2>1. work.pc \in Consuming => work.cur \in 1 .. Newest /\ kind'[work.cur] = kind[work.cur]
    <3> SUFFICES ASSUME work.pc \in Consuming
                 PROVE  work.cur \in 1 .. Newest /\ kind'[work.cur] = kind[work.cur]
      OBVIOUS
    <3>1. work.cur \in 1 .. Newest
      BY ConsumingFacts, <1>1
    <3> QED
      BY <1>1, <3>1
  <2>2. work' = work /\ file' = file /\ done' = done /\ conn' = conn
    BY <1>2 DEF socketVars, jobVars
  <2>3. InHand'
    BY <2>2 DEF Inv, AtWork, InHand
  <2>4. AtNext'
    <3> SUFFICES ASSUME work.pc \in Consuming
                 PROVE  /\ work.cur = Pos(file) + 1 /\ work.cur <= Newest'
                        /\ work.pc = "turn" => kind[work.cur] = "in"
                        /\ work.pc = "ack" /\ kind[work.cur] = "in" => done[work.cur] > 0
      BY <2>1, <2>2 DEF AtNext
    <3> QED
      BY <2>1, <1>1 DEF Inv, AtWork, AtNext
  <2>5. InLine'
    <3>1. ASSUME Pos(file) + Len(work.left) <= Newest
          PROVE  Pos(file) + Len(work.left) <= Newest'
      <4>1. Len(work.left) \in Nat
        BY Numbers DEF Inv
      <4> QED
        BY <3>1, <4>1, <1>1, <1>3
    <3> QED
      BY <2>2, <3>1 DEF Inv, AtWork, InLine
  <2> QED
    BY <2>3, <2>4, <2>5 DEF AtWork
<1>9. Gapless'
  BY <1>2, GaplessFrame DEF Inv, socketVars, jobVars
<1> QED
  BY <1>4, <1>5, <1>6, <1>7, <1>8, <1>9 DEF Inv

\* The connection is lost, at once or after the job under way; a failed job and
\* the end of the process lose it too.
LEMMA LostStep ==
  ASSUME Inv, UNCHANGED <<kind, file, listed, fed, stale, heard, baseline, replayed, recovered, base>>,
         done' = done, loaded' \in BOOLEAN, aborted' \in BOOLEAN,
         frames' \in {<<>>, frames}, queue' = <<>>, work' \in {work, NoWork},
         conn' \in {"off", "closing"}, conn' = "off" => work' = NoWork,
         aborted' => conn' = "closing"
  PROVE  Inv'
<1>1. NoWork \in WorkType
  BY DEF NoWork, WorkType, Jobs
<1>2. TypeOK'
  <2>1. frames' \in Seq(Messages) /\ queue' \in Seq(Jobs)
    BY ShortSeq DEF Inv, TypeOK
  <2>2. work' \in WorkType /\ Newest' = Newest
    BY <1>1 DEF Inv, TypeOK, Newest
  <2> QED
    BY <2>1, <2>2 DEF Inv, TypeOK
<1>3. Phases'
  BY DEF Inv, Phases, Setup, NoWork
<1>4. Ranges'
  <2>1. Newest' = Newest /\ Newest \in Nat
    BY FilePos DEF Inv, Newest
  <2>2. work'.job <= Newest'
    BY <2>1 DEF Inv, Ranges, NoWork, Replay
  <2>3. \A j \in DOMAIN frames' : frames'[j] <= Newest'
    BY <2>1 DEF Inv, Ranges
  <2> QED
    BY <2>1, <2>2, <2>3 DEF Inv, Ranges
<1>5. Progress'
  BY ProgressFrame DEF Inv
<1>6. AtWork'
  BY AtWorkFrame, AtWorkNone DEF Inv
<1>7. Gapless'
  BY GaplessNot
<1> QED
  BY <1>2, <1>3, <1>4, <1>5, <1>6, <1>7 DEF Inv

\* The steps that lose the connection.
LEMMA LostSteps ==
  ASSUME Inv, Disconnect \/ Closed \/ FailRead \/ FailAck \/ Abort \/ Restart \/ Crash
  PROVE  Inv'
<1>1. CASE Disconnect
  BY <1>1, LostStep DEF Disconnect, Lose, Connected, Inv, TypeOK, Phases
<1>2. CASE Closed
  BY <1>2, LostStep DEF Closed, jobVars, Inv, TypeOK, Phases, AtWork, InHand
<1>3. CASE FailRead
  BY <1>3, LostStep DEF FailRead, Lose, Inv, TypeOK, Phases
<1>4. CASE FailAck
  BY <1>4, LostStep DEF FailAck, Failed, Lose, Inv, TypeOK, Phases
<1>5. CASE Abort
  BY <1>5, LostStep DEF Abort, Lose, Inv, TypeOK
<1>6. CASE Restart \/ Crash
  BY <1>6, LostStep DEF Restart, Crash, Forget, Inv, TypeOK
<1> QED
  BY <1>1, <1>2, <1>3, <1>4, <1>5, <1>6

\* A first checkpoint, or one moved back before it is settled: no turn is behind it.
LEMMA FreshProgress ==
  ASSUME Inv, kind' = kind, done' = done, file = NoFile \/ conn = "late",
         base' \in -1 .. MaxMessages, base' = Pos(file'), file' # NoFile
  PROVE  Progress'
<1>1. \A m \in Messages : done'[m] = 0
  BY DEF Inv, Progress
<1>2. Owed' = {m \in 1 .. Newest : kind[m] = "in" /\ m > base'}
  BY DEF Owed, Newest
<1>3. \A m \in Owed' : ~ (m <= Pos(file'))
  BY <1>2, FilePos DEF Inv
<1> QED
  BY <1>1, <1>3, Numbers DEF Inv, Progress, NothingSkipped

\* The chat has no work, or only jobs that wait; what the connection sets up
\* leaves the history and the turns alone.
LEMMA SetupStep ==
  ASSUME Inv, kind' = kind, done' = done, aborted' = aborted, work' = work, work = NoWork,
         file' \in Checkpoints, file'.uid <= Newest, baseline' \in Checkpoints, baseline'.uid <= Newest,
         base' \in -1 .. MaxMessages, loaded' \in BOOLEAN, listed' \in BOOLEAN,
         fed' \in 0 .. Newest, stale' = stale, frames' \in {<<>>, frames},
         heard' \in {0, heard}, replayed' = {}, ~ recovered', recovered' \in BOOLEAN, ~ aborted,
         queue' \in {<<>>, <<Replay>>}, conn' \in Setup \union {"live"},
         queue' # <<>> => conn' = "live" /\ file' # NoFile,
         conn' \in {"baseline", "buffered"} => file' = NoFile,
         conn' = "buffered" => baseline' # NoFile,
         conn' = "late" => file' # NoFile,
         \/ file' = file /\ base' = base /\ (conn' = "late" => conn = "late")
         \/ /\ file = NoFile \/ conn = "late"
            /\ base' = Pos(file') /\ file' # NoFile
  PROVE  Inv'
<1>1. /\ Newest' = Newest /\ Newest \in Nat
      /\ NoWork.pc = "none" /\ NoWork.job = 0 /\ NoWork.left = <<>>
  BY FilePos DEF Inv, Newest, NoWork, Replay
<1>2. TypeOK'
  <2>1. queue' \in Seq(Jobs)
    BY ShortSeq DEF Jobs
  <2>2. heard' \in {0} \union Messages /\ frames' \in Seq(Messages)
    BY ShortSeq DEF Inv, TypeOK
  <2>3. conn' \in {"off", "open", "baseline", "buffered", "late", "live", "closing"}
    BY DEF Setup
  <2> QED
    BY <1>1, <2>1, <2>2, <2>3 DEF Inv, TypeOK
<1>3. Phases'
  BY <1>1 DEF Inv, Phases, Setup
<1>4. Ranges'
  <2>1. \A j \in DOMAIN frames' : frames'[j] <= Newest
    BY DEF Inv, Ranges
  <2>2. \A j \in DOMAIN queue' : queue'[j] <= Newest
    BY <1>1 DEF Replay
  <2> QED
    BY <1>1, <2>1, <2>2 DEF Inv, Ranges
<1>5. Progress'
  <2>1. CASE file' = file /\ base' = base /\ (conn' = "late" => conn = "late")
    BY <2>1, ProgressFrame DEF Inv
  <2>2. CASE (file = NoFile \/ conn = "late") /\ base' = Pos(file') /\ file' # NoFile
    BY <2>2, FreshProgress
  <2> QED
    BY <2>1, <2>2
<1>6. AtWork'
  BY AtWorkNone
<1>7. Gapless'
  BY GaplessNot
<1> QED
  BY <1>2, <1>3, <1>4, <1>5, <1>6, <1>7 DEF Inv

\* What holds while a connection is set up.
LEMMA SetupIdle ==
  ASSUME Inv, conn \in Setup \union {"off"}
  PROVE  /\ work = NoWork /\ queue = <<>> /\ ~ aborted
         /\ conn \in Setup => replayed = {} /\ ~ recovered
         /\ conn = "buffered" => baseline # NoFile
  BY DEF Inv, Phases, Setup

\* The types that its steps need.
LEMMA SetupTypes ==
  ASSUME Inv
  PROVE  /\ file \in Checkpoints /\ file.uid <= Newest /\ base \in -1 .. MaxMessages
         /\ baseline \in Checkpoints /\ baseline.uid <= Newest /\ fed \in 0 .. Newest
         /\ heard \in {0} \union Messages /\ heard <= Newest
  BY DEF Inv, TypeOK, Ranges

\* ... of flags too.
LEMMA SetupFlags ==
  ASSUME Inv
  PROVE  recovered \in BOOLEAN /\ loaded \in BOOLEAN /\ listed \in BOOLEAN
  BY Zenon DEF Inv, TypeOK

\* A checkpoint that is set is in the history, and no message is owed before it.
LEMMA BaselineFacts ==
  ASSUME Inv, NEW m \in Messages, m <= Newest
  PROVE  /\ First(m) \in Checkpoints /\ First(m).uid <= Newest /\ First(m) # NoFile
         /\ Pos(First(m)) \in -1 .. MaxMessages
<1>1. m \in Int /\ 1 <= m /\ m <= MaxMessages
  BY TransportAssumption DEF Messages
<1> QED
  BY <1>1, Checkpoint, TransportAssumption

\* The position of any checkpoint.
LEMMA CheckpointPos ==
  ASSUME NEW c \in Checkpoints
  PROVE  Pos(c) \in -1 .. MaxMessages
<1>1. CASE c \in [first : {FALSE}, uid : -1 .. MaxMessages]
  BY <1>1 DEF Pos
<1>2. CASE c \in [first : {TRUE}, uid : Messages]
  BY <1>2, TransportAssumption DEF Pos, Messages
<1> QED
  BY <1>1, <1>2 DEF Checkpoints

\* The connection is made, the chats are listed and the first checkpoint is set.
LEMMA SetupSteps ==
  ASSUME Inv, \/ Connect \/ (\E shown \in BOOLEAN : Listing(shown))
              \/ (\E ownerChat \in BOOLEAN : ReadNewest(ownerChat)) \/ AckBaseline \/ AckLate
  PROVE  Inv'
<1>1. CASE Connect
  <2>1. Newest \in 0 .. Newest
    BY FilePos DEF Inv
  <2>2. conn = "off"
    BY <1>1 DEF Connect
  <2> QED
    BY <1>1, <2>1, <2>2, SetupStep, SetupIdle, SetupTypes, SetupFlags DEF Connect, Setup
<1>2. ASSUME NEW shown \in BOOLEAN, Listing(shown) PROVE Inv'
  <2>1. conn = "open" /\ conn \in Setup
    BY <1>2 DEF Listing, Setup
  <2>2. CASE shown /\ file = NoFile
    BY <1>2, <2>1, <2>2, SetupStep, SetupIdle, SetupTypes, SetupFlags DEF Listing, Setup
  <2>3. CASE ~ (shown /\ file = NoFile)
    BY <1>2, <2>1, <2>3, SetupStep, SetupIdle, SetupTypes, SetupFlags DEF Listing, Opening, Setup
  <2> QED
    BY <2>2, <2>3
<1>3. ASSUME NEW ownerChat \in BOOLEAN, ReadNewest(ownerChat) PROVE Inv'
  <2>1. conn = "baseline" /\ conn \in Setup /\ file = NoFile
    BY <1>3 DEF ReadNewest, Setup, Inv, Phases
  <2>2. baseline' \in Checkpoints /\ baseline'.uid <= Newest /\ baseline' # NoFile
    <3>1. CASE ownerChat /\ Newest > 0 /\ kind[Newest] = "in"
      <4>1. Unanswered(Newest) \in Messages /\ Unanswered(Newest) <= Newest
        BY <3>1, UnansweredMessage, FilePos, TransportAssumption DEF Inv, Messages
      <4> QED
        BY <1>3, <3>1, <4>1, BaselineFacts DEF ReadNewest
    <3>2. CASE ~ (ownerChat /\ Newest > 0 /\ kind[Newest] = "in")
      <4>1. Newest \in {0} \union Messages /\ Newest \in Int /\ Newest # -1
        BY FilePos, TransportAssumption DEF Inv, Messages
      <4>2. baseline' = Plain(Newest)
        BY <1>3, <3>2 DEF ReadNewest
      <4> QED
        BY <4>1, <4>2, Checkpoint
    <3> QED
      BY <3>1, <3>2
  <2> QED
    BY <1>3, <2>1, <2>2, SetupStep, SetupIdle, SetupTypes, SetupFlags DEF ReadNewest, jobVars, Setup
<1>4. CASE AckBaseline
  <2> DEFINE c == IF heard # 0 /\ (~ baseline.first \/ heard < baseline.uid)
                  THEN First(heard) ELSE baseline
  <2>1. conn = "buffered" /\ conn \in Setup /\ file = NoFile
    BY <1>4 DEF AckBaseline, Setup, Inv, Phases
  <2>2. c \in Checkpoints /\ c.uid <= Newest /\ c # NoFile /\ Pos(c) \in -1 .. MaxMessages
    <3>1. CASE heard # 0 /\ (~ baseline.first \/ heard < baseline.uid)
      <4>1. heard \in Messages /\ heard <= Newest
        BY <2>1, <3>1, SetupTypes
      <4>2. c = First(heard)
        BY <3>1
      <4> QED
        BY <4>1, <4>2, BaselineFacts
    <3>2. CASE ~ (heard # 0 /\ (~ baseline.first \/ heard < baseline.uid))
      <4>1. c = baseline
        BY <3>2
      <4>2. baseline \in Checkpoints /\ baseline.uid <= Newest /\ baseline # NoFile
        BY <2>1, SetupIdle, SetupTypes
      <4> QED
        BY <4>1, <4>2, CheckpointPos
    <3> QED
      BY <3>1, <3>2
  <2>3. file' = c /\ base' = Pos(c) /\ loaded' = TRUE
    BY <1>4 DEF AckBaseline, SetBaseline
  <2> HIDE DEF c
  <2> QED
    BY <1>4, <2>1, <2>2, <2>3, SetupStep, SetupIdle, SetupTypes, SetupFlags DEF AckBaseline, jobVars, Setup
<1>5. CASE AckLate
  <2>1. conn = "late" /\ conn \in Setup /\ file # NoFile
    BY <1>5 DEF AckLate, Setup, Inv, Phases
  <2>2. CASE ~ file.first /\ heard # 0
    <3>1. heard \in Messages /\ heard <= Newest
      BY <2>1, <2>2, SetupTypes
    <3>2. file' = First(heard) /\ base' = Pos(First(heard)) /\ loaded' = TRUE
      BY <1>5, <2>2 DEF AckLate, SetBaseline
    <3> QED
      BY <1>5, <2>1, <3>1, <3>2, BaselineFacts, SetupStep, SetupIdle, SetupTypes, SetupFlags DEF AckLate, Opening, Setup
  <2>3. CASE ~ (~ file.first /\ heard # 0)
    BY <1>5, <2>1, <2>3, SetupStep, SetupIdle, SetupTypes, SetupFlags DEF AckLate, Opening, Setup
  <2> QED
    BY <2>2, <2>3
<1> QED
  BY <1>1, <1>2, <1>3, <1>4, <1>5

\* The socket carries a frame, the next one or an older one.
LEMMA CarryStep ==
  ASSUME Inv, NEW m \in Messages, Connected, Carry(m), m <= Newest,
         \/ fed' = fed /\ m <= fed
         \/ fed' = fed + 1 /\ m = fed + 1,
         stale' \in 0 .. MaxStale
  PROVE  Inv'
<1>1. /\ frames' = Append(frames, m) /\ frames \in Seq(Messages)
      /\ fed \in Nat /\ fed <= Newest /\ m \in Nat /\ Newest \in Nat
      /\ UNCHANGED <<kind, file, loaded, conn, listed, baseline, jobVars, aborted, done, base>>
  BY FilePos, Numbers DEF Inv, TypeOK, Carry
<1>2. /\ frames' \in Seq(Messages) /\ Len(frames) \in Nat
      /\ DOMAIN frames = 1 .. Len(frames) /\ DOMAIN frames' = 1 .. Len(frames) + 1
      /\ \A k \in 1 .. Len(frames) : frames'[k] = frames[k]
      /\ frames'[Len(frames) + 1] = m
  BY <1>1, AppendFacts
<1>3. Newest' = Newest
  BY <1>1 DEF Newest
<1>4. heard' \in {heard, m}
  BY DEF Carry
<1>5. TypeOK'
  BY <1>1, <1>2, <1>3, <1>4 DEF Inv, TypeOK, jobVars
<1>6. Phases'
  BY <1>1 DEF Inv, Phases, jobVars
<1>7. Ranges'
  BY <1>1, <1>2, <1>3, <1>4 DEF Inv, Ranges, jobVars
<1>8. Progress'
  BY <1>1, ProgressFrame DEF Inv
<1>9. AtWork'
  BY <1>1, AtWorkFrame DEF Inv, jobVars
<1>10. Gapless'
  <2> SUFFICES ASSUME Caught
               PROVE  /\ \A j \in DOMAIN frames', y \in Messages :
                           Reach < y /\ y < frames'[j]
                             => AtHand(y) \/ Queued(y) \/ \E k \in 1 .. j - 1 : frames'[k] = y
                      /\ \A y \in Messages :
                           Reach < y /\ y <= fed' => AtHand(y) \/ Queued(y) \/ Unread(y)'
    <3>1. /\ Caught' <=> Caught
          /\ Reach' = Reach /\ work' = work /\ queue' = queue
      BY <1>1 DEF Caught, Reach, jobVars
    <3>2. \A y : (AtHand(y)' <=> AtHand(y)) /\ (Queued(y)' <=> Queued(y))
      BY <3>1 DEF AtHand, Queued
    <3>3. ASSUME Caught
          PROVE  /\ work.job <= Reach + 1
                 /\ \A j \in DOMAIN queue, y \in Messages :
                      Reach < y /\ y < queue[j] => AtHand(y) \/ \E k \in 1 .. j - 1 : queue[k] = y
      BY <3>3 DEF Inv, Gapless
    <3> QED
      BY <3>1, <3>2, <3>3 DEF Gapless
  <2>1. ASSUME NEW y \in Messages, Reach < y, y <= fed
        PROVE  AtHand(y) \/ Queued(y) \/ \E k \in 1 .. Len(frames) : frames'[k] = y
    <3>1. AtHand(y) \/ Queued(y) \/ Unread(y)
      BY <2>1 DEF Inv, Gapless
    <3> QED
      BY <3>1, <1>2 DEF Unread
  <2>2. ASSUME NEW j \in DOMAIN frames', NEW y \in Messages, Reach < y, y < frames'[j]
        PROVE  AtHand(y) \/ Queued(y) \/ \E k \in 1 .. j - 1 : frames'[k] = y
    <3>1. CASE j = Len(frames) + 1
      <4>1. y <= fed
        BY <2>2, <3>1, <1>1, <1>2, Numbers DEF Inv
      <4> QED
        BY <4>1, <2>1, <2>2, <3>1, <1>2
    <3>2. CASE j \in 1 .. Len(frames)
      <4>1. AtHand(y) \/ Queued(y) \/ \E k \in 1 .. j - 1 : frames[k] = y
        BY <2>2, <3>2, <1>2 DEF Inv, Gapless
      <4> QED
        BY <4>1, <3>2, <1>2
    <3> QED
      BY <3>1, <3>2, <1>2
  <2>3. ASSUME NEW y \in Messages, Reach < y, y <= fed'
        PROVE  AtHand(y) \/ Queued(y) \/ Unread(y)'
    <3>1. CASE y <= fed
      BY <3>1, <2>1, <2>3, <1>2 DEF Unread
    <3>2. CASE ~ (y <= fed)
      <4>1. y = m
        BY <2>3, <3>2, <1>1, Numbers DEF Inv
      <4> QED
        BY <4>1, <1>2 DEF Unread
    <3> QED
      BY <3>1, <3>2
  <2> QED
    BY <2>2, <2>3
<1> QED
  BY <1>5, <1>6, <1>7, <1>8, <1>9, <1>10 DEF Inv

\* Frames of new and of old messages.
LEMMA FeedSteps ==
  ASSUME Inv, Feed \/ \E m \in Messages : FeedStale(m)
  PROVE  Inv'
<1>1. fed \in Nat /\ stale \in 0 .. MaxStale /\ Newest \in Nat /\ Newest <= MaxMessages /\ fed <= Newest
  BY FilePos DEF Inv, TypeOK
<1>2. CASE Feed
  <2>1. fed + 1 \in Messages
    BY <1>1, <1>2, TransportAssumption DEF Feed, Messages
  <2> QED
    BY <1>1, <1>2, <2>1, CarryStep DEF Feed
<1>3. ASSUME NEW m \in Messages, FeedStale(m) PROVE Inv'
  BY <1>1, <1>3, CarryStep, Numbers, TransportAssumption DEF FeedStale, Inv
<1> QED
  BY <1>2, <1>3

\* A frame is read: dropped if its message was recovered, else queued; the first
\* one of a chat without a checkpoint sets it.
LEMMA ReadFrameStep ==
  ASSUME Inv, ReadFrame
  PROVE  Inv'
<1>1. /\ conn = "live" /\ frames # <<>> /\ frames \in Seq(Messages) /\ frames' = Tail(frames)
      /\ UNCHANGED <<kind, conn, listed, fed, stale, heard, baseline, replayed, recovered, work,
                     aborted, done>>
  BY DEF ReadFrame, Accepting, Inv, TypeOK
<1>15. PICK x \in Messages : x = Head(frames)
  BY <1>1, TailFacts
<1>2. /\ frames' \in Seq(Messages) /\ Len(frames) \in Nat /\ 1 <= Len(frames)
      /\ DOMAIN frames = 1 .. Len(frames) /\ DOMAIN frames' = 1 .. Len(frames) - 1
      /\ \A k \in 1 .. Len(frames) - 1 : frames'[k] = frames[k + 1]
      /\ x = frames[1]
  BY <1>1, <1>15, TailFacts
<1>3. \/ x \in replayed /\ UNCHANGED <<file, base, loaded, queue>>
      \/ /\ x \notin replayed /\ file # NoFile
         /\ queue' = Append(queue, x) /\ loaded' = TRUE /\ UNCHANGED <<file, base>>
      \/ /\ x \notin replayed /\ file = NoFile /\ queue' = Append(queue, x)
         /\ loaded' = TRUE /\ file' = First(x) /\ base' = Pos(First(x))
  BY <1>15 DEF ReadFrame, SetBaseline
<1>4. x \in Nat /\ 1 <= x /\ x <= Newest /\ Newest' = Newest /\ Newest \in Nat
  <2>1. x <= Newest
    BY <1>2 DEF Inv, Ranges
  <2>2. Newest' = Newest
    BY <1>1 DEF Newest
  <2> QED
    BY <2>1, <2>2, Numbers, FilePos DEF Inv
<1>5. queue \in Seq(Jobs) /\ x \in Jobs
  BY DEF Inv, TypeOK, Jobs
<1>6. ASSUME queue' = Append(queue, x)
      PROVE  /\ queue' \in Seq(Jobs) /\ Len(queue) \in Nat
             /\ DOMAIN queue = 1 .. Len(queue) /\ DOMAIN queue' = 1 .. Len(queue) + 1
             /\ \A k \in 1 .. Len(queue) : queue'[k] = queue[k]
             /\ queue'[Len(queue) + 1] = x
  BY <1>5, <1>6, AppendFacts
<1>7. /\ file' \in Checkpoints /\ file'.uid <= Newest /\ base' \in -1 .. MaxMessages
      /\ queue' \in Seq(Jobs) /\ loaded' \in BOOLEAN
      /\ file' # file => file = NoFile /\ file' # NoFile /\ base' = Pos(file')
      /\ file' = file => base' = base
      /\ queue' # queue => file' # NoFile
  <2>1. CASE x \in replayed /\ UNCHANGED <<file, base, loaded, queue>>
    BY <2>1 DEF Inv, TypeOK
  <2>2. CASE x \notin replayed /\ file # NoFile /\ queue' = Append(queue, x) /\ loaded' = TRUE
             /\ UNCHANGED <<file, base>>
    BY <2>2, <1>6 DEF Inv, TypeOK
  <2>3. CASE x \notin replayed /\ file = NoFile /\ queue' = Append(queue, x) /\ loaded' = TRUE
             /\ file' = First(x) /\ base' = Pos(First(x))
    <3>1. /\ First(x) \in Checkpoints /\ First(x).uid <= Newest /\ First(x) # NoFile
          /\ Pos(First(x)) \in -1 .. MaxMessages
      BY <1>2, <1>4, BaselineFacts
    <3> QED
      BY <2>3, <3>1, <1>6
  <2> QED
    BY <1>3, <2>1, <2>2, <2>3
<1>8. TypeOK'
  BY <1>1, <1>2, <1>4, <1>7 DEF Inv, TypeOK
<1>9. Phases'
  BY <1>1, <1>7 DEF Inv, Phases, Setup
<1>10. Ranges'
  <2>1. \A j \in DOMAIN frames' : frames'[j] <= Newest
    BY <1>2 DEF Inv, Ranges
  <2>2. \A j \in DOMAIN queue' : queue'[j] <= Newest
    <3>1. CASE queue' = queue
      BY <3>1 DEF Inv, Ranges
    <3>2. CASE queue' = Append(queue, x)
      BY <3>2, <1>4, <1>6 DEF Inv, Ranges
    <3> QED
      BY <1>3, <3>1, <3>2
  <2>3. replayed # {} => file' = file
    <3>1. file = NoFile => replayed = {}
      <4>1. \A m \in replayed : m \in Nat /\ 1 <= m /\ m <= Pos(file)
        BY <1>1, Numbers DEF Inv, Ranges, TypeOK
      <4>2. file = NoFile => Pos(file) = -1
        BY DEF NoFile, Plain, Pos
      <4> QED
        BY <4>1, <4>2
    <3> QED
      BY <3>1, <1>7
  <2> QED
    BY <1>1, <1>4, <2>1, <2>2, <2>3 DEF Inv, Ranges

<1>11. Progress'
  <2>1. CASE file' = file
    BY <2>1, <1>1, <1>7, ProgressFrame DEF Inv
  <2>2. CASE file' # file
    BY <2>2, <1>1, <1>7, FreshProgress
  <2> QED
    BY <2>1, <2>2
<1>12. file' # file => work' = NoWork /\ ~ recovered'
  BY <1>1, <1>7 DEF Inv, Phases, AtWork, InHand
<1>13. AtWork'
  BY <1>1, <1>12, AtWorkFrame, AtWorkNone DEF Inv
<1>14. Gapless'
  <2>1. CASE file' # file
    BY <2>1, <1>12, GaplessNot
  <2>2. CASE file' = file
    <3> SUFFICES ASSUME Caught PROVE Gapless'
      BY <1>1 DEF Gapless, Caught
    <3>1. Reach' = Reach /\ \A y : AtHand(y)' <=> AtHand(y)
      BY <1>1, <2>2 DEF Reach, AtHand
    <3>2. /\ work.job <= Reach + 1
          /\ \A j \in DOMAIN queue, y \in Messages :
               Reach < y /\ y < queue[j] => AtHand(y) \/ \E k \in 1 .. j - 1 : queue[k] = y
          /\ \A j \in DOMAIN frames, y \in Messages :
               Reach < y /\ y < frames[j] => AtHand(y) \/ Queued(y) \/ \E k \in 1 .. j - 1 : frames[k] = y
          /\ \A y \in Messages : Reach < y /\ y <= fed => AtHand(y) \/ Queued(y) \/ Unread(y)
      BY DEF Inv, Gapless
    <3>3. Pos(file) <= Reach /\ Pos(file) \in Int /\ Reach \in Int
      BY FilePos, Numbers DEF Inv, Reach
    <3>4. CASE queue' = queue /\ x \in replayed
      <4>1. x <= Reach
        BY <3>3, <3>4, <1>1, <1>4 DEF Inv, Ranges
      <4>2. \A y : Queued(y)' <=> Queued(y)
        BY <3>4 DEF Queued
      <4>3. ASSUME NEW j \in DOMAIN frames', NEW y \in Messages, Reach < y, y < frames'[j]
            PROVE  AtHand(y) \/ Queued(y) \/ \E k \in 1 .. j - 1 : frames'[k] = y
        <5>1. AtHand(y) \/ Queued(y) \/ \E k \in 1 .. j : frames[k] = y
          <6>1. j + 1 \in DOMAIN frames /\ frames[j + 1] = frames'[j] /\ (j + 1) - 1 = j
            BY <4>3, <1>2
          <6>2. AtHand(y) \/ Queued(y) \/ \E k \in 1 .. (j + 1) - 1 : frames[k] = y
            BY <4>3, <6>1, <3>2
          <6> QED
            BY <6>1, <6>2
        <5>2. ASSUME NEW k \in 1 .. j, frames[k] = y PROVE \E l \in 1 .. j - 1 : frames'[l] = y
          <6>1. k # 1
            BY <5>2, <4>1, <4>3, <3>3, <1>2, <1>4
          <6>2. k - 1 \in 1 .. j - 1 /\ frames'[k - 1] = y
            BY <5>2, <6>1, <1>2, <4>3
          <6> QED
            BY <6>2
        <5> QED
          BY <5>1, <5>2
      <4>4. ASSUME NEW y \in Messages, Reach < y, y <= fed PROVE AtHand(y) \/ Queued(y) \/ Unread(y)'
        <5>1. ASSUME NEW k \in DOMAIN frames, frames[k] = y PROVE Unread(y)'
          <6>1. k # 1
            BY <5>1, <4>1, <4>4, <3>3, <1>2, <1>4
          <6>2. k - 1 \in DOMAIN frames' /\ frames'[k - 1] = y
            BY <5>1, <6>1, <1>2
          <6> QED
            BY <6>2 DEF Unread
        <5> QED
          BY <5>1, <4>4, <3>2 DEF Unread
      <4> QED
        BY <3>1, <3>2, <3>4, <4>2, <4>3, <4>4, <1>1 DEF Gapless
    <3>5. CASE queue' = Append(queue, x)
      <4>1. /\ Len(queue) \in Nat
            /\ DOMAIN queue = 1 .. Len(queue) /\ DOMAIN queue' = 1 .. Len(queue) + 1
            /\ \A k \in 1 .. Len(queue) : queue'[k] = queue[k]
            /\ queue'[Len(queue) + 1] = x
        BY <3>5, <1>6
      <4>2. \A y : Queued(y) => \E k \in 1 .. Len(queue) : queue'[k] = y
        BY <4>1 DEF Queued
      <4>3. \A y : (Queued(y) => Queued(y)') /\ Queued(x)'
        BY <4>1 DEF Queued
      <4>4. ASSUME NEW j \in DOMAIN queue', NEW y \in Messages, Reach < y, y < queue'[j]
            PROVE  AtHand(y) \/ \E k \in 1 .. j - 1 : queue'[k] = y
        <5>1. CASE j = Len(queue) + 1
          <6>1. AtHand(y) \/ Queued(y) \/ \E k \in 1 .. 1 - 1 : frames[k] = y
            BY <4>4, <5>1, <4>1, <3>2, <1>2
          <6> QED
            BY <6>1, <4>2, <5>1
        <5>2. CASE j \in 1 .. Len(queue)
          <6>1. AtHand(y) \/ \E k \in 1 .. j - 1 : queue[k] = y
            BY <4>4, <5>2, <4>1, <3>2
          <6> QED
            BY <6>1, <5>2, <4>1
        <5> QED
          BY <5>1, <5>2, <4>1
      <4>5. ASSUME NEW j \in DOMAIN frames', NEW y \in Messages, Reach < y, y < frames'[j]
            PROVE  AtHand(y) \/ Queued(y)' \/ \E k \in 1 .. j - 1 : frames'[k] = y
        <5>1. AtHand(y) \/ Queued(y) \/ \E k \in 1 .. j : frames[k] = y
          <6>1. j + 1 \in DOMAIN frames /\ frames[j + 1] = frames'[j] /\ (j + 1) - 1 = j
            BY <4>5, <1>2
          <6>2. AtHand(y) \/ Queued(y) \/ \E k \in 1 .. (j + 1) - 1 : frames[k] = y
            BY <4>5, <6>1, <3>2
          <6> QED
            BY <6>1, <6>2
        <5>2. ASSUME NEW k \in 1 .. j, frames[k] = y, y # x PROVE \E l \in 1 .. j - 1 : frames'[l] = y
          <6>1. k # 1
            BY <5>2, <1>2
          <6>2. k - 1 \in 1 .. j - 1 /\ frames'[k - 1] = y
            BY <5>2, <6>1, <1>2, <4>5
          <6> QED
            BY <6>2
        <5> QED
          BY <5>1, <5>2, <4>3
      <4>6. ASSUME NEW y \in Messages, Reach < y, y <= fed PROVE AtHand(y) \/ Queued(y)' \/ Unread(y)'
        <5>1. ASSUME NEW k \in DOMAIN frames, frames[k] = y, y # x PROVE Unread(y)'
          <6>1. k # 1
            BY <5>1, <1>2
          <6>2. k - 1 \in DOMAIN frames' /\ frames'[k - 1] = y
            BY <5>1, <6>1, <1>2
          <6> QED
            BY <6>2 DEF Unread
        <5> QED
          BY <5>1, <4>3, <4>6, <3>2 DEF Unread
      <4> QED
        BY <3>1, <3>2, <4>4, <4>5, <4>6, <1>1 DEF Gapless
    <3> QED
      BY <3>4, <3>5, <1>3
  <2> QED
    BY <2>1, <2>2
<1> QED
  BY <1>8, <1>9, <1>10, <1>11, <1>13, <1>14 DEF Inv

\* The first of the queue is not beyond the next message, once the chat is recovered.
LEMMA HeadIsNext ==
  ASSUME Inv, conn = "live", recovered, work.pc = "none", queue # <<>>
  PROVE  queue[1] <= Pos(file) + 1
<1>1. /\ work = NoWork /\ file # NoFile
  BY DEF Inv, Phases, AtWork, InHand
<1>2. Reach = Pos(file) /\ work.job = 0 /\ Pos(file) \in Nat
  BY <1>1, FilePos DEF Inv, Reach, NoWork, Replay
<1>3. 1 \in DOMAIN queue /\ queue[1] \in Nat /\ queue[1] \in Jobs
  BY Numbers DEF Inv, TypeOK
<1>4. SUFFICES ASSUME queue[1] > Pos(file) + 1 PROVE FALSE
  BY <1>2, <1>3
<1>5. Pos(file) + 1 \in Messages
  BY <1>2, <1>3, <1>4, TransportAssumption DEF Jobs, Messages, Replay
<1>6. AtHand(Pos(file) + 1) \/ \E k \in 1 .. 1 - 1 : queue[k] = Pos(file) + 1
  BY <1>2, <1>3, <1>4, <1>5 DEF Inv, Gapless, Caught
<1> QED
  BY <1>2, <1>6 DEF AtHand

\* When the checkpoint or the listing covers more, less is to come.
LEMMA GaplessShift ==
  ASSUME Inv, queue' = queue, frames' = frames, fed' = fed,
         Caught' => Caught /\ Reach' \in Int /\ Reach <= Reach' /\ work'.job <= Reach' + 1,
         Caught' => \A y \in Messages : Reach' < y /\ y = work.job => y = work'.job
  PROVE  Gapless'
<1> SUFFICES ASSUME Caught' PROVE Gapless'
  BY DEF Gapless
<1>1. Caught /\ Reach' \in Int /\ Reach <= Reach' /\ work'.job <= Reach' + 1 /\ Reach \in Int
  BY FilePos, Numbers DEF Inv, Reach
<1>2. ASSUME NEW y \in Messages, Reach' < y
      PROVE  Reach < y /\ (AtHand(y) => AtHand(y)') /\ (Queued(y)' <=> Queued(y)) /\ (Unread(y)' <=> Unread(y))
  BY <1>1, <1>2, Numbers DEF Inv, AtHand, Queued, Unread
<1>3. ASSUME NEW j \in DOMAIN queue, NEW y \in Messages, Reach' < y, y < queue[j]
      PROVE  AtHand(y)' \/ \E k \in 1 .. j - 1 : queue[k] = y
  <2>1. AtHand(y) \/ \E k \in 1 .. j - 1 : queue[k] = y
    BY <1>1, <1>2, <1>3 DEF Inv, Gapless
  <2> QED
    BY <2>1, <1>2, <1>3
<1>4. ASSUME NEW j \in DOMAIN frames, NEW y \in Messages, Reach' < y, y < frames[j]
      PROVE  AtHand(y)' \/ Queued(y)' \/ \E k \in 1 .. j - 1 : frames[k] = y
  <2>1. AtHand(y) \/ Queued(y) \/ \E k \in 1 .. j - 1 : frames[k] = y
    BY <1>1, <1>2, <1>4 DEF Inv, Gapless
  <2> QED
    BY <2>1, <1>2, <1>4
<1>5. ASSUME NEW y \in Messages, Reach' < y, y <= fed
      PROVE  AtHand(y)' \/ Queued(y)' \/ Unread(y)'
  <2>1. AtHand(y) \/ Queued(y) \/ Unread(y)
    BY <1>1, <1>2, <1>5 DEF Inv, Gapless
  <2> QED
    BY <2>1, <1>2, <1>5
<1> QED
  BY <1>1, <1>3, <1>4, <1>5 DEF Gapless

\* The queue's first job begins.
LEMMA StartJobStep ==
  ASSUME Inv, StartJob
  PROVE  Inv'
<1>1. PICK q \in Jobs :
        /\ q = Head(queue) /\ queue # <<>> /\ queue' = Tail(queue)
        /\ conn = "live" /\ work.pc = "none"
        /\ \/ work' = At("list", q, <<>>, 0, FALSE)
           \/ recovered /\ work' = NoWork /\ (q \in replayed \/ q <= Pos(file))
           \/ recovered /\ q > Pos(file) /\ q \in Messages
              /\ work' = At("chat", q, <<>>, q, TRUE)
  BY StartJobMoves DEF Inv
<1>2. UNCHANGED <<kind, file, loaded, conn, listed, fed, stale, frames, heard, baseline,
                  replayed, recovered, aborted, done, base>>
  BY DEF StartJob, socketVars
<1>3. /\ queue \in Seq(Jobs) /\ queue' \in Seq(Jobs) /\ Len(queue) \in Nat /\ 1 <= Len(queue)
      /\ DOMAIN queue = 1 .. Len(queue) /\ DOMAIN queue' = 1 .. Len(queue) - 1
      /\ \A k \in 1 .. Len(queue) - 1 : queue'[k] = queue[k + 1]
      /\ q = queue[1]
  BY <1>1, TailFacts DEF Inv, TypeOK
<1>4. /\ work = NoWork /\ file # NoFile /\ ~ aborted /\ Reach = Pos(file) /\ work.job = 0
      /\ Pos(file) \in Nat /\ q \in Nat /\ q <= Newest /\ Newest \in Nat /\ Newest' = Newest
  <2>1. work = NoWork /\ file # NoFile /\ ~ aborted
    BY <1>1 DEF Inv, Phases, AtWork, InHand
  <2>2. Reach = Pos(file) /\ work.job = 0 /\ Pos(file) \in Nat /\ Newest \in Nat
    BY <2>1, FilePos DEF Inv, Reach, NoWork, Replay
  <2>3. q \in Nat /\ q <= Newest
    BY <1>3, Numbers DEF Inv, Ranges
  <2>4. Newest' = Newest
    BY <1>2 DEF Newest
  <2> QED
    BY <2>1, <2>2, <2>3, <2>4
<1>5. /\ work' \in WorkType /\ work'.left = <<>> /\ work'.job \in {0, q}
      /\ work'.pc \in {"list", "none", "chat"}
      /\ work'.pc = "list" => ~ work'.live
      /\ work'.pc = "none" => work' = NoWork
      /\ work'.pc = "chat" => work'.live /\ work'.job = q /\ work'.cur = q /\ recovered /\ q > Pos(file)
      /\ recovered => work'.job = q \/ q <= Pos(file)
  <2>1. CASE work' = At("list", q, <<>>, 0, FALSE)
    <3>1. work' \in WorkType
      BY <2>1, ShortSeq, AtType DEF Stages
    <3>2. /\ work'.pc = "list" /\ work'.left = <<>> /\ work'.job = q /\ work'.live = FALSE
      BY <2>1, Zenon DEF At
    <3> QED
      BY <3>1, <3>2
  <2>2. CASE recovered /\ work' = NoWork /\ (q \in replayed \/ q <= Pos(file))
    <3>1. q <= Pos(file)
      BY <2>2, <1>1 DEF Inv, Ranges
    <3>2. work' \in WorkType
      BY <1>4, <2>2 DEF Inv, TypeOK
    <3>3. work'.pc = "none" /\ work'.left = <<>> /\ work'.job = 0
      BY <2>2 DEF NoWork, Replay
    <3> QED
      BY <2>2, <3>1, <3>2, <3>3
  <2>3. CASE recovered /\ q > Pos(file) /\ q \in Messages /\ work' = At("chat", q, <<>>, q, TRUE)
    <3>1. work' \in WorkType
      BY <2>3, ShortSeq, AtType DEF Stages
    <3>2. work'.pc = "chat" /\ work'.left = <<>> /\ work'.job = q /\ work'.cur = q /\ work'.live = TRUE
      BY <2>3, Zenon DEF At
    <3> QED
      BY <2>3, <3>1, <3>2
  <2> QED
    BY <1>1, <2>1, <2>2, <2>3
<1>6. TypeOK'
  BY <1>2, <1>3, <1>4, <1>5 DEF Inv, TypeOK
<1>7. Phases'
  BY <1>1, <1>2, <1>4 DEF Inv, Phases, Setup
<1>8. Ranges'
  <2>1. \A j \in DOMAIN queue' : queue'[j] <= Newest
    BY <1>3 DEF Inv, Ranges
  <2> QED
    BY <1>2, <1>4, <1>5, <2>1 DEF Inv, Ranges
<1>9. Progress'
  BY <1>2, ProgressFrame DEF Inv
<1>10. recovered => q <= Pos(file) + 1
  BY <1>1, <1>3, HeadIsNext
<1>11. AtWork'
  <2>1. InHand'
    <3>1. CASE work'.pc = "none"
      BY <1>5, <3>1, AtWorkNone DEF AtWork
    <3>2. CASE work'.pc = "list"
      BY <1>5, <3>2, Zenon DEF InHand, Consuming
    <3>3. CASE work'.pc = "chat"
      BY <1>5, <3>3, Zenon DEF InHand, Consuming
    <3> QED
      BY <1>5, <3>1, <3>2, <3>3
  <2>2. AtNext'
    BY <1>2, <1>4, <1>5, <1>10 DEF AtNext, Consuming
  <2>3. InLine'
    <3>1. Len(work'.left) = 0 /\ DOMAIN work'.left = {}
      BY <1>5
    <3>2. Pos(file) + 0 <= Newest
      BY <1>4, FilePos DEF Inv
    <3> QED
      BY <3>1, <3>2, <1>2, <1>4 DEF InLine
  <2> QED
    BY <2>1, <2>2, <2>3 DEF AtWork
<1>12. Gapless'
  <2> SUFFICES ASSUME Caught' PROVE Gapless'
    BY DEF Gapless
  <2>1. recovered /\ Caught
    BY <1>1, <1>2, <1>5 DEF Caught
  <2>2. Reach' = Pos(file) /\ work'.job <= Pos(file) + 1
    BY <1>2, <1>4, <1>5, <1>10, <2>1 DEF Reach
  <2>3. ASSUME NEW y \in Messages, Pos(file) < y, NEW k \in 1 .. Len(queue), queue[k] = y
        PROVE  AtHand(y)' \/ (k # 1 /\ k - 1 \in DOMAIN queue' /\ queue'[k - 1] = y)
    <3>1. CASE k = 1
      <4>1. y = q /\ y \in Nat
        BY <2>3, <3>1, <1>3, Numbers DEF Inv
      <4>2. work'.job = q
        BY <4>1, <2>3, <1>4, <1>5, <2>1
      <4> QED
        BY <4>1, <4>2 DEF AtHand
    <3>2. CASE k # 1
      BY <2>3, <3>2, <1>3
    <3> QED
      BY <3>1, <3>2
  <2>4. ASSUME NEW y \in Messages, Pos(file) < y, AtHand(y) \/ Queued(y)
        PROVE  AtHand(y)' \/ Queued(y)'
    <3>1. ~ AtHand(y)
      BY <1>4, Numbers DEF Inv, AtHand
    <3> QED
      BY <3>1, <2>3, <2>4, <1>3 DEF Queued
  <2>5. ASSUME NEW j \in DOMAIN queue', NEW y \in Messages, Pos(file) < y, y < queue'[j]
        PROVE  AtHand(y)' \/ \E k \in 1 .. j - 1 : queue'[k] = y
    <3>1. j + 1 \in DOMAIN queue /\ queue[j + 1] = queue'[j] /\ (j + 1) - 1 = j
      BY <2>5, <1>3
    <3>2. AtHand(y) \/ \E k \in 1 .. (j + 1) - 1 : queue[k] = y
      BY <2>1, <2>5, <3>1, <1>4 DEF Inv, Gapless
    <3>3. ~ AtHand(y)
      BY <1>4, Numbers DEF Inv, AtHand
    <3>4. PICK k \in 1 .. j : queue[k] = y
      BY <3>1, <3>2, <3>3
    <3>5. AtHand(y)' \/ (k # 1 /\ k - 1 \in DOMAIN queue' /\ queue'[k - 1] = y)
      BY <3>4, <3>1, <2>3, <2>5, <1>3
    <3> QED
      BY <3>4, <3>5, <2>5, <1>3
  <2>6. ASSUME NEW j \in DOMAIN frames, NEW y \in Messages, Pos(file) < y, y < frames[j]
        PROVE  AtHand(y)' \/ Queued(y)' \/ \E k \in 1 .. j - 1 : frames[k] = y
    <3>1. AtHand(y) \/ Queued(y) \/ \E k \in 1 .. j - 1 : frames[k] = y
      BY <2>1, <2>6, <1>4 DEF Inv, Gapless
    <3> QED
      BY <3>1, <2>4, <2>6
  <2>7. ASSUME NEW y \in Messages, Pos(file) < y, y <= fed
        PROVE  AtHand(y)' \/ Queued(y)' \/ Unread(y)'
    <3>1. AtHand(y) \/ Queued(y) \/ Unread(y)
      BY <2>1, <2>7, <1>4 DEF Inv, Gapless
    <3>2. Unread(y)' <=> Unread(y)
      BY <1>2 DEF Unread
    <3> QED
      BY <3>1, <3>2, <2>4, <2>7
  <2> QED
    BY <2>2, <2>5, <2>6, <2>7, <1>2 DEF Gapless
<1> QED
  BY <1>6, <1>7, <1>8, <1>9, <1>11, <1>12 DEF Inv

\* A step of the job under way that neither takes from the queue nor ends a
\* turn keeps the types, the phases and what was recovered.
LEMMA JobFrame ==
  ASSUME Inv, UNCHANGED <<kind, file, conn, listed, fed, stale, frames, heard, baseline, replayed,
                          queue, aborted, base>>,
         loaded' \in BOOLEAN, recovered' \in BOOLEAN, done' \in [Messages -> 0 .. 2],
         work' \in WorkType, work'.job \in {0, work.job}, work.pc # "none"
  PROVE  TypeOK' /\ Phases' /\ Ranges' /\ Newest' = Newest
<1>1. Newest' = Newest /\ Newest \in Nat
  BY FilePos DEF Inv, Newest
<1>2. file # NoFile /\ conn \notin Setup \union {"off"}
  BY DEF Inv, Phases, NoWork
<1>3. TypeOK'
  BY <1>1 DEF Inv, TypeOK
<1>4. Phases'
  BY <1>2 DEF Inv, Phases, Setup
<1>5. Ranges'
  BY <1>1 DEF Inv, Ranges
<1> QED
  BY <1>1, <1>3, <1>4, <1>5

\* The listing of a recovery arrives: it covers the whole history.
LEMMA ListStep ==
  ASSUME Inv, ListMissed
  PROVE  Inv'
<1>1. /\ work.pc = "list" /\ file # NoFile
      /\ work' = At("next", work.job, Missed(file), work.cur, FALSE)
  BY ListMoves DEF Inv
<1>2. UNCHANGED <<kind, file, loaded, conn, listed, fed, stale, frames, heard, baseline, replayed,
                  recovered, queue, aborted, done, base>>
  BY DEF ListMissed, socketVars
<1>3. /\ work'.pc = "next" /\ work'.job = work.job /\ work'.left = Missed(file)
      /\ work'.live = FALSE
  BY <1>1, Zenon DEF At
<1>4. /\ Missed(file) \in Seq(Messages)
      /\ Len(Missed(file)) = Newest - Pos(file)
      /\ \A j \in DOMAIN Missed(file) : Missed(file)[j] = Pos(file) + j
      /\ Pos(file) \in Int /\ Newest \in Nat
  BY <1>1, MissedList, FilePos DEF Inv
<1>5. work' \in WorkType
  BY <1>1, <1>4, AtType DEF Inv, TypeOK, WorkType, Stages
<1>6. TypeOK' /\ Phases' /\ Ranges' /\ Newest' = Newest
  BY <1>1, <1>2, <1>3, <1>5, JobFrame DEF Inv, TypeOK
<1>7. Progress'
  BY <1>2, ProgressFrame DEF Inv
<1>8. AtWork'
  <2>1. InHand'
    BY <1>3, Zenon DEF InHand, Consuming
  <2>2. AtNext'
    BY <1>3 DEF AtNext, Consuming
  <2>3. InLine'
    BY <1>2, <1>3, <1>4, <1>6 DEF InLine
  <2> QED
    BY <2>1, <2>2, <2>3 DEF AtWork
<1>9. Gapless'
  <2>1. Reach' = Newest
    BY <1>2, <1>3, <1>4 DEF Reach
  <2>2. work'.job <= Newest + 1 /\ fed <= Newest /\ fed \in Nat
    <3>1. work.job \in Nat /\ work.job <= Newest
      BY Numbers DEF Inv, Ranges
    <3>2. fed \in 0 .. Newest
      BY DEF Inv, TypeOK
    <3> QED
      BY <1>3, <1>4, <3>1, <3>2
  <2>3. /\ \A j \in DOMAIN queue : queue[j] \in Nat /\ queue[j] <= Newest
        /\ \A j \in DOMAIN frames : frames[j] \in Nat /\ frames[j] <= Newest
        /\ \A y \in Messages : y \in Nat
    BY Numbers DEF Inv, Ranges
  <2> QED
    BY <2>1, <2>2, <2>3, <1>2, <1>4 DEF Gapless
<1> QED
  BY <1>6, <1>7, <1>8, <1>9 DEF Inv

\* The next missed message is taken, or the recovery ends.
LEMMA NextStep ==
  ASSUME Inv, NextMissed
  PROVE  Inv'
<1>1. UNCHANGED <<kind, file, loaded, conn, listed, fed, stale, frames, heard, baseline,
                  queue, aborted, done, base>>
  BY DEF NextMissed, socketVars
<1>2. /\ work.pc = "next" /\ replayed' = replayed
      /\ Pos(file) \in Int /\ -1 <= Pos(file) /\ Newest \in Nat /\ Pos(file) <= Newest
      /\ file # NoFile /\ Pos(file) >= 0
      /\ work \in WorkType
  BY NextMoves, FilePos DEF Inv, Phases, TypeOK
<1>3. Progress'
  BY <1>1, ProgressFrame DEF Inv
<1>4. CASE /\ conn = "live" /\ work.left # <<>> /\ recovered' = recovered
           /\ work' = At("chat", work.job, work.left, Pos(file) + 1, FALSE)
  <2>1. /\ work'.pc = "chat" /\ work'.job = work.job /\ work'.left = work.left
        /\ work'.cur = Pos(file) + 1 /\ work'.live = FALSE
    BY <1>4, Zenon DEF At
  <2>2. /\ \A j \in DOMAIN work.left : work.left[j] = Pos(file) + j
        /\ Pos(file) + Len(work.left) <= Newest
    BY <1>2, <1>4 DEF Inv, AtWork, InLine
  <2>3. Pos(file) + 1 \in Messages /\ Pos(file) + 1 <= Newest
    <3>1. work.left \in Seq(Messages)
      BY <1>2 DEF WorkType
    <3>2. Len(work.left) \in Nat /\ 1 <= Len(work.left) /\ DOMAIN work.left = 1 .. Len(work.left)
          /\ work.left[1] \in Messages
      BY <1>4, <3>1, TailFacts
    <3> QED
      BY <1>2, <2>2, <3>2
  <2>4. work' \in WorkType
    BY <1>2, <1>4, <2>3, AtType DEF WorkType, Stages
  <2>5. TypeOK' /\ Phases' /\ Ranges' /\ Newest' = Newest
    BY <1>1, <1>2, <1>4, <2>1, <2>4, JobFrame DEF Inv, TypeOK
  <2>6. AtWork'
    <3>1. InHand'
      BY <2>1, <1>4, Zenon DEF InHand, Consuming
    <3>2. AtNext'
      BY <1>1, <2>1, <2>3, <2>5 DEF AtNext
    <3>3. InLine'
      BY <1>1, <2>1, <2>2, <2>5 DEF InLine
    <3> QED
      BY <3>1, <3>2, <3>3 DEF AtWork
  <2>7. Gapless'
    <3>3. Caught
      <4>1. conn = "live" /\ work.pc = "next"
        BY <1>2, <1>4
      <4> QED
        BY <4>1 DEF Caught
    <3>4. Reach' = Reach
      BY <1>1, <2>1 DEF Reach
    <3>1. Caught /\ Reach' = Reach /\ Reach \in Int
      BY <3>3, <3>4, FilePos, Numbers DEF Reach, Inv
    <3>2. work.job <= Reach + 1
      BY <3>1 DEF Inv, Gapless
    <3> QED
      BY <1>1, <2>1, <3>1, <3>2, GaplessShift
  <2> QED
    BY <1>3, <2>5, <2>6, <2>7 DEF Inv
<1>5. CASE /\ recovered' = TRUE /\ work' = NoWork
           /\ \/ conn # "live"
              \/ work.left = <<>> /\ (work.job \in replayed \/ work.job <= Pos(file) \/ work.job = Replay)
  <2>1. NoWork \in WorkType /\ NoWork.job = 0 /\ NoWork.left = <<>>
    BY DEF NoWork, WorkType, Jobs, Replay
  <2>2. TypeOK' /\ Phases' /\ Ranges' /\ Newest' = Newest
    BY <1>1, <1>2, <1>5, <2>1, JobFrame DEF Inv, TypeOK
  <2>3. AtWork'
    BY <1>5, AtWorkNone
  <2>4. Gapless'
    <3> SUFFICES ASSUME conn = "live" PROVE Gapless'
      BY <1>1, GaplessNot
    <3>1. work.left = <<>> /\ work.job <= Pos(file)
      BY <1>2, <1>5 DEF Inv, Ranges, Replay
    <3>2. Caught /\ Reach' = Pos(file) /\ Reach = Pos(file)
      BY <1>1, <1>2, <1>5, <2>1, <3>1 DEF Caught, Reach
    <3>3. \A y \in Messages : y \in Nat
      BY Numbers DEF Inv
    <3>4. work.job \in Nat
      BY Numbers DEF Inv
    <3> QED
      BY <1>1, <1>2, <1>5, <2>1, <3>1, <3>2, <3>3, <3>4, GaplessShift
  <2> QED
    BY <1>3, <2>2, <2>3, <2>4 DEF Inv
<1>6. CASE /\ conn = "live" /\ work.left = <<>> /\ recovered' = TRUE
           /\ work.job \in Messages /\ work.job > Pos(file)
           /\ work' = At("chat", work.job, <<>>, work.job, TRUE)
  <2>1. /\ work'.pc = "chat" /\ work'.job = work.job /\ work'.left = <<>>
        /\ work'.cur = work.job /\ work'.live = TRUE
    BY <1>6, Zenon DEF At
  <2>2. work' \in WorkType
    BY <1>6, ShortSeq, AtType DEF Stages, Jobs
  <2>3. TypeOK' /\ Phases' /\ Ranges' /\ Newest' = Newest
    BY <1>1, <1>2, <1>6, <2>1, <2>2, JobFrame DEF Inv, TypeOK
  <2>4. Caught /\ Reach = Pos(file) /\ Reach' = Pos(file)
    <3>1. conn = "live" /\ work.pc = "next" /\ work.left = <<>>
      BY <1>2, <1>6
    <3>2. Caught
      BY <3>1 DEF Caught
    <3>3. Reach = Pos(file) /\ Reach' = Pos(file)
      BY <3>1, <1>1, <1>2, <2>1 DEF Reach
    <3> QED
      BY <3>2, <3>3
  <2>5. work.job = Pos(file) + 1 /\ work.job <= Newest
    BY <1>2, <1>6, <2>4, Numbers DEF Inv, Gapless, Ranges
  <2>6. AtWork'
    <3>1. InHand'
      BY <2>1, Zenon DEF InHand, Consuming
    <3>2. AtNext'
      BY <1>1, <2>1, <2>3, <2>5 DEF AtNext
    <3>3. InLine'
      BY <1>1, <1>2, <2>1, <2>3 DEF InLine
    <3> QED
      BY <3>1, <3>2, <3>3 DEF AtWork
  <2>7. Gapless'
    BY <1>1, <1>2, <2>1, <2>4, <2>5, GaplessShift
  <2> QED
    BY <1>3, <2>3, <2>6, <2>7 DEF Inv
<1> QED
  BY <1>4, <1>5, <1>6, NextMoves DEF Inv

\* The chat's data arrives: an inbound message gets its turn, another one does not.
LEMMA TurnStep ==
  ASSUME Inv, BeginTurn
  PROVE  Inv'
<1> DEFINE p == IF kind[work.cur] = "in" THEN "turn" ELSE "ack"
<1>1. /\ work.pc = "chat" /\ work' = [work EXCEPT !.pc = p]
      /\ UNCHANGED <<kind, file, loaded, conn, listed, fed, stale, frames, heard, baseline, replayed,
                     recovered, queue, aborted, done, base>>
  BY DEF BeginTurn, socketVars
<1>2. /\ p \in {"turn", "ack"}
      /\ p = "turn" => kind[work.cur] = "in"
      /\ p = "ack" => kind[work.cur] # "in"
  OBVIOUS
<1> HIDE DEF p
<1>3. work \in WorkType /\ work' = At(p, work.job, work.left, work.cur, work.live)
  BY <1>1, StageMoves DEF Inv, TypeOK
<1>4. /\ work'.pc = p /\ work'.job = work.job /\ work'.left = work.left
      /\ work'.cur = work.cur /\ work'.live = work.live
  BY <1>3, Zenon DEF At
<1>5. work' \in WorkType
  BY <1>2, <1>3, AtType DEF WorkType, Stages
<1>6. TypeOK' /\ Phases' /\ Ranges' /\ Newest' = Newest
  BY <1>1, <1>4, <1>5, JobFrame DEF Inv, TypeOK
<1>7. Progress'
  BY <1>1, ProgressFrame DEF Inv
<1>8. AtWork'
  <2>1. work.pc \in Consuming /\ work'.pc \in Consuming /\ work'.pc \notin {"none", "list"}
    BY <1>1, <1>2, <1>4 DEF Consuming
  <2>2. InHand'
    BY <2>1, <1>4, Zenon DEF Inv, AtWork, InHand
  <2>3. AtNext'
    BY <2>1, <1>1, <1>2, <1>4, <1>6 DEF Inv, AtWork, AtNext
  <2>4. InLine'
    BY <2>1, <1>1, <1>4, <1>6 DEF Inv, AtWork, InLine
  <2> QED
    BY <2>2, <2>3, <2>4 DEF AtWork
<1>9. Gapless'
  <2>1. Caught' => Caught
    BY <1>1 DEF Caught
  <2>2. Reach' = Reach /\ Reach \in Int
    BY <1>1, <1>4, FilePos, Numbers DEF Inv, Reach
  <2>3. Caught => work.job <= Reach + 1
    BY DEF Inv, Gapless
  <2> QED
    BY <1>1, <1>4, <2>1, <2>2, <2>3, GaplessShift
<1> QED
  BY <1>6, <1>7, <1>8, <1>9 DEF Inv

\* The job after a message, with the checkpoint at that message or, when a shutdown
\* has interrupted the turn, where it was.
LEMMA AfterStep ==
  ASSUME Inv, AfterConsume, work.pc \in Consuming, Progress',
         UNCHANGED <<kind, conn, listed, fed, stale, frames, heard, baseline, recovered,
                     queue, aborted, done, base>>,
         loaded' \in BOOLEAN, file' \in Checkpoints, file'.uid <= Newest, file' # NoFile,
         file' = file \/ Pos(file') = work.cur,
         conn = "live" => Pos(file') = work.cur
  PROVE  Inv'
<1>1. /\ file # NoFile /\ Pos(file) \in Nat /\ work.cur = Pos(file) + 1 /\ work.cur \in Messages
      /\ work.cur <= Newest /\ 1 <= work.cur /\ conn \in {"live", "closing"}
  BY ConsumingFacts
<1>2. Newest' = Newest /\ Newest \in Nat /\ work \in WorkType
  BY FilePos DEF Inv, Newest, TypeOK
<1>3. /\ NoWork \in WorkType /\ NoWork.pc = "none" /\ NoWork.job = 0 /\ NoWork.left = <<>>
  BY DEF NoWork, WorkType, Jobs, Replay
<1>4. \/ work.live /\ work' = NoWork /\ replayed' = replayed
      \/ /\ ~ work.live
         /\ work' = At("next", work.job, Tail(work.left), work.cur, FALSE)
         /\ replayed' = replayed \union {work.cur}
  BY AfterMoves DEF Inv
<1>5. ASSUME ~ work.live, work' = At("next", work.job, Tail(work.left), work.cur, FALSE)
      PROVE  /\ work' \in WorkType /\ work'.pc = "next" /\ work'.job = work.job
             /\ work'.left = Tail(work.left) /\ work'.cur = work.cur /\ work'.live = FALSE
             /\ work.left \in Seq(Messages) /\ work.left # <<>>
  <2>1. work.left \in Seq(Messages) /\ work.left # <<>>
    BY <1>2, <1>5 DEF Inv, AtWork, InHand, WorkType
  <2>2. Tail(work.left) \in Seq(Messages)
    BY <2>1, TailFacts
  <2>3. work' \in WorkType
    BY <1>2, <1>5, <2>2, AtType DEF WorkType, Stages
  <2>4. /\ work'.pc = "next" /\ work'.job = work.job
        /\ work'.left = Tail(work.left) /\ work'.cur = work.cur /\ work'.live = FALSE
    BY <1>5, Zenon DEF At
  <2> QED
    BY <2>1, <2>3, <2>4
<1>6. /\ work' \in WorkType /\ work'.job \in {0, work.job} /\ replayed' \subseteq replayed \union {work.cur}
  <2>1. CASE work.live /\ work' = NoWork /\ replayed' = replayed
    BY <2>1, <1>3
  <2>2. CASE /\ ~ work.live /\ work' = At("next", work.job, Tail(work.left), work.cur, FALSE)
             /\ replayed' = replayed \union {work.cur}
    BY <2>2, <1>5
  <2> QED
    BY <1>4, <2>1, <2>2
<1>7. TypeOK'
  BY <1>1, <1>2, <1>6 DEF Inv, TypeOK
<1>8. Phases'
  BY <1>1 DEF Inv, Phases, Setup
<1>9. Ranges'
  <2>1. conn = "live" => \A m \in replayed' : m <= Pos(file')
    <3> SUFFICES ASSUME conn = "live", NEW m \in replayed' PROVE m <= Pos(file')
      OBVIOUS
    <3>1. Pos(file') = work.cur
      OBVIOUS
    <3>2. CASE m = work.cur
      BY <3>1, <3>2, <1>1
    <3>3. CASE m \in replayed
      <4>1. m \in Nat /\ m <= Pos(file)
        BY <3>3, Numbers DEF Inv, Ranges, TypeOK
      <4> QED
        BY <4>1, <3>1, <1>1
    <3> QED
      BY <3>2, <3>3, <1>6
  <2>2. work'.job <= Newest
    BY <1>2, <1>6 DEF Inv, Ranges
  <2> QED
    BY <1>2, <2>1, <2>2 DEF Inv, Ranges
<1>10. AtWork' /\ Gapless'
  <2>1. CASE work.live /\ work' = NoWork
    <3>1. work.job = work.cur /\ work.left = <<>>
      BY <2>1 DEF Inv, AtWork, InHand
    <3>2. AtWork'
      BY <2>1, AtWorkNone
    <3>3. Gapless'
      <4> SUFFICES ASSUME conn = "live" PROVE Gapless'
        BY GaplessNot
      <4>1. Reach = Pos(file) /\ Reach' = work.cur /\ work'.job = 0
        BY <2>1, <3>1, <1>1, <1>3 DEF Reach
      <4>2. Caught
        BY DEF Caught, Consuming
      <4>3. \A y \in Messages : y \in Nat
        BY Numbers DEF Inv
      <4> QED
        BY <3>1, <4>1, <4>2, <4>3, <1>1, GaplessShift
    <3> QED
      BY <3>2, <3>3
  <2>2. CASE ~ work.live /\ work' = At("next", work.job, Tail(work.left), work.cur, FALSE)
    <3>1. /\ work'.pc = "next" /\ work'.job = work.job
          /\ work'.left = Tail(work.left) /\ work'.cur = work.cur /\ work'.live = FALSE
          /\ work.left \in Seq(Messages) /\ work.left # <<>>
      BY <2>2, <1>5
    <3>2. /\ Len(work.left) \in Nat /\ DOMAIN work.left = 1 .. Len(work.left)
          /\ DOMAIN work'.left = 1 .. Len(work.left) - 1 /\ Len(work'.left) = Len(work.left) - 1
          /\ \A k \in 1 .. Len(work.left) - 1 : work'.left[k] = work.left[k + 1]
      BY <3>1, TailFacts
    <3>3. /\ \A j \in DOMAIN work.left : work.left[j] = Pos(file) + j
          /\ Pos(file) + Len(work.left) <= Newest
      BY DEF Inv, AtWork, InLine
    <3>4. InHand'
      BY <3>1, Zenon DEF InHand, Consuming
    <3>5. AtNext'
      BY <3>1 DEF AtNext, Consuming
    <3>6. InLine'
      <4> SUFFICES ASSUME conn = "live"
                   PROVE  /\ \A j \in DOMAIN work'.left : work'.left[j] = Pos(file') + j
                          /\ Pos(file') + Len(work'.left) <= Newest'
        BY <3>1 DEF InLine, Consuming
      <4>1. Pos(file') = Pos(file) + 1
        BY <1>1
      <4>2. ASSUME NEW j \in DOMAIN work'.left PROVE work'.left[j] = Pos(file') + j
        <5>1. j \in Nat /\ j + 1 \in DOMAIN work.left /\ work'.left[j] = work.left[j + 1]
          BY <4>2, <3>2
        <5>2. work.left[j + 1] = Pos(file) + (j + 1)
          BY <5>1, <3>3
        <5> DEFINE a == Pos(file)
                   b == Pos(file')
        <5>3. a \in Int /\ b = a + 1
          BY <4>1, <1>1
        <5>4. work'.left[j] = a + (j + 1)
          BY <5>1, <5>2
        <5> HIDE DEF a, b
        <5>5. work'.left[j] = b + j
          BY <5>1, <5>3, <5>4
        <5> QED
          BY <5>5 DEF b
      <4>3. Pos(file') + Len(work'.left) <= Newest'
        <5> DEFINE a == Pos(file)
                   b == Pos(file')
                   n == Len(work'.left)
        <5>1. a \in Int /\ b = a + 1
          BY <4>1, <1>1
        <5>2. n + 1 \in Nat /\ n \in Int /\ a + (n + 1) <= Newest /\ Newest \in Nat
          BY <3>2, <3>3, <1>2
        <5> HIDE DEF a, b, n
        <5>3. b + n <= Newest
          BY <5>1, <5>2
        <5> QED
          BY <5>3, <1>2 DEF b, n
      <4> QED
        BY <4>2, <4>3
    <3>7. Gapless'
      <4> SUFFICES ASSUME conn = "live" PROVE Gapless'
        BY GaplessNot
      <4>4. Pos(file') = Pos(file) + 1
        BY <1>1
      <4>1. Reach' = Reach /\ Reach \in Int
        <5> DEFINE a == Pos(file)
                   b == Pos(file')
                   n == Len(work'.left)
                   k == Len(work.left)
        <5>1. a \in Int /\ b = a + 1 /\ k \in Int /\ n = k - 1
          BY <4>4, <3>2, <1>1
        <5>2. Reach = a + k /\ Reach' = b + n
          BY DEF Reach
        <5> HIDE DEF a, b, n, k
        <5> QED
          BY <5>1, <5>2
      <4>2. Caught
        BY DEF Caught, Consuming
      <4>3. work.job <= Reach + 1
        BY <4>2 DEF Inv, Gapless
      <4> QED
        BY <3>1, <4>1, <4>2, <4>3, GaplessShift
    <3> QED
      BY <3>4, <3>5, <3>6, <3>7 DEF AtWork
  <2> QED
    BY <1>4, <2>1, <2>2
<1> QED
  BY <1>7, <1>8, <1>9, <1>10 DEF Inv

\* The turn ends: it will be acknowledged, unless a shutdown has interrupted it.
LEMMA EndTurnStep ==
  ASSUME Inv, NEW outcome, EndTurn(outcome)
  PROVE  Inv'
<1>1. /\ work.pc = "turn" /\ work.pc \in Consuming
      /\ UNCHANGED <<kind, file, loaded, conn, listed, fed, stale, frames, heard, baseline,
                     recovered, queue, aborted, base>>
  BY DEF EndTurn, socketVars, Consuming
<1>2. /\ file # NoFile /\ Pos(file) \in Nat /\ work.cur = Pos(file) + 1 /\ work.cur \in Messages
      /\ work.cur <= Newest /\ 1 <= work.cur /\ conn \in {"live", "closing"}
  BY <1>1, ConsumingFacts
<1>3. CASE outcome = "incomplete" /\ aborted
  <2>1. AfterConsume /\ done' = done
    BY <1>3 DEF EndTurn
  <2>2. conn # "live"
    BY <1>3 DEF Inv, Phases
  <2>3. Progress'
    BY <1>1, <2>1, ProgressFrame DEF Inv
  <2> QED
    BY <1>1, <1>2, <2>1, <2>2, <2>3, AfterStep DEF Inv, TypeOK
<1>4. CASE ~ (outcome = "incomplete" /\ aborted)
  <2>1. /\ work' = [work EXCEPT !.pc = "ack"] /\ replayed' = replayed
        /\ done' = [done EXCEPT ![work.cur] = IF @ = 0 THEN 1 ELSE 2]
    BY <1>4 DEF EndTurn
  <2>2. work \in WorkType /\ work' = At("ack", work.job, work.left, work.cur, work.live)
    BY <2>1, StageMoves DEF Inv, TypeOK
  <2>3. /\ work'.pc = "ack" /\ work'.job = work.job /\ work'.left = work.left
        /\ work'.cur = work.cur /\ work'.live = work.live
    BY <2>2, Zenon DEF At
  <2>4. work' \in WorkType
    BY <2>2, AtType DEF WorkType, Stages
  <2>5. /\ done \in [Messages -> 0 .. 2] /\ done' \in [Messages -> 0 .. 2]
        /\ done'[work.cur] > 0
        /\ \A m \in Messages : m # work.cur => done'[m] = done[m]
    BY <2>1, <1>2 DEF Inv, TypeOK
  <2>6. TypeOK' /\ Phases' /\ Ranges' /\ Newest' = Newest
    BY <1>1, <2>1, <2>3, <2>4, <2>5, JobFrame DEF Inv, TypeOK
  <2>7. Progress'
    <3>1. ASSUME NEW m \in Owed', m <= Pos(file) PROVE done'[m] > 0
      <4>1. m \in Owed /\ m \in Messages
        BY <1>1, <2>6, FilePos, TransportAssumption DEF Inv, Owed, Messages
      <4>2. done[m] > 0
        BY <3>1, <4>1, <1>2 DEF Inv, Progress, NothingSkipped
      <4> QED
        BY <4>1, <4>2, <2>5
    <3>2. ASSUME NEW m \in Messages, done'[m] > 0 PROVE m <= Pos(file) + 1
      BY <3>2, <2>5, <1>2, Numbers DEF Inv, Progress
    <3>3. file # NoFile /\ conn # "late"
      BY <1>2
    <3> QED
      BY <3>1, <3>2, <3>3, <1>1 DEF Progress, NothingSkipped
  <2>8. AtWork'
    <3>1. work'.pc \in Consuming /\ work'.pc \notin {"none", "list"}
      BY <2>3 DEF Consuming
    <3>2. InHand'
      BY <3>1, <1>1, <2>3, Zenon DEF Inv, AtWork, InHand
    <3>3. AtNext'
      BY <1>1, <1>2, <2>3, <2>5, <2>6 DEF AtNext
    <3>4. InLine'
      BY <3>1, <1>1, <2>3, <2>6 DEF Inv, AtWork, InLine
    <3> QED
      BY <3>2, <3>3, <3>4 DEF AtWork
  <2>9. Gapless'
    <3>1. Caught' => Caught
      BY <1>1 DEF Caught
    <3>2. Reach' = Reach /\ Reach \in Int
      BY <1>1, <2>3, FilePos, Numbers DEF Inv, Reach
    <3>3. Caught => work.job <= Reach + 1
      BY DEF Inv, Gapless
    <3> QED
      BY <1>1, <2>3, <3>1, <3>2, <3>3, GaplessShift
  <2> QED
    BY <2>6, <2>7, <2>8, <2>9 DEF Inv
<1> QED
  BY <1>3, <1>4

\* The checkpoint moves to the message that has been consumed.
LEMMA AckStep ==
  ASSUME Inv, Ack
  PROVE  Inv'
<1>1. /\ work.pc = "ack" /\ work.pc \in Consuming /\ AfterConsume
      /\ file' = Plain(work.cur) /\ loaded' = TRUE
      /\ UNCHANGED <<kind, conn, listed, fed, stale, frames, heard, baseline,
                     recovered, queue, aborted, done, base>>
  BY DEF Ack, socketVars, Consuming
<1>2. /\ file # NoFile /\ Pos(file) \in Nat /\ work.cur = Pos(file) + 1 /\ work.cur \in Messages
      /\ work.cur <= Newest /\ 1 <= work.cur /\ work.cur \in Int /\ conn # "late"
  BY <1>1, ConsumingFacts
<1>3. /\ file' \in Checkpoints /\ file'.uid <= Newest /\ file' # NoFile /\ Pos(file') = work.cur
  BY <1>1, <1>2, Checkpoint
<1>4. Progress'
  <2>1. ASSUME NEW m \in Owed', m <= Pos(file') PROVE done'[m] > 0
    <3>1. m \in Owed /\ m \in Nat /\ kind[m] = "in"
      BY <1>1, FilePos DEF Inv, Owed, Newest
    <3>2. CASE m = work.cur
      BY <3>1, <3>2, <1>1 DEF Inv, AtWork, AtNext
    <3>3. CASE m # work.cur
      <4>1. m <= Pos(file)
        BY <2>1, <3>1, <3>3, <1>2, <1>3
      <4> QED
        BY <3>1, <4>1, <1>1, <1>2 DEF Inv, Progress, NothingSkipped
    <3> QED
      BY <3>2, <3>3
  <2>2. ASSUME NEW m \in Messages, done'[m] > 0 PROVE m <= Pos(file') + 1
    BY <2>2, <1>1, <1>2, <1>3, Numbers DEF Inv, Progress
  <2> QED
    BY <2>1, <2>2, <1>1, <1>2, <1>3 DEF Progress, NothingSkipped
<1> QED
  BY <1>1, <1>2, <1>3, <1>4, AfterStep

-----------------------------------------------------------------------------
(***************************************************************************)
(* The theorems.                                                           *)
(***************************************************************************)
\* Nothing has happened initially.
LEMMA InitInv == Init => Inv
<1> SUFFICES ASSUME Init PROVE Inv
  OBVIOUS
<1>1. /\ file = NoFile /\ conn = "off" /\ work = NoWork /\ queue = <<>> /\ frames = <<>>
      /\ done = [m \in Messages |-> 0]
  BY DEF Init
<1>2. kind \in Seq({"in", "out"}) /\ Newest \in Nat /\ Newest <= 1
  <2>1. CASE kind = <<>>
    BY <2>1 DEF Newest
  <2>2. ASSUME NEW k \in {"in", "out"}, kind = <<k>>
        PROVE  kind \in Seq({"in", "out"}) /\ Newest \in Nat /\ Newest <= 1
    BY <2>2, ShortSeq DEF Newest
  <2> QED
    BY <2>1, <2>2 DEF Init
<1>3. NoFile \in Checkpoints /\ NoFile.uid = -1
  BY TransportAssumption DEF NoFile, Plain, Checkpoints
<1>4. NoWork \in WorkType /\ NoWork.job = 0
  BY DEF NoWork, WorkType, Jobs, Replay
<1>5. TypeOK
  <2>1. /\ kind \in Seq({"in", "out"}) /\ Newest <= MaxMessages /\ 0 \in 0 .. Newest
        /\ -1 <= Newest /\ 0 \in 0 .. MaxStale /\ -1 \in -1 .. MaxMessages
    BY <1>2, TransportAssumption
  <2>2. frames \in Seq(Messages) /\ queue \in Seq(Jobs)
    BY <1>1, ShortSeq
  <2>3. done \in [Messages -> 0 .. 2]
    BY <1>1
  <2> QED
    BY <1>1, <1>3, <1>4, <2>1, <2>2, <2>3 DEF Init, TypeOK
<1>6. Phases
  BY <1>1 DEF Init, Phases, Setup, NoWork
<1>7. Ranges
  BY <1>1, <1>2, <1>4 DEF Init, Ranges
<1>8. Progress
  BY <1>1 DEF Progress, NothingSkipped
<1>9. AtWork
  BY <1>1 DEF AtWork, InHand, AtNext, InLine, NoWork, Consuming
<1>10. Gapless
  BY <1>1 DEF Gapless, Caught
<1> QED
  BY <1>5, <1>6, <1>7, <1>8, <1>9, <1>10 DEF Inv

\* Inv is inductive.
LEMMA NextInv == Inv /\ [Next]_vars => Inv'
<1> SUFFICES ASSUME Inv, [Next]_vars PROVE Inv'
  OBVIOUS
<1>1. CASE Plow
  BY <1>1, ArriveStep, FeedSteps DEF Plow
<1>2. CASE Socket
  BY <1>2, SetupSteps, ReadFrameStep, LostSteps DEF Socket
<1>3. CASE Job
  BY <1>3, StartJobStep, ListStep, NextStep, TurnStep, AckStep, EndTurnStep DEF Job
<1>4. CASE Restart \/ Fault
  BY <1>4, LostSteps DEF Fault
<1>5. CASE UNCHANGED vars
  <2>1. UNCHANGED <<kind, file, loaded, conn, listed, fed, stale, frames, heard, baseline,
                    replayed, recovered, queue, work, aborted, done, base>>
    BY <1>5 DEF vars, socketVars, jobVars
  <2>2. TypeOK' /\ Phases' /\ Ranges'
    BY <2>1 DEF Inv, TypeOK, Phases, Ranges, Newest, Pos
  <2>3. Progress' /\ AtWork' /\ Gapless'
    BY <2>1, ProgressFrame, AtWorkFrame, GaplessFrame DEF Inv
  <2> QED
    BY <2>2, <2>3 DEF Inv
<1> QED
  BY <1>1, <1>2, <1>3, <1>4, <1>5 DEF Next

\* Inv is an invariant.
LEMMA Invariance == Spec => []Inv
  BY InitInv, NextInv, PTL DEF Spec

\* Types: connection, queue, jobs, checkpoint and history stay well formed, for a
\* history of any length and any number of repeated frames.
THEOREM TypeCorrect == Spec => []TypeOK
<1>1. Inv => TypeOK
  BY DEF Inv
<1> QED
  BY <1>1, Invariance, PTL

\* The checkpoint of a chat never passes a message that has not had its turn: what
\* recover, the frames and the queue of the listener hand over has no gap.
THEOREM NoneSkipped == Spec => []NothingSkipped
<1>1. Inv => NothingSkipped
  BY DEF Inv, Progress
<1> QED
  BY <1>1, Invariance, PTL

\* transport.ts:7-8: at most one turn that came to its end is not behind the
\* checkpoint, so at most one is repeated after a crash or a failed write.
THEOREM OneAtRisk == Spec => []OneTurnAtRisk
<1>1. ASSUME Inv PROVE OneTurnAtRisk
  <2> SUFFICES ASSUME file # NoFile
               PROVE  Cardinality({m \in Owed : m > Pos(file) /\ done[m] > 0}) <= 1
    BY DEF OneTurnAtRisk
  <2> DEFINE S == {m \in Owed : m > Pos(file) /\ done[m] > 0}
  <2>1. S \subseteq {Pos(file) + 1}
    <3> SUFFICES ASSUME NEW m \in S PROVE m = Pos(file) + 1
      OBVIOUS
    <3>1. m \in Messages /\ m \in Nat
      BY <1>1, FilePos, TransportAssumption DEF Inv, Owed, Messages
    <3> QED
      BY <1>1, <3>1, FilePos DEF Inv, Progress
  <2> HIDE DEF S
  <2>2. S = {} \/ S = {Pos(file) + 1}
    BY <2>1
  <2>3. Cardinality(S) = 0 \/ Cardinality(S) = 1
    BY <2>2, FS_EmptySet, FS_Singleton
  <2> QED
    BY <2>3 DEF S
<1> QED
  BY <1>1, Invariance, PTL

\* A turn begins with the chat's data, at the next message.
LEMMA TurnBegins ==
  ASSUME Inv, [Next]_vars, work.pc # "turn", work'.pc = "turn"
  PROVE  work.pc = "chat" /\ work'.cur = work.cur /\ kind[work.cur] = "in"
<1>1. CASE BeginTurn
  <2>1. /\ work.pc = "chat"
        /\ work' = [work EXCEPT !.pc = IF kind[work.cur] = "in" THEN "turn" ELSE "ack"]
    BY <1>1 DEF BeginTurn
  <2>2. work \in WorkType
    BY DEF Inv, TypeOK
  <2> QED
    BY <2>1, <2>2 DEF WorkType
<1>2. work' # work /\ work' # NoWork
  BY DEF NoWork
<1>3. CASE StartJob
  <2>1. work'.pc \in {"list", "none", "chat"}
    <3>1. \E q \in Jobs : \/ work' = At("list", q, <<>>, 0, FALSE) \/ work' = NoWork
                          \/ work' = At("chat", q, <<>>, q, TRUE)
      BY <1>3, StartJobMoves DEF Inv
    <3> QED
      BY <3>1 DEF At, NoWork
  <2> QED
    BY <2>1
<1>4. CASE ListMissed \/ NextMissed
  <2>1. work'.pc \in {"next", "none", "chat"}
    <3>1. \E j, l, c, v : \/ work' = At("next", j, l, c, v) \/ work' = NoWork
                          \/ work' = At("chat", j, l, c, v)
      BY <1>4, ListMoves, NextMoves DEF Inv
    <3> QED
      BY <3>1 DEF At, NoWork
  <2> QED
    BY <2>1
<1>5. CASE Ack
  <2>1. AfterConsume
    BY <1>5 DEF Ack
  <2>2. work' = NoWork \/ work' = At("next", work.job, Tail(work.left), work.cur, FALSE)
    BY <2>1, AfterMoves DEF Inv
  <2> QED
    BY <2>2 DEF At, NoWork
<1>6. ASSUME NEW outcome, EndTurn(outcome) PROVE FALSE
  BY <1>6 DEF EndTurn
<1>7. CASE Plow \/ Socket \/ Restart \/ Fault \/ UNCHANGED vars
  <2>1. work' = work \/ work' = NoWork
    BY <1>7 DEF Plow, Arrive, Feed, FeedStale, Carry, Socket, Connect, Listing, AckBaseline, ReadNewest,
       AckLate, ReadFrame, Closed, Restart, Forget, Fault, Disconnect, FailRead, FailAck, Failed, Abort,
       Crash, vars, jobVars
  <2> QED
    BY <2>1, <1>2
<1> QED
  BY <1>1, <1>3, <1>4, <1>5, <1>6, <1>7 DEF Next, Job

\* transport.ts:5-6: turns begin in the order of the history, each after all the
\* owed turns before it and before all those after it.
THEOREM InOrder == Spec => TurnsInOrder
<1> DEFINE Ordered == \A m \in Owed : work.pc # "turn" /\ work'.pc = "turn" /\ m # work'.cur =>
                        (done[m] > 0 <=> m < work'.cur)
<1>1. ASSUME Inv, [Next]_vars PROVE [Ordered]_vars
  <2> SUFFICES ASSUME NEW m \in Owed, work.pc # "turn", work'.pc = "turn", m # work'.cur
               PROVE  done[m] > 0 <=> m < work'.cur
    OBVIOUS
  <2>1. work.pc \in Consuming /\ work'.cur = work.cur
    BY <1>1, TurnBegins DEF Consuming
  <2>2. file # NoFile /\ Pos(file) \in Nat /\ work.cur = Pos(file) + 1
    BY <1>1, <2>1, ConsumingFacts
  <2>3. m \in Messages /\ m \in Nat
    BY <1>1, FilePos, TransportAssumption DEF Inv, Owed, Messages
  <2>4. ASSUME m < work.cur PROVE done[m] > 0
    BY <1>1, <2>2, <2>3, <2>4 DEF Inv, Progress, NothingSkipped
  <2>5. ASSUME done[m] > 0 PROVE m < work.cur
    BY <1>1, <2>1, <2>2, <2>3, <2>5 DEF Inv, Progress
  <2> QED
    BY <2>1, <2>4, <2>5
<1> QED
  BY <1>1, Invariance, PTL DEF TurnsInOrder, Spec

\* transport.ts:2-3: once the first checkpoint is settled, it never moves back.
THEOREM NeverBack == Spec => NeverBackwards
<1> DEFINE Forward == file # NoFile /\ conn # "late" => Pos(file') >= Pos(file)
<1>1. ASSUME Inv, [Next]_vars PROVE [Forward]_vars
  <2> SUFFICES ASSUME file # NoFile, conn # "late" PROVE Pos(file') >= Pos(file)
    OBVIOUS
  <2>1. Pos(file) \in Int
    BY <1>1, FilePos DEF Inv
  <2>2. CASE Ack
    <3>1. work.pc \in Consuming /\ file' = Plain(work.cur)
      BY <2>2 DEF Ack, Consuming
    <3>2. work.cur = Pos(file) + 1 /\ work.cur \in Nat
      BY <1>1, <3>1, ConsumingFacts
    <3> QED
      BY <2>1, <3>1, <3>2, Checkpoint
  <2>3. file' = file \/ Ack
    <3>1. ~ AckBaseline /\ ~ AckLate
      BY <1>1 DEF AckBaseline, AckLate, Inv, Phases
    <3>2. CASE ReadFrame
      BY <3>2 DEF ReadFrame
    <3>3. CASE Plow \/ Connect \/ (\E shown \in BOOLEAN : Listing(shown))
               \/ (\E ownerChat \in BOOLEAN : ReadNewest(ownerChat)) \/ Closed
      BY <3>3 DEF Plow, Arrive, Feed, FeedStale, Carry, Connect, Listing, ReadNewest, Closed
    <3>4. CASE Job
      BY <3>4 DEF Job, StartJob, ListMissed, NextMissed, BeginTurn, EndTurn
    <3>5. CASE Restart \/ Fault \/ UNCHANGED vars
      BY <3>5 DEF Restart, Forget, Fault, Disconnect, FailRead, FailAck, Abort, Crash, vars
    <3> QED
      BY <1>1, <3>1, <3>2, <3>3, <3>4, <3>5 DEF Next, Socket
  <2> QED
    BY <2>1, <2>2, <2>3
<1> QED
  BY <1>1, Invariance, PTL DEF NeverBackwards, Spec

=============================================================================
