----------------------------- MODULE Transport -----------------------------
(***************************************************************************)
(* How the messages of a Plow chat become turns of the agent               *)
(* (plugin/transport.ts, listen of the chat account): connecting, the      *)
(* first checkpoint of a chat, recovery of what was missed, live frames,   *)
(* the chat's queue, the turn and its acknowledgement, lost connections,   *)
(* shutdowns and crashes.                                                  *)
(*                                                                         *)
(* One chat is modelled. Chats share a connection, four slots and the      *)
(* first error of a queue: for this chat another one is a delay or a       *)
(* disconnection, and both may happen here at any time.                    *)
(*                                                                         *)
(* Messages are numbered in the order of the chat's history, which an HTTP *)
(* listing always shows up to the present. The socket carries a frame for  *)
(* each message that arrives while it is open, in order and possibly late, *)
(* and may repeat older ones. The set `seen` of the code only spares       *)
(* look-ups (it forgets, and what it holds is behind the checkpoint), so   *)
(* it is left out; the chat stays one that the account accepts.            *)
(***************************************************************************)
EXTENDS Integers, Sequences, FiniteSets

CONSTANTS
  MaxMessages,  \* bound on the history, which may begin with a message
  MaxStale      \* bound on repeated frames

ASSUME TransportAssumption == MaxMessages \in Nat \ {0} /\ MaxStale \in Nat

VARIABLES
  kind,       \* the history: "in" for inbound messages, "out" for the agent's own
  file,       \* the checkpoint file of the chat, NoFile if there is none
  loaded,     \* whether `checkpoints` holds it
  conn,       \* where the connection is
  listed,     \* whether the chat was in this connection's listing
  fed,        \* the last message whose frame the socket carried
  stale,      \* repeated frames so far
  frames,     \* frames not read yet
  heard,      \* the first frame tracked before the baseline is settled, 0 if none
  baseline,   \* the checkpoint being established
  replayed,   \* messages recovered on this connection
  recovered,  \* whether the chat has been recovered on this connection
  queue,      \* the chat's jobs: a frame's message, or Replay
  work,       \* the job under way
  aborted,    \* the process is shutting down
  done,       \* how often the turn of a message came to its end, 2 for more
  base        \* messages up to this one were there before the first checkpoint

socketVars == <<conn, listed, fed, stale, frames, heard, baseline>>
jobVars    == <<replayed, recovered, queue, work>>
vars == <<kind, file, loaded, socketVars, jobVars, aborted, done, base>>

Messages == 1 .. MaxMessages
Replay   == 0

Plain(m)  == [first |-> FALSE, uid |-> m]
First(m)  == [first |-> TRUE, uid |-> m]     \* "first:<uid>": m itself is included
NoFile    == Plain(-1)

\* The last message a checkpoint covers.
Pos(c) == IF c.first THEN c.uid - 1 ELSE c.uid

NoWork == [pc |-> "none", job |-> Replay, left |-> <<>>, cur |-> 0, live |-> FALSE]

Newest    == Len(kind)
Connected == conn \notin {"off", "closing"}
Accepting == conn = "live"

-----------------------------------------------------------------------------
(***************************************************************************)
(* Plow.                                                                   *)
(***************************************************************************)
Arrive(k) ==
  /\ Newest < MaxMessages
  /\ kind' = Append(kind, k)
  /\ UNCHANGED <<file, loaded, socketVars, jobVars, aborted, done, base>>

\* The socket carries a frame. Until the baseline is settled, frames are also
\* tracked, of which the first matters.
Carry(m) ==
  /\ frames' = Append(frames, m)
  /\ heard' = IF heard = 0 /\ conn # "live" THEN m ELSE heard
  /\ UNCHANGED <<kind, file, loaded, conn, listed, baseline, jobVars, aborted, done, base>>

Feed == Connected /\ fed < Newest /\ fed' = fed + 1 /\ UNCHANGED stale /\ Carry(fed + 1)

FeedStale(m) ==
  /\ Connected /\ m <= fed /\ stale < MaxStale
  /\ stale' = stale + 1
  /\ UNCHANGED fed
  /\ Carry(m)

-----------------------------------------------------------------------------
(***************************************************************************)
(* The connection.                                                         *)
(***************************************************************************)
Connect ==
  /\ conn = "off"
  /\ conn' = "open"
  /\ fed' = Newest
  /\ frames' = <<>>
  /\ heard' = 0
  /\ replayed' = {}
  /\ recovered' = FALSE
  /\ UNCHANGED <<kind, file, loaded, listed, stale, baseline, queue, work, aborted, done, base>>

\* Every connection recovers the listed chats first.
Opening_Once == IF loaded THEN <<>> ELSE <<Replay>>
Opening == <<Replay>>

\* The chat listing arrives. A chat without a checkpoint gets one first.
Listing(shown) ==
  /\ conn = "open"
  /\ listed' = shown
  /\ IF shown /\ file = NoFile
     THEN conn' = "baseline" /\ UNCHANGED <<loaded, queue>>
     ELSE /\ conn' = "live"
          /\ loaded' = (loaded \/ shown)
          /\ queue' = IF shown THEN Opening ELSE queue
  /\ UNCHANGED <<kind, file, fed, stale, frames, heard, baseline, replayed, recovered, work,
                 aborted, done, base>>

\* earliestUnansweredOwnerMessage: the first of the newest messages that are
\* all inbound.
Unanswered_Off(m) == (CHOOSE j \in 1 .. m : (\A i \in j .. m : kind[i] = "in")
                                            /\ (j = 1 \/ kind[j - 1] # "in")) - 1
Unanswered(m) == CHOOSE j \in 1 .. m : (\A i \in j .. m : kind[i] = "in")
                                       /\ (j = 1 \/ kind[j - 1] # "in")

\* The newest message arrives: what the owner wrote last is still to be
\* answered, any other history is past. Which chat is the owner's depends on
\* the participants of the chats listed (findOwnerChat).
ReadNewest(ownerChat) ==
  /\ conn = "baseline"
  /\ conn' = "buffered"
  /\ baseline' = IF ownerChat /\ Newest > 0 /\ kind[Newest] = "in"
                 THEN First(Unanswered(Newest)) ELSE Plain(Newest)
  /\ UNCHANGED <<kind, file, loaded, listed, fed, stale, frames, heard, jobVars, aborted,
                 done, base>>

SetBaseline(c) ==
  /\ file' = c
  /\ base' = Pos(c)
  /\ loaded' = TRUE

\* A frame that has come meanwhile moves the checkpoint back to its message.
AckBaseline ==
  /\ conn = "buffered"
  /\ conn' = "late"
  /\ SetBaseline(IF heard # 0 /\ (~ baseline.first \/ heard < baseline.uid)
                 THEN First(heard) ELSE baseline)
  /\ UNCHANGED <<kind, listed, fed, stale, frames, heard, baseline, jobVars, aborted, done>>

\* So does a first frame that came while the checkpoint was written. The
\* baseline is settled; the chat's recovery is queued.
AckLate ==
  /\ conn = "late"
  /\ conn' = "live"
  /\ IF ~ file.first /\ heard # 0 THEN SetBaseline(First(heard))
                                  ELSE UNCHANGED <<file, base, loaded>>
  /\ queue' = Opening
  /\ UNCHANGED <<kind, listed, fed, stale, frames, heard, baseline, replayed, recovered, work,
                 aborted, done>>

\* The frame loop: discovery is written down before the frame is queued.
ReadFrame ==
  /\ Accepting /\ frames # <<>>
  /\ frames' = Tail(frames)
  /\ IF Head(frames) \in replayed
     THEN UNCHANGED <<file, base, loaded, queue>>
     ELSE /\ queue' = Append(queue, Head(frames))
          /\ IF file = NoFile
             THEN SetBaseline(First(Head(frames)))
             ELSE loaded' = TRUE /\ UNCHANGED <<file, base>>
  /\ UNCHANGED <<kind, conn, listed, fed, stale, heard, baseline, replayed, recovered, work,
                 aborted, done>>

\* The socket is lost. Jobs that have not begun are dropped.
Lose ==
  /\ conn' = "closing"
  /\ frames' = <<>>
  /\ queue' = <<>>

Disconnect ==
  /\ Connected
  /\ Lose
  /\ UNCHANGED <<kind, file, loaded, listed, fed, stale, heard, baseline, replayed, recovered,
                 work, aborted, done, base>>

\* The next connection waits for the job under way.
Closed ==
  /\ conn = "closing" /\ work.pc = "none" /\ ~ aborted
  /\ conn' = "off"
  /\ UNCHANGED <<kind, file, loaded, listed, fed, stale, frames, heard, baseline, jobVars,
                 aborted, done, base>>

-----------------------------------------------------------------------------
(***************************************************************************)
(* Jobs.                                                                   *)
(***************************************************************************)
\* recover: the messages after a checkpoint, oldest first.
Missed_Newest(c) == [j \in 1 .. Newest - Pos(c) |-> Newest + 1 - j]
Missed(c) == [j \in 1 .. Newest - Pos(c) |-> Pos(c) + j]

\* A live frame whose message is behind the checkpoint.
Behind_Never(m) == FALSE
Behind(m) == m < file.uid

\* The beginning of consume: goes on to the chat's data, or skips the message.
Consume(w, m, live) ==
  IF file = Plain(m) \/ (live /\ Behind(m))
  THEN IF live THEN NoWork ELSE [w EXCEPT !.pc = "next", !.left = Tail(@)]
  ELSE [w EXCEPT !.pc = "chat", !.cur = m, !.live = live]

\* After consume: recovery goes on with the next message, a frame's job ends.
AfterConsume ==
  IF work.live
  THEN work' = NoWork /\ UNCHANGED replayed
  ELSE /\ work' = [work EXCEPT !.pc = "next", !.left = Tail(@)]
       /\ replayed' = replayed \union {work.cur}

\* A frame's job recovers the chat first, if that has not been done yet.
MustRecover_Never(job) == job = Replay
MustRecover(job) == job = Replay \/ ~ recovered

StartJob ==
  /\ Accepting /\ work.pc = "none" /\ queue # <<>>
  /\ queue' = Tail(queue)
  /\ LET w == [NoWork EXCEPT !.job = Head(queue)]
     IN  work' = IF MustRecover(w.job) THEN [w EXCEPT !.pc = "list"]
                 ELSE IF w.job \in replayed THEN NoWork ELSE Consume(w, w.job, TRUE)
  /\ UNCHANGED <<kind, file, loaded, socketVars, replayed, recovered, aborted, done, base>>

\* The pages of the history arrive.
ListMissed ==
  /\ work.pc = "list"
  /\ work' = [work EXCEPT !.pc = "next", !.left = Missed(file)]
  /\ UNCHANGED <<kind, file, loaded, socketVars, replayed, recovered, queue, aborted, done, base>>

\* The next missed message, or the end of the recovery: a frame's job goes on
\* to its own message unless that was among them.
NextMissed ==
  /\ work.pc = "next"
  /\ IF Accepting /\ work.left # <<>>
     THEN /\ work' = Consume(work, Head(work.left), FALSE)
          /\ replayed' = IF work'.pc = "next" THEN replayed \union {Head(work.left)} ELSE replayed
          /\ UNCHANGED recovered
     ELSE /\ recovered' = TRUE
          /\ work' = IF work.job = Replay \/ ~ Accepting \/ work.job \in replayed
                     THEN NoWork ELSE Consume(work, work.job, TRUE)
          /\ UNCHANGED replayed
  /\ UNCHANGED <<kind, file, loaded, socketVars, queue, aborted, done, base>>

\* The chat's data arrives; an inbound message gets its turn.
BeginTurn ==
  /\ work.pc = "chat"
  /\ work' = [work EXCEPT !.pc = IF kind[work.cur] = "in" THEN "turn" ELSE "ack"]
  /\ UNCHANGED <<kind, file, loaded, socketVars, replayed, recovered, queue, aborted, done, base>>

\* The turn ends. Completed, failed or cut off by an unknown delivery, it will
\* be acknowledged; only one that a shutdown interrupts is not.
EndTurn(outcome) ==
  /\ work.pc = "turn"
  /\ IF outcome = "incomplete" /\ aborted
     THEN AfterConsume /\ UNCHANGED done
     ELSE /\ work' = [work EXCEPT !.pc = "ack"]
          /\ done' = [done EXCEPT ![work.cur] = IF @ = 0 THEN 1 ELSE 2]
          /\ UNCHANGED replayed
  /\ UNCHANGED <<kind, file, loaded, socketVars, recovered, queue, aborted, base>>

\* ack: the file is replaced by a rename.
Ack ==
  /\ work.pc = "ack"
  /\ file' = Plain(work.cur)
  /\ loaded' = TRUE
  /\ AfterConsume
  /\ UNCHANGED <<kind, socketVars, recovered, queue, aborted, done, base>>

\* A listing or a write fails: the job throws, which ends the connection.
Failed_GoOn == AfterConsume /\ UNCHANGED <<conn, frames, queue>>
Failed == Lose /\ work' = NoWork /\ UNCHANGED replayed

FailRead ==
  /\ work.pc \in {"list", "chat"}
  /\ Lose /\ work' = NoWork
  /\ UNCHANGED <<kind, file, loaded, listed, fed, stale, heard, baseline, replayed, recovered,
                 aborted, done, base>>

FailAck ==
  /\ work.pc = "ack"
  /\ Failed
  /\ UNCHANGED <<kind, file, loaded, listed, fed, stale, heard, baseline, recovered, aborted,
                 done, base>>

-----------------------------------------------------------------------------
(***************************************************************************)
(* The process.                                                            *)
(***************************************************************************)
\* Shutdown: no new jobs; the turn under way may end.
Abort ==
  /\ ~ aborted
  /\ aborted' = TRUE
  /\ Lose
  /\ UNCHANGED <<kind, file, loaded, listed, fed, stale, heard, baseline, replayed, recovered,
                 work, done, base>>

Forget ==
  /\ conn' = "off"
  /\ loaded' = FALSE
  /\ aborted' = FALSE
  /\ frames' = <<>>
  /\ queue' = <<>>
  /\ work' = NoWork
  /\ UNCHANGED <<kind, file, listed, fed, stale, heard, baseline, replayed, recovered, done, base>>

Restart == aborted /\ work.pc = "none" /\ Forget

Crash == Forget

-----------------------------------------------------------------------------
Init ==
  /\ kind \in {<<>>} \union {<<k>> : k \in {"in", "out"}}
  /\ file = NoFile
  /\ loaded = FALSE
  /\ conn = "off"
  /\ listed = FALSE
  /\ fed = 0
  /\ stale = 0
  /\ frames = <<>>
  /\ heard = 0
  /\ baseline = NoFile
  /\ replayed = {}
  /\ recovered = FALSE
  /\ queue = <<>>
  /\ work = NoWork
  /\ aborted = FALSE
  /\ done = [m \in Messages |-> 0]
  /\ base = -1

Plow   == Feed \/ (\E k \in {"in", "out"} : Arrive(k)) \/ \E m \in Messages : FeedStale(m)
Socket == \/ Connect \/ (\E shown \in BOOLEAN : Listing(shown)) \/ AckBaseline
          \/ (\E ownerChat \in BOOLEAN : ReadNewest(ownerChat)) \/ AckLate \/ ReadFrame \/ Closed
Job    == \/ StartJob \/ ListMissed \/ NextMissed \/ BeginTurn \/ Ack
          \/ \E outcome \in {"completed", "incomplete"} : EndTurn(outcome)
Fault  == Disconnect \/ FailRead \/ FailAck \/ Abort \/ Crash

Next == Plow \/ Socket \/ Job \/ Restart \/ Fault

\* Connecting, reading frames and the jobs go on by themselves, and the
\* supervisor starts the process again. Nothing makes the socket carry a frame.
Fairness == WF_vars(Socket) /\ WF_vars(Job) /\ WF_vars(Restart)

Spec == Init /\ [][Next]_vars /\ Fairness

-----------------------------------------------------------------------------
(***************************************************************************)
(* Properties.                                                             *)
(***************************************************************************)
Checkpoints == [first : {FALSE}, uid : -1 .. MaxMessages] \union
               [first : {TRUE}, uid : Messages]

Jobs == {Replay} \union Messages
WorkType == [pc : {"none", "list", "next", "chat", "turn", "ack"}, job : Jobs,
             left : Seq(Messages), cur : {0} \union Messages, live : BOOLEAN]

\* Types; a checkpoint names a message of the history, or nothing yet.
TypeOK ==
  /\ kind \in Seq({"in", "out"}) /\ Newest <= MaxMessages
  /\ file \in Checkpoints /\ baseline \in Checkpoints
  /\ file.uid <= Newest /\ baseline.uid <= Newest
  /\ loaded \in BOOLEAN /\ listed \in BOOLEAN /\ recovered \in BOOLEAN /\ aborted \in BOOLEAN
  /\ conn \in {"off", "open", "baseline", "buffered", "late", "live", "closing"}
  /\ fed \in 0 .. Newest /\ stale \in 0 .. MaxStale
  /\ heard \in {0} \union Messages
  /\ frames \in Seq(Messages) /\ queue \in Seq(Jobs)
  /\ replayed \subseteq Messages
  /\ work \in WorkType
  /\ done \in [Messages -> 0 .. 2]
  /\ base \in -1 .. MaxMessages

\* The inbound messages after the first checkpoint: each is owed a turn.
Owed == {m \in 1 .. Newest : kind[m] = "in" /\ m > base}

\* The checkpoint never passes a message that has not had its turn, whatever
\* is recovered, carried live, repeated, lost or cut off in between.
NothingSkipped ==
  file # NoFile => \A m \in Owed : m <= Pos(file) => done[m] > 0

\* transport.ts:7-8: a crash, or a checkpoint that cannot be written, can cost
\* the repetition of at most one turn that came to its end.
OneTurnAtRisk ==
  file # NoFile => Cardinality({m \in Owed : m > Pos(file) /\ done[m] > 0}) <= 1

\* transport.ts:5-6: turns are taken in the order of the history; when one
\* begins, all before it have been taken and none after it.
TurnsInOrder ==
  [][\A m \in Owed : work.pc # "turn" /\ work'.pc = "turn" /\ m # work'.cur =>
        (done[m] > 0 <=> m < work'.cur)]_vars

\* transport.ts:2-3: once the baseline is settled, progress is never undone.
NeverBackwards ==
  [][file # NoFile /\ conn # "late" => Pos(file') >= Pos(file)]_vars

\* Once connections, requests, writes and the process stop failing, every
\* message after the first checkpoint that was there before the last connection
\* gets its turn, even if no frame ever announces it; unless that connection's
\* listing leaves the chat out.
EveryTurnTaken ==
  <>[][~ Fault]_vars =>
    \A m \in Messages : (file # NoFile /\ m \in Owed /\ conn = "off")
                        ~> (done[m] > 0 \/ (Accepting /\ ~ listed))
=============================================================================
