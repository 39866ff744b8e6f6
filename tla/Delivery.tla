----------------------------- MODULE Delivery -----------------------------
(***************************************************************************)
(* Messages to Plow chats (aha/notify/plow.ts): sendToChat, which claims a *)
(* row of the deliveries table under the message's key, POSTs it and       *)
(* records how that ended, and retryUncertainDeliveries, the worker's last *)
(* stage, which sends again what nobody saw arrive.                        *)
(*                                                                         *)
(* Both processes send, often under the same key (the budget warnings, the *)
(* autonomy suggestion, a digest): the worker one message at a time, the   *)
(* gateway one per tool call. A statement of claim is an action, because   *)
(* the statements of the other process fall between them; the rest of a    *)
(* call runs without interruption from one await to the next.              *)
(*                                                                         *)
(* Two kinds of call send with a clock that stands still, whatever time    *)
(* has passed since it was read: a retry pass with the `now` it was called *)
(* with, and aha_digest_now with the time it was asked at, although it     *)
(* classifies everything that is pending before it sends.                  *)
(*                                                                         *)
(* Time is relative: a row holds the ages of created_at and updated_at, a  *)
(* call that of its POST and that of its clock. The ages of a row stop     *)
(* where no comparison can tell them apart, so the model is finite         *)
(* although time is not bounded. A tick is at most the HTTP timeout;       *)
(* SQLite statements take no time.                                         *)
(***************************************************************************)
EXTENDS Integers, FiniteSets

CONSTANTS
  Keys,       \* delivery keys; each belongs to one chat
  OwnerKeys,  \* the keys of messages to the owner's chat
  DigestKeys, \* those aha_digest_now sends under: budget warnings and its digest
  Gateways,   \* concurrent tool calls of the gateway process
  Worker,     \* the worker process, a single sequential caller
  NoKey,
  Timeout,    \* timeoutMs of a POST
  Grace,      \* DELIVERY_RETRY_GRACE_MS
  MaxAge,     \* DELIVERY_MAX_AGE_MS
  Longest     \* bound of an instance: how long a clock stands still

ASSUME DeliveryAssumption ==
  /\ OwnerKeys \subseteq Keys /\ DigestKeys \subseteq OwnerKeys /\ NoKey \notin Keys
  /\ Worker \notin Gateways
  /\ Timeout \in Nat \ {0} /\ Grace \in Nat /\ MaxAge \in Nat /\ Longest \in Nat
  /\ Timeout < Grace /\ Grace < MaxAge

Callers == Gateways \union {Worker}

\* The ages at which the clocks of a row stop.
Eldest  == MaxAge + Longest
Ripest  == Grace + Longest

VARIABLES
  paused,     \* flags.paused
  row,        \* the deliveries table: status, body # NULL, ages of the timestamps
  call,       \* the sendToChat each caller is in
  clock,      \* deps.now of each caller: whether it stands still, and its age
  todo,       \* the rows a retryUncertainDeliveries of the worker has left
  accepted,   \* Plow: how often it took the message of a key, 2 for more
  doubt,      \* whether a POST of the key ended without an answer
  late        \* whether a claim of the key may have ended before its POST

vars == <<paused, row, call, clock, todo, accepted, doubt, late>>

Statuses == {"none", "uncertain", "sent", "failed"}
Claiming == {"retry", "expire", "reclaim"}

Idle   == [pc |-> "idle", key |-> NoKey, age |-> 0]
NoRow  == [status |-> "none", body |-> FALSE, created |-> 0, updated |-> 0]
Live   == [fixed |-> FALSE, age |-> 0]
Passing == clock[Worker].fixed

-----------------------------------------------------------------------------
\* The age of the timestamp a caller writes and compares with, deps.now().
At(c) == clock[c].age

Goto(c, stage) == call' = [call EXCEPT ![c].pc = stage]
Leave(c)       == call' = [call EXCEPT ![c] = Idle]

\* claim's UPDATEs to 'uncertain', owned: the first insertion's time is kept.
Claim_Fresh(k, at) == row' = [row EXCEPT ![k].status = "uncertain", ![k].body = TRUE,
                                         ![k].updated = at, ![k].created = at]
Claim(k, at)       == row' = [row EXCEPT ![k].status = "uncertain", ![k].body = TRUE,
                                         ![k].updated = at]

\* The POST of an owned key. The claim may be ripe for others before the timeout
\* when it was dated as long ago as this.
Outlived(at) == at + Timeout >= Grace
Post(c, k) ==
  /\ call' = [call EXCEPT ![c] = [pc |-> "sending", key |-> k, age |-> 0]]
  /\ late' = [late EXCEPT ![k] = @ \/ Outlived(At(c))]

\* Which rows a claim may take at once, after the grace, or must give up.
Retriable_Final(k) == row[k].status \in {"failed", "sent"}
Retriable(k)       == row[k].status = "failed"
Ripe_Early(k, at)  == row[k].status = "uncertain" /\ row[k].updated - at >= 0
Ripe(k, at)        == row[k].status = "uncertain" /\ row[k].updated - at >= Grace
TooOld(k, at)      == row[k].status = "uncertain" /\ row[k].created - at >= MaxAge
Blocked(k)         == paused /\ k \notin OwnerKeys
Expired(k)         == [row[k] EXCEPT !.status = "failed", !.body = FALSE, !.updated = 0]

\* sendToChat by a caller: the pause, then claim's INSERT.
Enter(c, k) ==
  /\ ~ Blocked(k)
  /\ IF row[k].status = "none"
     THEN /\ row' = [row EXCEPT ![k] = [status |-> "uncertain", body |-> TRUE,
                                        created |-> At(c), updated |-> At(c)]]
          /\ Post(c, k)
     ELSE /\ call' = [call EXCEPT ![c] = [pc |-> "retry", key |-> k, age |-> 0]]
          /\ UNCHANGED <<row, late>>

\* A tool call, or a stage of the worker before the retries, sends a message.
SendToChat(c, k) ==
  /\ call[c].pc = "idle"
  /\ IF c = Worker THEN ~ Passing ELSE clock[c].fixed => k \in DigestKeys
  /\ Enter(c, k)
  /\ UNCHANGED <<paused, clock, todo, accepted, doubt>>

\* claim: UPDATE ... WHERE status = 'failed'
ClaimFailed(c) ==
  /\ call[c].pc = "retry"
  /\ IF Retriable(call[c].key)
     THEN Claim(call[c].key, At(c)) /\ Post(c, call[c].key)
     ELSE Goto(c, "expire") /\ UNCHANGED <<row, late>>
  /\ UNCHANGED <<paused, clock, todo, accepted, doubt>>

\* claim: UPDATE ... SET status = 'failed' WHERE created_at <= expireBefore
ClaimExpired(c) ==
  /\ call[c].pc = "expire"
  /\ IF TooOld(call[c].key, At(c))
     THEN /\ row' = [row EXCEPT ![call[c].key] = Expired(call[c].key)]
          /\ Leave(c)
     ELSE Goto(c, "reclaim") /\ UNCHANGED row
  /\ UNCHANGED <<paused, clock, todo, accepted, doubt, late>>

\* claim: UPDATE ... WHERE updated_at <= retryBefore; otherwise the status the
\* row has is what sendToChat returns.
ClaimRipe(c) ==
  /\ call[c].pc = "reclaim"
  /\ IF Ripe(call[c].key, At(c))
     THEN Claim(call[c].key, At(c)) /\ Post(c, call[c].key)
     ELSE Leave(c) /\ UNCHANGED <<row, late>>
  /\ UNCHANGED <<paused, clock, todo, accepted, doubt>>

-----------------------------------------------------------------------------
\* finish: whatever the row has become meanwhile is overwritten. Only the
\* updated_at of an uncertain row is ever compared, so only that goes on ageing.
KeepsBody_Never(k, status) == FALSE
KeepsBody(k, status) == row[k].body /\ status = "uncertain"
Finish(c, status) ==
  LET k == call[c].key
  IN  /\ row' = [row EXCEPT ![k].status = status, ![k].body = KeepsBody(k, status),
                            ![k].updated = IF status = "uncertain" THEN At(c) ELSE 0]
      /\ Leave(c)

Took(k) == accepted' = [accepted EXCEPT ![k] = IF @ = 0 THEN 1 ELSE 2]

\* 2xx, with a uid or not.
AfterAccept_NoUid(c) == Finish(c, "uncertain")
AfterAccept(c)       == Finish(c, "sent")
Accepted(c) ==
  /\ call[c].pc = "sending"
  /\ AfterAccept(c)
  /\ Took(call[c].key)
  /\ UNCHANGED <<paused, clock, todo, doubt, late>>

\* The request timed out or broke, or was answered 408, 424 or 5xx: Plow may
\* have taken the message.
Unanswered(c, took) ==
  /\ call[c].pc = "sending"
  /\ Finish(c, "uncertain")
  /\ IF took THEN Took(call[c].key) ELSE UNCHANGED accepted
  /\ doubt' = [doubt EXCEPT ![call[c].key] = TRUE]
  /\ UNCHANGED <<paused, clock, todo, late>>

\* Any other status.
Refused(c) ==
  /\ call[c].pc = "sending"
  /\ Finish(c, "failed")
  /\ UNCHANGED <<paused, clock, todo, accepted, doubt, late>>

-----------------------------------------------------------------------------
\* aha_digest_now: from here on the call sends with the time it began at, after
\* as many classification batches as there are.
StartDigest(c) ==
  /\ c # Worker /\ call[c].pc = "idle" /\ ~ clock[c].fixed
  /\ clock' = [clock EXCEPT ![c].fixed = TRUE]
  /\ UNCHANGED <<paused, row, call, todo, accepted, doubt, late>>

EndDigest(c) ==
  /\ c # Worker /\ call[c].pc = "idle" /\ clock[c].fixed
  /\ clock' = [clock EXCEPT ![c] = Live]
  /\ UNCHANGED <<paused, row, call, todo, accepted, doubt, late>>

-----------------------------------------------------------------------------
\* retryUncertainDeliveries: discard what is too old, read the rows to send
\* again, give up those whose text is gone. Of one row at most one statement
\* writes, so the other process cannot tell the three from one.
StartPass ==
  /\ call[Worker].pc = "idle" /\ ~ Passing
  /\ clock' = [clock EXCEPT ![Worker].fixed = TRUE]
  /\ todo' = {k \in Keys : Ripe(k, 0) /\ ~ TooOld(k, 0) /\ row[k].body}
  /\ row' = [k \in Keys |->
               IF TooOld(k, 0) \/ (Ripe(k, 0) /\ ~ row[k].body) THEN Expired(k) ELSE row[k]]
  /\ UNCHANGED <<paused, call, accepted, doubt, late>>

\* The next row of the pass: sendToChat sends it, or the pause drops it.
PassSend(k) ==
  /\ Passing /\ call[Worker].pc = "idle" /\ k \in todo
  /\ todo' = todo \ {k}
  /\ IF Blocked(k) THEN UNCHANGED <<row, call, late>> ELSE Enter(Worker, k)
  /\ UNCHANGED <<paused, clock, accepted, doubt>>

EndPass ==
  /\ Passing /\ call[Worker].pc = "idle" /\ todo = {}
  /\ clock' = [clock EXCEPT ![Worker] = Live]
  /\ UNCHANGED <<paused, row, call, todo, accepted, doubt, late>>

-----------------------------------------------------------------------------
\* aha_pause and aha_resume
SetPaused ==
  /\ paused' = ~ paused
  /\ UNCHANGED <<row, call, clock, todo, accepted, doubt, late>>

\* A process stops. Plow may or may not have taken what it was sending.
Stop(stopped, took) ==
  LET cut == {call[c].key : c \in {x \in stopped : call[x].pc = "sending"}}
  IN  /\ \E c \in stopped : call[c].pc # "idle" \/ clock[c].fixed
      /\ took \subseteq cut
      /\ call' = [c \in Callers |-> IF c \in stopped THEN Idle ELSE call[c]]
      /\ clock' = [c \in Callers |-> IF c \in stopped THEN Live ELSE clock[c]]
      /\ todo' = IF Worker \in stopped THEN {} ELSE todo
      /\ accepted' = [k \in Keys |->
                        IF k \in took THEN IF accepted[k] = 0 THEN 1 ELSE 2 ELSE accepted[k]]
      /\ doubt' = [k \in Keys |-> doubt[k] \/ k \in cut]
      /\ UNCHANGED <<paused, row, late>>

Crash == \E took \in SUBSET Keys : Stop(Gateways, took) \/ Stop({Worker}, took)

Older(age, limit) == IF age < limit THEN age + 1 ELSE age
Sends(c, k) == call[c].pc = "sending" /\ call[c].key = k

\* The ages of a row that are still compared: nothing reads those of a row that
\* is sent, unless an answer is to come that may write another status.
Aged(k) ==
  IF row[k].status = "none" \/ (row[k].status = "sent" /\ \A c \in Callers : ~ Sends(c, k))
  THEN row[k]
  ELSE [row[k] EXCEPT !.created = Older(@, Eldest),
                      !.updated = IF row[k].status = "uncertain" THEN Older(@, Ripest) ELSE @]

\* A POST ends within its timeout; between POSTs time passes too, as a call with
\* a fixed clock classifies, or deals with rows that are not looked at here.
Tick ==
  /\ \A c \in Callers : /\ call[c].pc \notin Claiming
                        /\ call[c].pc = "sending" => call[c].age < Timeout
                        /\ clock[c].fixed => clock[c].age < Longest
  /\ row' = [k \in Keys |-> Aged(k)]
  /\ call' = [c \in Callers |->
                IF call[c].pc = "sending" THEN [call[c] EXCEPT !.age = @ + 1] ELSE call[c]]
  /\ clock' = [c \in Callers |->
                 IF clock[c].fixed THEN [clock[c] EXCEPT !.age = @ + 1] ELSE clock[c]]
  /\ UNCHANGED <<paused, todo, accepted, doubt, late>>

-----------------------------------------------------------------------------
Init ==
  /\ paused = FALSE
  /\ row = [k \in Keys |-> NoRow]
  /\ call = [c \in Callers |-> Idle]
  /\ clock = [c \in Callers |-> Live]
  /\ todo = {}
  /\ accepted = [k \in Keys |-> 0]
  /\ doubt = [k \in Keys |-> FALSE]
  /\ late = [k \in Keys |-> FALSE]

Statement(c) == ClaimFailed(c) \/ ClaimExpired(c) \/ ClaimRipe(c)
Answer(c)    == Accepted(c) \/ Refused(c) \/ \E took \in BOOLEAN : Unanswered(c, took)
Digest(c)    == StartDigest(c) \/ EndDigest(c)
Retries      == StartPass \/ EndPass \/ \E k \in Keys : PassSend(k)

Next ==
  \/ \E c \in Callers : Statement(c) \/ Answer(c) \/ Digest(c) \/ \E k \in Keys : SendToChat(c, k)
  \/ Retries \/ SetPaused \/ Crash \/ Tick

\* A call runs on to its end (a POST at the latest to its timeout, a digest with
\* the last of its messages), the worker comes round to its retries whatever
\* else it sends, and time does not stop.
Fairness ==
  /\ \A c \in Callers : WF_vars(Statement(c)) /\ WF_vars(Answer(c)) /\ SF_vars(EndDigest(c))
  /\ WF_vars(EndPass \/ \E k \in Keys : PassSend(k))
  /\ SF_vars(StartPass)
  /\ []<><<Tick>>_vars

Spec == Init /\ [][Next]_vars /\ Fairness

-----------------------------------------------------------------------------
(***************************************************************************)
(* Properties.                                                             *)
(***************************************************************************)
\* Types of the table, of the calls and of the clocks; the text of a message
\* is stored only while its delivery is undecided (plow.ts:60).
TypeOK ==
  /\ \A k \in Keys : row[k].body => row[k].status = "uncertain"
  /\ paused \in BOOLEAN
  /\ row \in [Keys -> [status : Statuses, body : BOOLEAN,
                       created : 0 .. Eldest, updated : 0 .. Ripest]]
  /\ call \in [Callers -> [pc : {"idle", "sending"} \union Claiming,
                           key : Keys \union {NoKey}, age : 0 .. Timeout]]
  /\ clock \in [Callers -> [fixed : BOOLEAN, age : 0 .. Longest]]
  /\ todo \subseteq Keys
  /\ accepted \in [Keys -> 0 .. 2]
  /\ doubt \in [Keys -> BOOLEAN] /\ late \in [Keys -> BOOLEAN]

\* The claims of a key whose first attempt is less than a day old, and none of
\* which was dated so long ago that it could end before its POST.
Young(k)  == row[k].created < MaxAge
Locked(k) == Young(k) /\ ~ late[k]

Overlap(k) == \E c, d \in Callers : c # d /\ Sends(c, k) /\ Sends(d, k)

\* Two callers never POST the message of one key at the same time, as long as
\* the key is less than MaxAge old and its claims are dated when they are made:
\* the row is the lock, and a holder is gone before the grace lets another
\* reclaim it (tests/notify.test.ts:41).
OnePostInFlight == \A k \in Keys : Locked(k) => ~ Overlap(k)

\* A chat gets a message twice only when the outcome of some POST of it was
\* never seen (the comment at plow.ts:135), or the key is older than MaxAge, or
\* a claim of it was dated by a clock that stood still too long.
DuplicatesNeedDoubt ==
  \A k \in Keys : accepted[k] > 1 => doubt[k] \/ ~ Locked(k)

\* The text of an undecided delivery is there to be sent again for as long as
\* it may be retried: finish, expiry and reclaiming never lose it earlier.
TextKept ==
  \A k \in Keys : row[k].status = "uncertain" /\ Locked(k) => row[k].body

\* What was sent stays sent: no later call, retry or late answer of another
\* attempt takes it back while the key is young and its claims hold.
SentIsFinal ==
  [][\A k \in Keys : row[k].status = "sent" /\ Locked(k) => row'[k].status = "sent"]_vars

\* An undecided delivery is decided in the end, however Plow answers, whoever
\* crashes, however often the key is sent again and whatever clock it is sent
\* with: retries cannot renew the 24 hours after which it is discarded
\* (plow.ts:49-52, 119-124).
UncertainSettles ==
  \A k \in Keys : row[k].status = "uncertain" ~> row[k].status # "uncertain"

\* tests/notify.test.ts:41 "two overlapping sends with the same key post once",
\* of a key less than MaxAge old.
OverlappingSendsPostOnce == \A k \in Keys : Young(k) => ~ Overlap(k)
=============================================================================
