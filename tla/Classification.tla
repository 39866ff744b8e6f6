--------------------------- MODULE Classification ---------------------------
(***************************************************************************)
(* How stored items get their classification (aha/pipeline/classify.ts and *)
(* classifyNewItems of aha/digest/deliver.ts): passes of the worker and of *)
(* the tool aha_digest_now, leases on batches, the model call, its answer  *)
(* applied statement by statement, and what others do to the rows in the   *)
(* meantime: insertions, deletions, decisions of people, crashes.          *)
(*                                                                         *)
(* Times are kept as ages. A tick is at least the time a model call may    *)
(* take. aha_digest_now hands classifyNewItems a clock that stands still   *)
(* at the start of the call, however long it lasts; the worker's runs on.  *)
(***************************************************************************)
EXTENDS Integers, FiniteSets

CONSTANTS
  Ids,           \* row ids
  Worker,        \* the worker's pass
  Tools,         \* concurrent calls of aha_digest_now
  BatchSize,     \* CLASSIFY_BATCH_SIZE
  MaxAttempts,   \* MAX_CLASSIFY_ATTEMPTS
  MaxTransport,  \* MAX_CLASSIFY_TRANSPORT_ATTEMPTS
  Lease,         \* CLASSIFY_LEASE_MS
  OldAge,        \* CLASSIFY_TRANSPORT_MAX_AGE_MS
  CallTicks,     \* longest model call
  DigestTicks,   \* longest call of aha_digest_now
  MaxPosts       \* bound on insertions

ASSUME ClassificationAssumption ==
  /\ Ids \subseteq Nat \ {0}
  /\ Worker \notin Tools
  /\ BatchSize \in Nat \ {0} /\ MaxAttempts \in Nat \ {0} /\ MaxTransport \in Nat
  /\ Lease \in Nat /\ OldAge \in Nat /\ CallTicks \in Nat /\ DigestTicks \in Nat
  /\ MaxPosts \in Nat
  /\ CallTicks < Lease

VARIABLES
  row,    \* the table items, with the classification of each
  call,   \* the passes under way
  posts   \* insertions so far

vars == <<row, call, posts>>

Callers == {Worker} \union Tools
Nobody  == "nobody"
ASSUME NobodyAssumption == Nobody \notin Callers

NoLease == [by |-> Nobody, left |-> 0]

\* An absent row.
Gone == [state |-> "gone", lease |-> NoLease, attempts |-> 0, transport |-> 0, age |-> 0,
         post |-> 0, verdict |-> 0]

\* read[i] is the post that the model was asked about under the id i.
Idle == [pc |-> "idle", after |-> 0, max |-> 0, batch |-> {}, read |-> [i \in Ids |-> 0],
         todo |-> {}, age |-> 0, wait |-> 0]

Stored == {i \in Ids : row[i].state # "gone"}

Least(ids)    == CHOOSE i \in ids : \A j \in ids : i <= j
Greatest(ids) == CHOOSE i \in ids : \A j \in ids : j <= i

\* How far the clock of a pass lags behind.
Skew(c) == IF c \in Tools THEN call[c].age ELSE 0

-----------------------------------------------------------------------------
(***************************************************************************)
(* The other parts of the program.                                         *)
(***************************************************************************)
\* insertItem. SQLite numbers a row one above the largest id there is, so the
\* id of a deleted row is used again. The two statements of save are too close
\* for a deletion and an insertion of one id between them.
Insert(i) ==
  /\ posts < MaxPosts
  /\ i = IF Stored = {} THEN Least(Ids) ELSE Greatest(Stored) + 1
  /\ \A c \in Callers : call[c].pc = "insert" => Least(call[c].todo) # i
  /\ posts' = posts + 1
  /\ row' = [row EXCEPT ![i] = [Gone EXCEPT !.state = "new", !.post = posts + 1]]
  /\ UNCHANGED call

\* deleteItems: the owner has the item forgotten, or it is pruned.
Delete(i) ==
  /\ i \in Stored
  /\ row' = [row EXCEPT ![i] = Gone]
  /\ UNCHANGED <<call, posts>>

\* aha_claim, aha_not_us, and the escalations of the draft stage and of the
\* posting policy act on classified items only.
Decide(i) ==
  /\ row[i].verdict # 0
  /\ row' = [row EXCEPT ![i].state = "decided"]
  /\ UNCHANGED <<call, posts>>

-----------------------------------------------------------------------------
(***************************************************************************)
(* A pass goes through the ids there are at its beginning, batch by batch. *)
(***************************************************************************)
StartPass(c) ==
  /\ call[c].pc = "idle" /\ Stored # {}
  /\ call' = [call EXCEPT ![c] = [Idle EXCEPT !.pc = "check", !.max = Greatest(Stored)]]
  /\ UNCHANGED <<row, posts>>

\* Content failures are limited in number; transport failures in number, but
\* only once the item is old.
Queued_NoLimit(i, skew) ==
  \/ row[i].state = "new"
  \/ row[i].state = "needs_review" /\ (row[i].transport < MaxTransport \/ row[i].age - skew < OldAge)
Queued(i, skew) ==
  \/ row[i].state = "new"
  \/ /\ row[i].state = "needs_review"
     /\ row[i].attempts < MaxAttempts
     /\ row[i].transport < MaxTransport \/ row[i].age - skew < OldAge

Free(i, skew) == row[i].lease = NoLease \/ row[i].lease.left + skew <= 0

Candidates(c) == {i \in Stored : /\ Queued(i, Skew(c)) /\ Free(i, Skew(c))
                                 /\ call[c].after < i /\ i <= call[c].max}

\* claimClassifyBatch: the first of the candidates are leased.
ClaimBatch(c) ==
  LET batch == {i \in Candidates(c) : Cardinality({j \in Candidates(c) : j <= i}) <= BatchSize}
  IN  /\ call[c].pc = "check" /\ batch # {}
      /\ row' = [i \in Ids |-> IF i \in batch
                               THEN [row[i] EXCEPT !.lease = [by |-> c, left |-> Lease - Skew(c)]]
                               ELSE row[i]]
      /\ call' = [call EXCEPT ![c].pc = "model", ![c].after = Greatest(batch),
                              ![c].batch = batch, ![c].wait = 0,
                              ![c].read = [i \in Ids |-> IF i \in batch THEN row[i].post ELSE 0]]
      /\ UNCHANGED posts

\* Nothing is left to claim, or the token budget of the day is used up.
Quit(c) ==
  /\ call[c].pc = "check"
  /\ call' = [call EXCEPT ![c] = Idle]
  /\ UNCHANGED <<row, posts>>

EndPass(c) == Candidates(c) = {} /\ Quit(c)

OverBudget(c) == Candidates(c) # {} /\ Quit(c)

\* The model answers, or the call fails on the way.
Answered(c, pc) ==
  /\ call[c].pc = "model"
  /\ call' = [call EXCEPT ![c].pc = pc, ![c].todo = call[c].batch]
  /\ UNCHANGED <<row, posts>>

\* ownership: the row is written only under the lease it was claimed with. No
\* two leases end at the same moment, since the second is given after the end
\* of the first.
Owns_Any(c, i)    == i \in Stored
Owns_Leased(c, i) == row[i].lease # NoLease
Owns(c, i) == row[i].lease.by = c

\* One step of a loop over the batch; the next loop begins with the whole batch.
Onward(c, pc, next) ==
  LET left == call[c].todo \ {Least(call[c].todo)}
  IN  call' = [call EXCEPT ![c].pc   = IF left = {} THEN next ELSE pc,
                           ![c].todo = IF left = {} THEN call[c].batch ELSE left]

Step(c, pc, next) == call[c].pc = pc /\ Onward(c, pc, next) /\ UNCHANGED posts

\* A row as a statement guarded by the lease leaves it.
Write(c, i, new) == row' = [row EXCEPT ![i] = IF Owns(c, i) THEN new ELSE row[i]]

AtMost(n, max) == IF n < max THEN n ELSE max

\* recordTransportFailure
Exhausted_Never(r, skew) == FALSE
Exhausted(r, skew) == r.transport + 1 >= MaxTransport /\ r.age - skew >= OldAge

FailNext(c) ==
  /\ Step(c, "fail", "release")
  /\ LET i == Least(call[c].todo)
     IN  Write(c, i, [row[i] EXCEPT !.transport = AtMost(@ + 1, MaxTransport),
                                    !.state = IF Exhausted(row[i], Skew(c)) THEN "needs_review"
                                                                            ELSE @])

ResetNext(c) ==
  /\ Step(c, "reset", "apply")
  /\ LET i == Least(call[c].todo) IN Write(c, i, [row[i] EXCEPT !.transport = 0])

\* review: the answer has nothing acceptable about the item.
ReviewNext(c) ==
  /\ Step(c, "apply", "release")
  /\ LET i == Least(call[c].todo)
     IN  Write(c, i, [row[i] EXCEPT !.state = "needs_review", !.attempts = @ + 1])

\* save: first the state, then, if the row was still there and leased, the
\* classification.
SaveState(c) ==
  LET i == Least(call[c].todo)
  IN  /\ call[c].pc = "apply" /\ Owns(c, i)
      /\ row' = [row EXCEPT ![i].state = "classified"]
      /\ call' = [call EXCEPT ![c].pc = "insert"]
      /\ UNCHANGED posts

SaveNothing(c) ==
  /\ Step(c, "apply", "release")
  /\ ~ Owns(c, Least(call[c].todo))
  /\ UNCHANGED row

\* The classification of a row that was deleted in between violates a foreign
\* key: the pass ends with the error, after its leases have been released.
SaveVerdict(c) ==
  LET i == Least(call[c].todo)
  IN  /\ call[c].pc = "insert"
      /\ IF i \in Stored
         THEN /\ row' = [row EXCEPT ![i].verdict = call[c].read[i]]
              /\ Onward(c, "apply", "release")
         ELSE /\ UNCHANGED row
              /\ call' = [call EXCEPT ![c].pc = "release", ![c].todo = call[c].batch,
                                      ![c].after = call[c].max]
      /\ UNCHANGED posts

\* The finally of classifyBatch.
ReleaseNext(c) ==
  LET i == Least(call[c].todo)
  IN  /\ call[c].pc = "release"
      /\ Write(c, i, [row[i] EXCEPT !.lease = NoLease])
      /\ IF call[c].todo = {i}
         THEN call' = [call EXCEPT ![c] = [Idle EXCEPT !.pc = "check", !.after = call[c].after,
                                                       !.max = call[c].max, !.age = call[c].age]]
         ELSE call' = [call EXCEPT ![c].todo = @ \ {i}]
      /\ UNCHANGED posts

-----------------------------------------------------------------------------
(***************************************************************************)
(* Time and crashes.                                                       *)
(***************************************************************************)
\* Time passes while passes wait for the model, or for a notice.
Tick ==
  /\ \A c \in Callers : \/ call[c].pc \in {"idle", "check"}
                        \/ call[c].pc = "model" /\ call[c].wait < CallTicks
  /\ \A c \in Tools : call[c].pc # "idle" => call[c].age < DigestTicks
  /\ row' = [i \in Ids |->
       [row[i] EXCEPT !.age = IF i \in Stored THEN AtMost(@ + 1, OldAge + DigestTicks) ELSE 0,
                      !.lease.left = IF row[i].lease = NoLease \/ @ = - DigestTicks
                                     THEN @ ELSE @ - 1]]
  /\ call' = [c \in Callers |->
       [call[c] EXCEPT !.age  = IF c \in Tools /\ call[c].pc # "idle" THEN @ + 1 ELSE 0,
                       !.wait = IF call[c].pc = "model" THEN @ + 1 ELSE 0]]
  /\ UNCHANGED posts

\* The boot process or the gateway stops in the middle of a batch (between two
\* batches that is no different from OverBudget).
Crash(stopped) ==
  /\ \E c \in stopped : call[c].pc \notin {"idle", "check"}
  /\ call' = [c \in Callers |-> IF c \in stopped THEN Idle ELSE call[c]]
  /\ UNCHANGED <<row, posts>>

Fault == Crash({Worker}) \/ Crash(Tools) \/ OverBudget(Worker)

-----------------------------------------------------------------------------
Init ==
  /\ row = [i \in Ids |-> Gone]
  /\ call = [c \in Callers |-> Idle]
  /\ posts = 0

Others == \E i \in Ids : Insert(i) \/ Delete(i) \/ Decide(i)

Pass(c) ==
  \/ ClaimBatch(c) \/ EndPass(c) \/ Answered(c, "fail") \/ Answered(c, "reset")
  \/ FailNext(c) \/ ResetNext(c) \/ ReviewNext(c)
  \/ SaveState(c) \/ SaveNothing(c) \/ SaveVerdict(c) \/ ReleaseNext(c)

Next == Others \/ (\E c \in Callers : StartPass(c) \/ Pass(c)) \/ (\E c \in Tools : OverBudget(c))
        \/ Tick \/ Fault

\* A pass that has begun goes on: its model calls have a timeout. The worker
\* begins one every 15 minutes, so time passes between its passes.
Fairness ==
  /\ \A c \in Callers : WF_vars(Pass(c))
  /\ WF_vars(StartPass(Worker)) /\ SF_vars(Tick)

Spec == Init /\ [][Next]_vars /\ Fairness

-----------------------------------------------------------------------------
(***************************************************************************)
(* Properties.                                                             *)
(***************************************************************************)
\* What the model finds (relevant or irrelevant) and what is decided later
\* (assigned, escalated, irrelevant) make no difference to the queue.
States == {"new", "needs_review", "classified", "decided"}

\* Types; attempts stay within their limits.
TypeOK ==
  /\ \A i \in Ids : row[i] = Gone \/
       /\ row[i].state \in States
       /\ row[i].lease = NoLease \/ row[i].lease \in [by : Callers, left : - DigestTicks .. Lease]
       /\ row[i].attempts \in 0 .. MaxAttempts
       /\ row[i].transport \in 0 .. MaxTransport
       /\ row[i].age \in 0 .. OldAge + DigestTicks
       /\ row[i].post \in 1 .. posts
       /\ row[i].verdict \in 0 .. posts
  /\ \A c \in Callers :
       /\ call[c].pc \in {"idle", "check", "model", "fail", "reset", "apply", "insert", "release"}
       /\ call[c].batch \subseteq Ids /\ call[c].todo \subseteq call[c].batch
       /\ call[c].age \in 0 .. DigestTicks /\ call[c].wait \in 0 .. CallTicks
  /\ posts \in 0 .. MaxPosts

\* A classification is about the post it is stored with, although ids are
\* used again after a deletion and answers come long after the question.
VerdictFitsPost == \A i \in Ids : row[i].verdict \in {0, row[i].post}

\* Once an item is classified, a late answer or failure of another call changes
\* nothing of it: neither its classification, nor what people decided of it,
\* nor does it come back into the queue.
VerdictStands ==
  [][\A i \in Ids : row[i].verdict # 0 /\ row'[i].post = row[i].post =>
        /\ row'[i].verdict = row[i].verdict
        /\ row'[i].state \in {row[i].state, "decided"}]_vars

\* Every item leaves the queue in the end: classified, given up, or deleted,
\* however often calls fail, once the worker is neither stopped nor out of
\* budget. (A digest asked for by hand can undo the count of failures and then
\* lose its lease before it saves; it must not do so for ever.)
ItemsSettle ==
  <>[][~ Fault /\ \A c \in Tools : ~ StartPass(c)]_vars =>
    \A i \in Ids : []<>(i \notin Stored \/ ~ Queued(i, 0))

\* tests/classify.test.ts:285: "concurrent classifyNewItems calls claim a batch
\* only once": no two calls ask the model about the same item at once.
ClaimedOnce ==
  \A c, d \in Callers : c # d /\ call[c].pc = "model" /\ call[d].pc = "model" =>
    \A i \in call[c].batch \cap call[d].batch : call[c].read[i] # call[d].read[i]

-----------------------------------------------------------------------------
(***************************************************************************)
(* The inductive invariant behind VerdictFitsPost and VerdictStands.       *)
(***************************************************************************)
\* A loop over a batch has something left to do.
Loops == \A c \in Callers :
  /\ call[c].todo \subseteq call[c].batch
  /\ call[c].pc \in {"idle", "check", "model"} => call[c].todo = {}
  /\ call[c].pc = "model" => call[c].batch # {}
  /\ call[c].pc \in {"fail", "reset", "apply", "insert", "release"} => call[c].todo # {}

\* Before this call has classified item i.
Unanswered(c, i) ==
  \/ call[c].pc \in {"model", "fail", "reset"}
  \/ call[c].pc \in {"apply", "insert"} /\ i \in call[c].todo

\* A call that still has its lease on an item asked about the post that is there.
LeaseFits == \A c \in Callers : \A i \in call[c].batch :
  row[i].lease.by = c =>
    /\ call[c].read[i] = row[i].post
    /\ Unanswered(c, i) => row[i].verdict = 0

\* Between the two statements of save the row is gone, or waits for this call.
SaveFits == \A c \in Callers :
  LET i == Least(call[c].todo)
  IN  call[c].pc = "insert" /\ i \in Stored => Owns(c, i) /\ row[i].state = "classified"

\* What is in the queue, or absent, has no classification; nothing absent is leased.
RowFits == \A i \in Ids :
  /\ row[i].state \in {"gone", "new", "needs_review"} => row[i].verdict = 0
  /\ row[i].state = "gone" => row[i].lease = NoLease
  /\ row[i].post <= posts

IInv == Loops /\ LeaseFits /\ SaveFits /\ RowFits /\ VerdictFitsPost
=============================================================================
