------------------------ MODULE IngestionProofs ------------------------
(***************************************************************************)
(* Classification and what it classifies: the passes and the sources.      *)
(*                                                                         *)
(* Late answers of the model do no harm: VerdictFitsPost and VerdictStands *)
(* of Classification. A step of a pass is framed: it writes only rows that *)
(* it has leased, or that are still in the queue, so the invariants of the *)
(* other passes survive it; what it does to its own rows is shown for each *)
(* action. Types, with the limits of attempts and clocks, come last.       *)
(*                                                                         *)
(* OkRoundsComplete of Sources: a round has in the store what is due of    *)
(* the source it reads, or has it still to read, behind the cursor or in a *)
(* later segment. A list orders its entries strictly and has finitely many *)
(* of them, so that a page has an end and the rest is behind it.           *)
(***************************************************************************)
EXTENDS Classification, Sources, FiniteSetTheorems, WellFoundedInduction, TLAPS

Stages == {"idle", "check", "model", "fail", "reset", "apply", "insert", "release"}

\* Without the limits of TypeOK, which the first two theorems do not need.
RowType == [state : States \union {"gone"}, lease : [by : Callers \union {Nobody}, left : Int],
            attempts : Int, transport : Int, age : Int, post : Nat, verdict : Nat]

Marks == {0} \union {Greatest(ids) : ids \in SUBSET Ids}

CallType == [pc : Stages, after : Marks, max : Marks, batch : SUBSET Ids, read : [Ids -> Nat],
             todo : SUBSET Ids, age : Int, wait : Int]

Typed == row \in [Ids -> RowType] /\ call \in [Callers -> CallType] /\ posts \in Nat

Inv == Typed /\ IInv

-----------------------------------------------------------------------------
\* The least of a set of ids is one of them.
LEMMA LeastIsIn ==
  ASSUME NEW S \in SUBSET Ids, S # {}
  PROVE  Least(S) \in S
<1> DEFINE R == {p \in Nat \X Nat : p[1] < p[2]}
<1>1. S \subseteq Nat
  BY ClassificationAssumption
<1>2. R = OpToRel(<, Nat)
  BY Zenon DEF OpToRel
<1>3. IsWellFoundedOn(R, Nat)
  BY <1>2, NatLessThanWellFounded, Zenon
<1>4. PICK i \in S : \A j \in S : ~ (<<j, i>> \in R)
  BY <1>1, <1>3, WFMin, Zenon
<1>5. \A j, k \in Nat : j < k => <<j, k>> \in R
  OBVIOUS
<1>6. \A j \in S : ~ (j < i)
  BY <1>1, <1>4, <1>5, Zenon
<1>7. i \in Nat /\ \A j \in S : j \in Nat /\ ~ (j < i)
  BY <1>1, <1>6
<1>8. \A j \in S : i <= j
  BY <1>7
<1> QED
  BY <1>8 DEF Least

LEMMA GoneIsRow == Gone \in RowType /\ NoLease \in [by : Callers \union {Nobody}, left : Int]
  BY DEF Gone, NoLease, RowType

LEMMA IdleIsCall == Idle \in CallType
  BY DEF Idle, CallType, Stages, Marks

\* The next item of a loop, which the pass has in its batch.
LEMMA NextItem ==
  ASSUME Inv, NEW c \in Callers, call[c].pc \in {"fail", "reset", "apply", "insert", "release"}
  PROVE  /\ Least(call[c].todo) \in call[c].todo
         /\ call[c].todo \subseteq call[c].batch /\ call[c].batch \subseteq Ids
  BY LeastIsIn DEF Inv, IInv, Loops, Typed, CallType

-----------------------------------------------------------------------------
\* The write of a pass to one row: under its lease, or while it waits for the pass.
Touched(c, j) ==
  \/ row'[j] = row[j]
  \/ /\ row'[j].post = row[j].post
     /\ row'[j].state # "gone" /\ row[j].state # "gone"
     /\ row'[j].lease.by \in {c, Nobody}
     /\ row[j].lease.by = c \/ row[j].state \in {"new", "needs_review"}

Framed(c) ==
  /\ \A x \in Callers : x # c => call'[x] = call[x]
  /\ \A j \in Ids : Touched(c, j)
  /\ posts' = posts

\* What VerdictStands says of a step.
Stands(i) ==
  row[i].verdict # 0 /\ row'[i].post = row[i].post =>
    row'[i].verdict = row[i].verdict /\ row'[i].state \in {row[i].state, "decided"}

Safe == Inv' /\ \A i \in Ids : Stands(i)

\* What a pass must show of the rows it writes.
Sound(i) ==
  /\ row'[i].state \in {"gone", "new", "needs_review"} => row'[i].verdict = 0
  /\ row'[i].verdict \in {0, row'[i].post}
  /\ Stands(i)

\* All that is left to show of a step of one pass.
LEMMA CallerStep ==
  ASSUME Inv, Typed', NEW c \in Callers, Framed(c), Loops',
         \A i \in call'[c].batch : row'[i].lease.by = c =>
           /\ call'[c].read[i] = row'[i].post
           /\ Unanswered(c, i)' => row'[i].verdict = 0,
         call'[c].pc = "insert" /\ Least(call'[c].todo) \in Stored' =>
           LET i == Least(call'[c].todo)
           IN  row'[i].lease.by = c /\ row'[i].state = "classified",
         \A i \in Ids : row'[i] # row[i] => Sound(i)
  PROVE  Safe
<1>1. RowFits' /\ VerdictFitsPost' /\ \A i \in Ids : Stands(i)
  BY DEF Framed, Touched, Sound, Stands, Inv, IInv, RowFits, VerdictFitsPost
<1>2. ASSUME NEW x \in Callers, x # c, NEW i \in call'[x].batch, row'[i].lease.by = x
      PROVE  call'[x].read[i] = row'[i].post /\ (Unanswered(x, i)' => row'[i].verdict = 0)
  <2>1. i \in Ids /\ call'[x] = call[x] /\ x # Nobody
    BY <1>2, NobodyAssumption DEF Framed, Inv, Typed, CallType
  <2>2. row'[i] = row[i]
    BY <1>2, <2>1 DEF Framed, Touched
  <2> QED
    BY <1>2, <2>1, <2>2 DEF Inv, IInv, LeaseFits, Unanswered
<1>3. LeaseFits'
  BY <1>2 DEF LeaseFits
<1>4. ASSUME NEW x \in Callers, x # c, call'[x].pc = "insert", Least(call'[x].todo) \in Stored'
      PROVE  LET i == Least(call'[x].todo)
             IN  row'[i].lease.by = x /\ row'[i].state = "classified"
  <2> DEFINE i == Least(call[x].todo)
  <2>1. i \in Ids /\ call'[x] = call[x] /\ row'[i].state # "gone"
    BY <1>4 DEF Framed, Stored
  <2>2. row[i].state # "gone"
    BY <2>1 DEF Framed, Touched
  <2>3. row[i].lease.by = x /\ row[i].state = "classified"
    BY <1>4, <2>1, <2>2 DEF Inv, IInv, SaveFits, Stored, Owns
  <2>4. row'[i] = row[i]
    BY <1>4, <2>1, <2>3 DEF Framed, Touched
  <2> QED
    BY <2>1, <2>3, <2>4
<1>5. SaveFits'
  BY <1>4 DEF SaveFits, Owns, Stored
<1> QED
  BY <1>1, <1>3, <1>5 DEF Safe, Inv, IInv

-----------------------------------------------------------------------------
(***************************************************************************)
(* The loops over a batch.                                                 *)
(***************************************************************************)
\* Where the loops lead to.
Follows(pc, next) == \/ pc \in {"fail", "apply", "insert"} /\ next = "release"
                     \/ pc = "reset" /\ next = "apply"

\* A loop goes on with the rest, or hands the whole batch to the next loop.
LEMMA OnwardCall ==
  ASSUME Inv, NEW c \in Callers, NEW pc \in {"fail", "reset", "apply"}, NEW next,
         call[c].pc = pc \/ (call[c].pc = "insert" /\ pc = "apply"),
         Follows(pc, next), Onward(c, pc, next)
  PROVE  /\ call' \in [Callers -> CallType] /\ Loops'
         /\ \A x \in Callers : x # c => call'[x] = call[x]
         /\ call'[c].pc \in {pc, next}
         /\ call'[c].batch = call[c].batch /\ call'[c].read = call[c].read
         /\ \A i \in call[c].batch :
              Unanswered(c, i)' => Unanswered(c, i) /\ (pc = "apply" => i # Least(call[c].todo))
<1> DEFINE left == call[c].todo \ {Least(call[c].todo)}
           r == [call[c] EXCEPT !.pc = IF left = {} THEN next ELSE pc,
                                !.todo = IF left = {} THEN call[c].batch ELSE left]
<1>1. call' = [call EXCEPT ![c] = r]
  BY DEF Onward, Inv, Typed, CallType
<1>2. /\ call[c] \in CallType /\ call \in [Callers -> CallType]
      /\ call[c].todo # {} /\ call[c].todo \subseteq call[c].batch
  BY DEF Inv, IInv, Typed, Loops
<1>3. /\ r \in CallType /\ r.batch = call[c].batch /\ r.read = call[c].read
      /\ IF left = {} THEN r.pc = next /\ r.todo = call[c].batch ELSE r.pc = pc /\ r.todo = left
  BY <1>2 DEF CallType, Stages, Follows
<1> HIDE DEF r
<1>4. call' \in [Callers -> CallType] /\ call'[c] = r /\ \A x \in Callers : x # c => call'[x] = call[x]
  BY <1>1, <1>2, <1>3
<1>5. Loops'
  BY <1>2, <1>3, <1>4 DEF Inv, IInv, Loops, Follows
<1> QED
  BY <1>2, <1>3, <1>4, <1>5 DEF Unanswered, Follows

\* A loop writes to a row that the call has not classified yet.
LEMMA LoopWrite ==
  ASSUME Inv, NEW c \in Callers, NEW pc \in {"fail", "reset", "apply"}, NEW next,
         Follows(pc, next), Step(c, pc, next),
         NEW new, Write(c, Least(call[c].todo), new),
         LET i == Least(call[c].todo)
         IN  Owns(c, i) => /\ new \in RowType
                           /\ new.post = row[i].post /\ new.verdict = row[i].verdict
                           /\ new.lease = row[i].lease
                           /\ new.state \in {row[i].state, "needs_review"}
  PROVE  Safe
<1> DEFINE i == Least(call[c].todo)
<1>1. /\ i \in call[c].todo /\ call[c].todo \subseteq call[c].batch /\ call[c].batch \subseteq Ids
      /\ call[c].pc = pc
  BY NextItem DEF Step
<1>2. /\ call' \in [Callers -> CallType] /\ Loops' /\ posts' = posts
      /\ \A x \in Callers : x # c => call'[x] = call[x]
      /\ call'[c].pc \in {pc, next}
      /\ call'[c].batch = call[c].batch /\ call'[c].read = call[c].read
      /\ \A j \in call[c].batch : Unanswered(c, j)' => Unanswered(c, j)
  BY <1>1, OnwardCall DEF Step
<1>3. /\ i \in Ids /\ c # Nobody /\ row \in [Ids -> RowType] /\ posts \in Nat
      /\ \A j \in Ids : j # i => row'[j] = row[j]
      /\ row'[i] = IF Owns(c, i) THEN new ELSE row[i]
  BY <1>1, NobodyAssumption DEF Write, Inv, Typed
<1>4. Owns(c, i) => row[i].state # "gone" /\ row[i].verdict = 0
  BY <1>1, <1>3 DEF Owns, Inv, IInv, RowFits, LeaseFits, Unanswered, NoLease
<1>5. Typed'
  BY <1>2, <1>3 DEF Typed, Write
<1>6. Framed(c)
  BY <1>2, <1>3, <1>4 DEF Framed, Touched, Owns
<1>7. \A j \in call'[c].batch : row'[j].lease.by = c =>
           /\ call'[c].read[j] = row'[j].post
           /\ Unanswered(c, j)' => row'[j].verdict = 0
  BY <1>1, <1>2, <1>3 DEF Inv, IInv, LeaseFits, Owns
<1>8. call'[c].pc # "insert"
  BY <1>2 DEF Follows
<1>9. \A j \in Ids : row'[j] # row[j] => Sound(j)
  BY <1>3, <1>4 DEF Sound, Stands, Inv, IInv, VerdictFitsPost
<1> QED
  BY <1>2, <1>5, <1>6, <1>7, <1>8, <1>9, CallerStep

LEMMA Loop ==
  ASSUME Inv, NEW c \in Callers, FailNext(c) \/ ResetNext(c) \/ ReviewNext(c)
  PROVE  Safe
<1> DEFINE i == Least(call[c].todo)
<1>1. /\ call[c].pc \in {"fail", "reset", "apply"}
      /\ i \in Ids /\ row[i] \in RowType
      /\ Follows("fail", "release") /\ Follows("reset", "apply") /\ Follows("apply", "release")
  BY NextItem DEF FailNext, ResetNext, ReviewNext, Step, Inv, Typed, Follows
<1>2. CASE FailNext(c)
  <2> DEFINE new == [row[i] EXCEPT !.transport = AtMost(@ + 1, MaxTransport),
                                   !.state = IF Exhausted(row[i], Skew(c)) THEN "needs_review"
                                                                           ELSE @]
  <2>1. /\ new \in RowType /\ new.post = row[i].post /\ new.verdict = row[i].verdict
        /\ new.lease = row[i].lease /\ new.state \in {row[i].state, "needs_review"}
    <3> DEFINE s == IF Exhausted(row[i], Skew(c)) THEN "needs_review" ELSE row[i].state
               n == AtMost(row[i].transport + 1, MaxTransport)
    <3>1. row[i].transport \in Int
      BY <1>1 DEF RowType
    <3>2. n \in Int
      BY <3>1, ClassificationAssumption DEF AtMost
    <3>3. s \in {row[i].state, "needs_review"} /\ s \in States \union {"gone"}
      BY <1>1 DEF RowType, States
    <3> HIDE DEF s, n
    <3>4. new = [row[i] EXCEPT !.transport = n, !.state = s]
      BY DEF s, n
    <3> QED
      BY <1>1, <3>2, <3>3, <3>4 DEF RowType
  <2> HIDE DEF new
  <2>2. Write(c, i, new)
    BY <1>2 DEF FailNext, new
  <2>3. Step(c, "fail", "release")
    BY <1>2 DEF FailNext
  <2> QED
    BY <1>1, <2>1, <2>2, <2>3, LoopWrite
<1>3. CASE ResetNext(c)
  <2> DEFINE new == [row[i] EXCEPT !.transport = 0]
  <2>1. /\ new \in RowType /\ new.post = row[i].post /\ new.verdict = row[i].verdict
        /\ new.lease = row[i].lease /\ new.state = row[i].state
    BY <1>1 DEF RowType
  <2> HIDE DEF new
  <2>2. Write(c, i, new)
    BY <1>3 DEF ResetNext, new
  <2>3. Step(c, "reset", "apply")
    BY <1>3 DEF ResetNext
  <2> QED
    BY <1>1, <2>1, <2>2, <2>3, LoopWrite
<1>4. CASE ReviewNext(c)
  <2> DEFINE new == [row[i] EXCEPT !.state = "needs_review", !.attempts = @ + 1]
  <2>1. /\ new \in RowType /\ new.post = row[i].post /\ new.verdict = row[i].verdict
        /\ new.lease = row[i].lease /\ new.state = "needs_review"
    <3>1. row[i].attempts + 1 \in Int /\ "needs_review" \in States
      BY <1>1 DEF RowType, States
    <3> QED
      BY <1>1, <3>1 DEF RowType
  <2> HIDE DEF new
  <2>2. Write(c, i, new)
    BY <1>4 DEF ReviewNext, new
  <2>3. Step(c, "apply", "release")
    BY <1>4 DEF ReviewNext
  <2> QED
    BY <1>1, <2>1, <2>2, <2>3, LoopWrite
<1> QED
  BY <1>2, <1>3, <1>4

LEMMA SaveNothingSafe ==
  ASSUME Inv, NEW c \in Callers, SaveNothing(c)
  PROVE  Safe
<1>1. /\ Step(c, "apply", "release") /\ ~ Owns(c, Least(call[c].todo)) /\ UNCHANGED row
      /\ Follows("apply", "release") /\ row \in [Ids -> RowType]
  BY DEF SaveNothing, Follows, Inv, Typed
<1>2. Write(c, Least(call[c].todo), row[Least(call[c].todo)])
  BY <1>1 DEF Write
<1> QED
  BY <1>1, <1>2, LoopWrite

-----------------------------------------------------------------------------
(***************************************************************************)
(* Steps that leave the rows alone.                                        *)
(***************************************************************************)
\* A pass that asks for nothing, or for what it asked for before.
LEMMA QuietStep ==
  ASSUME Inv, NEW c \in Callers, NEW r \in CallType, call' = [call EXCEPT ![c] = r],
         UNCHANGED <<row, posts>>,
         \/ r.pc \in {"idle", "check"} /\ r.batch = {} /\ r.todo = {}
         \/ /\ call[c].pc = "model" /\ r.pc \in {"fail", "reset"}
            /\ r.batch = call[c].batch /\ r.todo = call[c].batch /\ r.read = call[c].read
  PROVE  Safe
<1>1. /\ call' \in [Callers -> CallType] /\ call'[c] = r
      /\ \A x \in Callers : x # c => call'[x] = call[x]
  BY DEF Inv, Typed
<1>2. Typed'
  BY <1>1 DEF Inv, Typed
<1>3. Framed(c)
  BY <1>1 DEF Framed, Touched
<1>4. Loops'
  BY <1>1 DEF Inv, IInv, Loops
<1>5. \A i \in call'[c].batch : row'[i].lease.by = c =>
           /\ call'[c].read[i] = row'[i].post
           /\ Unanswered(c, i)' => row'[i].verdict = 0
  BY <1>1 DEF Inv, IInv, LeaseFits, Unanswered
<1> QED
  BY <1>1, <1>2, <1>3, <1>4, <1>5, CallerStep

LEMMA Quiet ==
  ASSUME Inv, NEW c \in Callers,
         StartPass(c) \/ Quit(c) \/ Answered(c, "fail") \/ Answered(c, "reset")
  PROVE  Safe
<1>1. CASE StartPass(c)
  <2> DEFINE r == [Idle EXCEPT !.pc = "check", !.max = Greatest(Stored)]
  <2>1. Greatest(Stored) \in Marks
    BY DEF Marks, Stored
  <2>2. r \in CallType /\ r.pc = "check" /\ r.batch = {} /\ r.todo = {}
    BY <2>1, IdleIsCall DEF Idle, CallType, Stages
  <2>3. call' = [call EXCEPT ![c] = r] /\ UNCHANGED <<row, posts>>
    BY <1>1 DEF StartPass
  <2> QED
    BY <2>2, <2>3, QuietStep
<1>2. CASE Quit(c)
  BY <1>2, IdleIsCall, QuietStep DEF Quit, Idle
<1>3. CASE Answered(c, "fail") \/ Answered(c, "reset")
  <2>1. PICK pc \in {"fail", "reset"} : Answered(c, pc)
    BY <1>3
  <2> DEFINE r == [call[c] EXCEPT !.pc = pc, !.todo = call[c].batch]
  <2>2. /\ r \in CallType /\ r.pc = pc
        /\ r.batch = call[c].batch /\ r.todo = call[c].batch /\ r.read = call[c].read
    BY <2>1 DEF Inv, Typed, CallType, Stages
  <2>3. /\ call' = [call EXCEPT ![c] = r] /\ UNCHANGED <<row, posts>>
        /\ call[c].pc = "model"
    BY <2>1 DEF Answered, Inv, Typed
  <2> QED
    BY <2>2, <2>3, QuietStep
<1> QED
  BY <1>1, <1>2, <1>3

-----------------------------------------------------------------------------
(***************************************************************************)
(* save, the leases, and the other parts of the program.                   *)
(***************************************************************************)
\* The state of a row that still waits for this call's answer.
LEMMA SaveStateSafe ==
  ASSUME Inv, NEW c \in Callers, SaveState(c)
  PROVE  Safe
<1> DEFINE i == Least(call[c].todo)
           r == [call[c] EXCEPT !.pc = "insert"]
<1>1. /\ i \in call[c].todo /\ call[c].todo \subseteq call[c].batch /\ call[c].batch \subseteq Ids
      /\ call[c].pc = "apply" /\ row[i].lease.by = c
  BY NextItem DEF SaveState, Owns
<1>2. /\ call' \in [Callers -> CallType]
      /\ call'[c].pc = "insert" /\ call'[c].todo = call[c].todo
      /\ call'[c].batch = call[c].batch /\ call'[c].read = call[c].read
      /\ \A x \in Callers : x # c => call'[x] = call[x]
  BY DEF SaveState, Inv, Typed, CallType, Stages
<1>3. /\ row \in [Ids -> RowType] /\ posts' = posts /\ posts \in Nat /\ c # Nobody
      /\ row' = [row EXCEPT ![i].state = "classified"]
  BY NobodyAssumption DEF SaveState, Inv, Typed
<1>4. /\ row' \in [Ids -> RowType]
      /\ \A j \in Ids : j # i => row'[j] = row[j]
      /\ row'[i].state = "classified" /\ row'[i].lease = row[i].lease
      /\ row'[i].post = row[i].post /\ row'[i].verdict = row[i].verdict
  BY <1>1, <1>3 DEF RowType, States
<1>5. row[i].state # "gone" /\ row[i].verdict = 0
  BY <1>1, <1>3 DEF Inv, IInv, RowFits, LeaseFits, Unanswered, NoLease
<1>6. Typed'
  BY <1>2, <1>3, <1>4 DEF Typed
<1>7. Framed(c)
  BY <1>1, <1>2, <1>3, <1>4, <1>5 DEF Framed, Touched
<1>8. Loops'
  BY <1>1, <1>2 DEF Inv, IInv, Loops
<1>9. \A j \in call'[c].batch : row'[j].lease.by = c =>
           /\ call'[c].read[j] = row'[j].post
           /\ Unanswered(c, j)' => row'[j].verdict = 0
  <2>1. \A j \in Ids : /\ row'[j].lease = row[j].lease /\ row'[j].post = row[j].post
                       /\ row'[j].verdict = row[j].verdict
    BY <1>4
  <2>2. \A j \in Ids : Unanswered(c, j)' => Unanswered(c, j)
    BY <1>1, <1>2 DEF Unanswered
  <2> QED
    BY <1>1, <1>2, <2>1, <2>2 DEF Inv, IInv, LeaseFits
<1>10. \A j \in Ids : row'[j] # row[j] => Sound(j)
  BY <1>4, <1>5 DEF Sound, Stands
<1> QED
  BY <1>1, <1>2, <1>4, <1>6, <1>7, <1>8, <1>9, <1>10, CallerStep

\* The classification of a row that has been left as it was.
LEMMA SaveVerdictSafe ==
  ASSUME Inv, NEW c \in Callers, SaveVerdict(c)
  PROVE  Safe
<1> DEFINE i == Least(call[c].todo)
<1>1. /\ i \in call[c].todo /\ call[c].todo \subseteq call[c].batch /\ call[c].batch \subseteq Ids
      /\ call[c].pc = "insert" /\ posts' = posts /\ posts \in Nat /\ row \in [Ids -> RowType]
      /\ call \in [Callers -> CallType]
  BY NextItem DEF SaveVerdict, Inv, Typed
<1>2. CASE i \in Stored
  <2>1. /\ call' \in [Callers -> CallType] /\ Loops'
        /\ \A x \in Callers : x # c => call'[x] = call[x]
        /\ call'[c].pc \in {"apply", "release"}
        /\ call'[c].batch = call[c].batch /\ call'[c].read = call[c].read
        /\ \A j \in call[c].batch : Unanswered(c, j)' => Unanswered(c, j) /\ j # i
    BY <1>1, <1>2, OnwardCall DEF SaveVerdict, Follows
  <2>2. row[i].lease.by = c /\ row[i].state = "classified"
    BY <1>1, <1>2 DEF Inv, IInv, SaveFits, Owns
  <2>3. call[c].read[i] = row[i].post /\ row[i].verdict = 0 /\ call[c].read[i] \in Nat
    BY <1>1, <2>2 DEF Inv, IInv, LeaseFits, Unanswered, Typed, CallType
  <2>4. row' = [row EXCEPT ![i].verdict = call[c].read[i]]
    BY <1>2 DEF SaveVerdict
  <2>5. /\ row' \in [Ids -> RowType]
        /\ \A j \in Ids : j # i => row'[j] = row[j]
        /\ row'[i].state = "classified" /\ row'[i].lease = row[i].lease
        /\ row'[i].post = row[i].post /\ row'[i].verdict = row[i].post
    BY <1>1, <2>2, <2>3, <2>4 DEF RowType
  <2>6. Typed'
    BY <1>1, <2>1, <2>5 DEF Typed
  <2>7. Framed(c)
    BY <1>1, <2>1, <2>2, <2>5 DEF Framed, Touched
  <2>8. \A j \in call'[c].batch : row'[j].lease.by = c =>
             /\ call'[c].read[j] = row'[j].post
             /\ Unanswered(c, j)' => row'[j].verdict = 0
    BY <1>1, <2>1, <2>5 DEF Inv, IInv, LeaseFits
  <2>9. \A j \in Ids : row'[j] # row[j] => Sound(j)
    BY <2>3, <2>5 DEF Sound, Stands
  <2> QED
    BY <2>1, <2>6, <2>7, <2>8, <2>9, CallerStep
<1>3. CASE i \notin Stored
  <2>1. /\ UNCHANGED row
        /\ call' = [call EXCEPT ![c].pc = "release", ![c].todo = call[c].batch,
                                ![c].after = call[c].max]
    BY <1>3 DEF SaveVerdict
  <2>2. call[c] \in CallType
    BY <1>1
  <2>3. /\ call' \in [Callers -> CallType]
        /\ \A x \in Callers : x # c => call'[x] = call[x]
        /\ call'[c].pc = "release" /\ call'[c].todo = call[c].batch
        /\ call'[c].batch = call[c].batch /\ call'[c].read = call[c].read
    BY <1>1, <2>1, <2>2 DEF CallType, Stages
  <2>4. Typed' /\ Framed(c)
    BY <1>1, <2>1, <2>3 DEF Typed, Framed, Touched
  <2>5. Loops'
    BY <1>1, <2>3 DEF Inv, IInv, Loops
  <2>6. \A j \in call'[c].batch : row'[j].lease.by = c =>
             /\ call'[c].read[j] = row'[j].post
             /\ Unanswered(c, j)' => row'[j].verdict = 0
    BY <1>1, <2>1, <2>3 DEF Inv, IInv, LeaseFits, Unanswered
  <2> QED
    BY <2>1, <2>3, <2>4, <2>5, <2>6, CallerStep
<1> QED
  BY <1>2, <1>3

\* A lease is given back by the call that has it.
LEMMA ReleaseSafe ==
  ASSUME Inv, NEW c \in Callers, ReleaseNext(c)
  PROVE  Safe
<1> DEFINE i == Least(call[c].todo)
<1>1. /\ i \in call[c].todo /\ call[c].todo \subseteq call[c].batch /\ call[c].batch \subseteq Ids
      /\ call[c].pc = "release" /\ posts' = posts /\ posts \in Nat /\ row \in [Ids -> RowType]
      /\ call \in [Callers -> CallType] /\ call[c] \in CallType
  BY NextItem DEF ReleaseNext, Inv, Typed
<1>2. /\ call' \in [Callers -> CallType]
      /\ \A x \in Callers : x # c => call'[x] = call[x]
      /\ \/ call'[c].batch = {} /\ call'[c].todo = {} /\ call'[c].pc = "check"
         \/ /\ call'[c].pc = "release"
            /\ call'[c].batch = call[c].batch /\ call'[c].read = call[c].read
            /\ call'[c].todo = call[c].todo \ {i} /\ call'[c].todo # {}
  <2>1. CASE call[c].todo = {i}
    <3> DEFINE r == [Idle EXCEPT !.pc = "check", !.after = call[c].after,
                                 !.max = call[c].max, !.age = call[c].age]
    <3>1. r \in CallType /\ r.batch = {} /\ r.todo = {} /\ r.pc = "check"
      BY <1>1, IdleIsCall DEF Idle, CallType, Stages
    <3>2. call' = [call EXCEPT ![c] = r]
      BY <2>1 DEF ReleaseNext
    <3> QED
      BY <1>1, <3>1, <3>2
  <2>2. CASE call[c].todo # {i}
    <3>1. call' = [call EXCEPT ![c].todo = call[c].todo \ {i}]
      BY <1>1, <2>2 DEF ReleaseNext
    <3> QED
      BY <1>1, <2>2, <3>1 DEF CallType
  <2> QED
    BY <2>1, <2>2
<1>3. /\ \A j \in Ids : j # i => row'[j] = row[j]
      /\ row'[i] = row[i] \/ (row[i].lease.by = c /\ row'[i] = [row[i] EXCEPT !.lease = NoLease])
      /\ row' \in [Ids -> RowType] /\ c # Nobody
  <2>1. [row[i] EXCEPT !.lease = NoLease] \in RowType
    BY <1>1, GoneIsRow DEF RowType
  <2> QED
    BY <1>1, <2>1, NobodyAssumption DEF ReleaseNext, Write, Owns
<1>4. /\ row'[i].state = row[i].state /\ row'[i].post = row[i].post
      /\ row'[i].verdict = row[i].verdict
      /\ row'[i] # row[i] => row'[i].lease.by = Nobody /\ row[i].lease.by = c
                             /\ row[i].state # "gone"
  BY <1>1, <1>3 DEF RowType, NoLease, Inv, IInv, RowFits
<1>5. Typed' /\ Framed(c)
  BY <1>1, <1>2, <1>3, <1>4 DEF Typed, Framed, Touched
<1>6. Loops'
  BY <1>1, <1>2 DEF Inv, IInv, Loops
<1>7. \A j \in call'[c].batch : row'[j].lease.by = c =>
           /\ call'[c].read[j] = row'[j].post
           /\ Unanswered(c, j)' => row'[j].verdict = 0
  BY <1>1, <1>2, <1>3, <1>4 DEF Inv, IInv, LeaseFits, Unanswered
<1>8. \A j \in Ids : row'[j] # row[j] => Sound(j)
  BY <1>1, <1>3, <1>4 DEF Sound, Stands, Inv, IInv, RowFits, VerdictFitsPost
<1> QED
  BY <1>2, <1>5, <1>6, <1>7, <1>8, CallerStep

\* A batch is leased: rows that are in the queue.
LEMMA ClaimSafe ==
  ASSUME Inv, NEW c \in Callers, ClaimBatch(c)
  PROVE  Safe
<1> DEFINE batch == {i \in Candidates(c) :
                       Cardinality({j \in Candidates(c) : j <= i}) <= BatchSize}
           lease == [by |-> c, left |-> Lease - Skew(c)]
           read == [i \in Ids |-> IF i \in batch THEN row[i].post ELSE 0]
<1>1. /\ call[c].pc = "check" /\ batch # {} /\ posts' = posts
      /\ row' = [i \in Ids |-> IF i \in batch THEN [row[i] EXCEPT !.lease = lease] ELSE row[i]]
      /\ call' = [call EXCEPT ![c].pc = "model", ![c].after = Greatest(batch),
                              ![c].batch = batch, ![c].wait = 0, ![c].read = read]
  BY DEF ClaimBatch
<1>2. /\ batch \subseteq Ids
      /\ \A i \in batch : row[i].state \in {"new", "needs_review"}
  BY DEF Candidates, Stored, Queued
<1>3. /\ row \in [Ids -> RowType] /\ posts \in Nat /\ c # Nobody
      /\ call \in [Callers -> CallType] /\ call[c] \in CallType
      /\ call[c].todo = {}
  BY <1>1, NobodyAssumption DEF Inv, IInv, Loops, Typed
<1>4. lease \in [by : Callers \union {Nobody}, left : Int] /\ lease.by = c
  BY <1>3, ClassificationAssumption DEF Skew, CallType
<1>5. read \in [Ids -> Nat] /\ \A i \in batch : read[i] = row[i].post
  BY <1>2, <1>3 DEF RowType
<1>6. Greatest(batch) \in Marks
  BY <1>2 DEF Marks
<1> HIDE DEF batch, lease, read
<1>7. /\ row' \in [Ids -> RowType]
      /\ \A i \in Ids \ batch : row'[i] = row[i]
      /\ \A i \in batch : /\ row'[i].lease.by = c /\ row'[i].state = row[i].state
                          /\ row'[i].post = row[i].post /\ row'[i].verdict = row[i].verdict
  BY <1>1, <1>2, <1>3, <1>4 DEF RowType
<1>8. /\ call' \in [Callers -> CallType]
      /\ \A x \in Callers : x # c => call'[x] = call[x]
      /\ call'[c].pc = "model" /\ call'[c].todo = {}
      /\ call'[c].batch = batch /\ call'[c].read = read
  <2> DEFINE r == [call[c] EXCEPT !.pc = "model", !.after = Greatest(batch), !.batch = batch,
                                  !.wait = 0, !.read = read]
  <2>1. r \in CallType
    <3>1. batch \in SUBSET Ids /\ read \in [Ids -> Nat] /\ "model" \in Stages /\ 0 \in Int
      BY <1>2, <1>5 DEF Stages
    <3> QED
      BY <1>3, <1>6, <3>1, Zenon DEF CallType
  <2>2. r.pc = "model" /\ r.todo = {} /\ r.batch = batch /\ r.read = read
    BY <1>3 DEF CallType
  <2>3. call' = [call EXCEPT ![c] = r]
    BY <1>1, <1>3 DEF CallType
  <2> HIDE DEF r
  <2> QED
    BY <1>3, <2>1, <2>2, <2>3
<1>9. \A i \in batch : row'[i].verdict = 0
  BY <1>2, <1>7 DEF Inv, IInv, RowFits
<1>10. Typed'
  BY <1>1, <1>3, <1>7, <1>8 DEF Typed
<1>11. Framed(c)
  BY <1>1, <1>2, <1>7, <1>8 DEF Framed, Touched
<1>12. Loops'
  BY <1>1, <1>8 DEF Inv, IInv, Loops
<1>13. \A i \in call'[c].batch : row'[i].lease.by = c =>
           /\ call'[c].read[i] = row'[i].post
           /\ Unanswered(c, i)' => row'[i].verdict = 0
  BY <1>5, <1>7, <1>8, <1>9
<1>14. \A i \in Ids : row'[i] # row[i] => Sound(i)
  BY <1>7, <1>9 DEF Sound, Stands, Inv, IInv, RowFits
<1> QED
  BY <1>8, <1>10, <1>11, <1>12, <1>13, <1>14, CallerStep

\* An insertion, a deletion or a decision changes one row that no save waits for.
LEMMA OthersSafe ==
  ASSUME Inv, NEW i \in Ids, Insert(i) \/ Delete(i) \/ Decide(i)
  PROVE  Safe
<1>1. /\ call' = call /\ row \in [Ids -> RowType] /\ posts \in Nat
      /\ call \in [Callers -> CallType] /\ row[i] \in RowType
  BY DEF Insert, Delete, Decide, Inv, Typed
<1>2. /\ posts' \in Nat /\ posts <= posts' /\ row' \in [Ids -> RowType]
      /\ \A j \in Ids : j # i => row'[j] = row[j]
      /\ \/ /\ row'[i].lease = NoLease /\ row'[i].verdict = 0
            /\ row'[i].post = 0 \/ (row'[i].post = posts + 1 /\ posts' = posts + 1)
         \/ /\ row[i].verdict # 0 /\ row'[i].state = "decided" /\ row'[i].lease = row[i].lease
            /\ row'[i].post = row[i].post /\ row'[i].verdict = row[i].verdict
  <2>1. CASE Insert(i)
    <3> DEFINE new == [Gone EXCEPT !.state = "new", !.post = posts + 1]
    <3>1. new \in RowType /\ new.lease = NoLease /\ new.verdict = 0 /\ new.post = posts + 1
      <4>1. posts + 1 \in Nat /\ "new" \in States
        BY <1>1 DEF States
      <4> QED
        BY <4>1, GoneIsRow DEF Gone, RowType
    <3>2. row' = [row EXCEPT ![i] = new] /\ posts' = posts + 1
      BY <2>1 DEF Insert
    <3> QED
      BY <1>1, <3>1, <3>2
  <2>2. CASE Delete(i)
    BY <1>1, <2>2, GoneIsRow DEF Delete, Gone
  <2>3. CASE Decide(i)
    BY <1>1, <2>3 DEF Decide, RowType, States
  <2> QED
    BY <2>1, <2>2, <2>3
<1>3. Typed'
  BY <1>1, <1>2 DEF Typed
<1>4. Loops'
  BY <1>1 DEF Inv, IInv, Loops
<1>5. LeaseFits'
  <2>1. \A x \in Callers : x # Nobody /\ call[x].batch \subseteq Ids
    BY <1>1, NobodyAssumption DEF CallType
  <2>2. NoLease.by = Nobody
    BY DEF NoLease
  <2>3. ASSUME NEW x \in Callers, NEW j \in call[x].batch, row'[j].lease.by = x
        PROVE  /\ row[j].lease.by = x
               /\ row'[j].post = row[j].post /\ row'[j].verdict = row[j].verdict
    BY <1>2, <2>1, <2>2, <2>3
  <2> QED
    BY <1>1, <2>3 DEF Inv, IInv, LeaseFits, Unanswered
<1>6. SaveFits'
  <2>1. ASSUME NEW x \in Callers, call[x].pc = "insert"
        PROVE  Least(call[x].todo) # i \/ row'[i].state = "gone"
    <3> DEFINE k == Least(call[x].todo)
    <3>1. k \in call[x].todo /\ k \in call[x].batch
      BY <2>1, NextItem
    <3>2. CASE Insert(i)
      BY <2>1, <3>2 DEF Insert
    <3>3. CASE Delete(i)
      BY <1>1, <3>3 DEF Delete, Gone
    <3>4. CASE Decide(i)
      <4>1. SUFFICES ASSUME k = i PROVE FALSE
        OBVIOUS
      <4>2. row[i].verdict # 0
        BY <3>4 DEF Decide
      <4>3. i \in Stored
        BY <4>2 DEF Inv, IInv, RowFits, Stored
      <4>4. row[i].lease.by = x
        BY <2>1, <4>1, <4>3 DEF Inv, IInv, SaveFits, Owns
      <4> QED
        BY <2>1, <3>1, <4>1, <4>2, <4>4 DEF Inv, IInv, LeaseFits, Unanswered
    <3> QED
      BY <3>2, <3>3, <3>4
  <2> QED
    BY <1>1, <1>2, <2>1 DEF Inv, IInv, SaveFits, Stored, Owns
<1>7. RowFits' /\ VerdictFitsPost' /\ \A j \in Ids : Stands(j)
  <2>1. \A j \in Ids : row[j].post \in Nat /\ row[j].verdict \in Nat
    BY <1>1 DEF RowType
  <2> QED
    BY <1>1, <1>2, <2>1 DEF Inv, IInv, RowFits, VerdictFitsPost, Stands
<1> QED
  BY <1>3, <1>4, <1>5, <1>6, <1>7 DEF Safe, Inv, IInv

\* Time changes neither batches nor what the rows hold.
LEMMA TickSafe ==
  ASSUME Inv, Tick
  PROVE  Safe
<1>1. row \in [Ids -> RowType] /\ call \in [Callers -> CallType] /\ posts' = posts /\ posts \in Nat
  BY DEF Tick, Inv, Typed
<1>2. ASSUME NEW i \in Ids
      PROVE  /\ row'[i] \in RowType
             /\ row'[i].lease.by = row[i].lease.by
             /\ row[i].lease = NoLease => row'[i].lease = NoLease
             /\ row'[i].state = row[i].state /\ row'[i].post = row[i].post
             /\ row'[i].verdict = row[i].verdict
  <2> DEFINE age == IF i \in Stored THEN AtMost(row[i].age + 1, OldAge + DigestTicks) ELSE 0
             left == IF row[i].lease = NoLease \/ row[i].lease.left = - DigestTicks
                     THEN row[i].lease.left ELSE row[i].lease.left - 1
             new == [row[i] EXCEPT !.age = age, !.lease.left = left]
  <2>1. row[i] \in RowType
    BY <1>1
  <2>2. age \in Int /\ left \in Int
    BY <2>1, ClassificationAssumption DEF RowType, AtMost
  <2>3. row'[i] = new
    BY <1>2 DEF Tick
  <2>4. row[i].lease = NoLease => left = row[i].lease.left
    OBVIOUS
  <2> HIDE DEF age, left
  <2>5. [row[i].lease EXCEPT !.left = left] \in [by : Callers \union {Nobody}, left : Int]
    BY <2>1, <2>2 DEF RowType
  <2>6. new.lease = [row[i].lease EXCEPT !.left = left]
    BY <2>1 DEF RowType
  <2>7. new \in RowType
    BY <2>1, <2>2, <2>5 DEF RowType
  <2>8. new.lease.by = row[i].lease.by /\ (row[i].lease = NoLease => new.lease = NoLease)
    BY <2>1, <2>4, <2>6 DEF RowType, NoLease
  <2>9. new.state = row[i].state /\ new.post = row[i].post /\ new.verdict = row[i].verdict
    BY <2>1 DEF RowType
  <2> QED
    BY <2>3, <2>7, <2>8, <2>9
<1>3. ASSUME NEW c \in Callers
      PROVE  /\ call'[c] \in CallType
             /\ call'[c].pc = call[c].pc /\ call'[c].batch = call[c].batch
             /\ call'[c].read = call[c].read /\ call'[c].todo = call[c].todo
  <2> DEFINE age == IF c \in Tools /\ call[c].pc # "idle" THEN call[c].age + 1 ELSE 0
             wait == IF call[c].pc = "model" THEN call[c].wait + 1 ELSE 0
  <2>1. call[c] \in CallType
    BY <1>1
  <2>2. age \in Int /\ wait \in Int
    BY <2>1 DEF CallType
  <2>3. call'[c] = [call[c] EXCEPT !.age = age, !.wait = wait]
    BY <1>3 DEF Tick
  <2> HIDE DEF age, wait
  <2> QED
    BY <2>1, <2>2, <2>3 DEF CallType
<1>4. row' \in [Ids -> RowType] /\ call' \in [Callers -> CallType]
  <2>1. DOMAIN row' = Ids /\ row' = [i \in Ids |-> row'[i]]
    BY DEF Tick
  <2>2. DOMAIN call' = Callers /\ call' = [c \in Callers |-> call'[c]]
    BY DEF Tick
  <2> QED
    BY <1>2, <1>3, <2>1, <2>2
<1>5. Typed' /\ Loops'
  BY <1>1, <1>3, <1>4 DEF Typed, Inv, IInv, Loops
<1>6. LeaseFits'
  <2>1. \A c \in Callers : call[c].batch \subseteq Ids
    BY <1>1 DEF CallType
  <2> QED
    BY <1>2, <1>3, <2>1 DEF Inv, IInv, LeaseFits, Unanswered
<1>7. SaveFits'
  BY <1>2, <1>3 DEF Inv, IInv, SaveFits, Stored, Owns
<1>8. RowFits' /\ VerdictFitsPost' /\ \A i \in Ids : Stands(i)
  BY <1>1, <1>2 DEF Inv, IInv, RowFits, VerdictFitsPost, Stands
<1> QED
  BY <1>5, <1>6, <1>7, <1>8 DEF Safe, Inv, IInv

\* A crash forgets passes; their leases run out.
LEMMA CrashSafe ==
  ASSUME Inv, NEW stopped, Crash(stopped)
  PROVE  Safe
<1>1. /\ row' = row /\ posts' = posts
      /\ call' = [c \in Callers |-> IF c \in stopped THEN Idle ELSE call[c]]
  BY DEF Crash
<1>2. Idle.pc = "idle" /\ Idle.batch = {} /\ Idle.todo = {}
  BY DEF Idle
<1>3. Typed'
  BY <1>1, IdleIsCall DEF Inv, Typed
<1>4. Loops' /\ LeaseFits' /\ SaveFits'
  BY <1>1, <1>2 DEF Inv, IInv, Loops, LeaseFits, SaveFits, Unanswered, Stored, Owns
<1>5. RowFits' /\ VerdictFitsPost' /\ \A i \in Ids : Stands(i)
  BY <1>1 DEF Inv, IInv, RowFits, VerdictFitsPost, Stands
<1> QED
  BY <1>3, <1>4, <1>5 DEF Safe, Inv, IInv

-----------------------------------------------------------------------------
LEMMA InitInv == Init => Inv
<1> SUFFICES ASSUME Init PROVE Inv
  OBVIOUS
<1>1. Typed
  BY GoneIsRow, IdleIsCall DEF Init, Typed
<1>2. /\ \A i \in Ids : row[i] = Gone
      /\ \A c \in Callers : call[c].pc = "idle" /\ call[c].batch = {} /\ call[c].todo = {}
  BY DEF Init, Idle
<1>3. IInv
  BY <1>2 DEF IInv, Loops, LeaseFits, SaveFits, RowFits, VerdictFitsPost, Gone, Init
<1> QED
  BY <1>1, <1>3 DEF Inv

\* Every step is safe.
LEMMA NextSafe == Inv /\ [Next]_vars => Safe
<1> SUFFICES ASSUME Inv, [Next]_vars PROVE Safe
  OBVIOUS
<1>1. CASE Others
  BY <1>1, OthersSafe DEF Others
<1>2. ASSUME NEW c \in Callers, StartPass(c) \/ Pass(c) \/ OverBudget(c) PROVE Safe
  <2>1. \/ StartPass(c) \/ Quit(c) \/ Answered(c, "fail") \/ Answered(c, "reset")
        \/ FailNext(c) \/ ResetNext(c) \/ ReviewNext(c)
        \/ SaveNothing(c) \/ SaveState(c) \/ SaveVerdict(c) \/ ReleaseNext(c) \/ ClaimBatch(c)
    BY <1>2 DEF Pass, EndPass, OverBudget
  <2> QED
    BY <2>1, Quiet, Loop, SaveNothingSafe, SaveStateSafe, SaveVerdictSafe, ReleaseSafe, ClaimSafe
<1>3. CASE Tick
  BY <1>3, TickSafe
<1>4. CASE Crash({Worker}) \/ Crash(Tools)
  BY <1>4, CrashSafe
<1>5. CASE UNCHANGED vars
  BY <1>5 DEF vars, Safe, Stands, Inv, IInv, Typed, Loops, LeaseFits, SaveFits, RowFits,
              VerdictFitsPost, Unanswered, Stored, Owns
<1> QED
  BY <1>1, <1>2, <1>3, <1>4, <1>5 DEF Next, Fault, Callers

\* A classification is about the post it is stored with, for any number of
\* passes, items and insertions, any batch size and any length of the lease.
THEOREM VerdictsFit == Spec => []VerdictFitsPost
<1>1. Inv /\ [Next]_vars => Inv'
  BY NextSafe DEF Safe
<1>2. Inv => VerdictFitsPost
  BY DEF Inv, IInv
<1> QED
  BY <1>1, <1>2, InitInv, PTL DEF Spec

\* Nothing but a person's decision changes an item that has been classified.
THEOREM VerdictsStand == Spec => VerdictStands
<1>1. Inv /\ [Next]_vars => Inv'
  BY NextSafe DEF Safe
<1>2. Inv /\ [Next]_vars =>
        [\A i \in Ids : row[i].verdict # 0 /\ row'[i].post = row[i].post =>
           /\ row'[i].verdict = row[i].verdict
           /\ row'[i].state \in {row[i].state, "decided"}]_vars
  BY NextSafe DEF Safe, Stands
<1> QED
  BY <1>1, <1>2, InitInv, PTL DEF Spec, VerdictStands
-----------------------------------------------------------------------------
(***************************************************************************)
(* Types. That attempts stay within their limit needs Trials: whoever has  *)
(* an item under its lease, and has not come to it, has an attempt left.   *)
(***************************************************************************)
Leases == [by : Callers, left : - DigestTicks .. Lease]

\* The limits of a row, and of the clocks of a pass.
Fits(r) ==
  /\ r.lease = NoLease \/ r.lease \in Leases
  /\ r.attempts \in 0 .. MaxAttempts /\ r.transport \in 0 .. MaxTransport
  /\ r.age \in 0 .. OldAge + DigestTicks
  /\ r.state = "gone" => r = Gone
  /\ r.state = "new" => r.attempts = 0
  /\ r.state # "gone" => 1 <= r.post

Clocked(k) == k.age \in 0 .. DigestTicks /\ k.wait \in 0 .. CallTicks

Trials == \A c \in Callers : \A i \in call[c].batch :
  row[i].lease.by = c /\ Unanswered(c, i) => row[i].attempts < MaxAttempts

Bounds ==
  /\ \A i \in Ids : Fits(row[i])
  /\ \A c \in Callers : Clocked(call[c])
  /\ Trials
  /\ posts <= MaxPosts

\* What is bounded is well typed.
LEMMA BoundsType == Inv /\ Bounds => TypeOK
<1> SUFFICES ASSUME Inv, Bounds PROVE TypeOK
  OBVIOUS
<1>1. ASSUME NEW i \in Ids, row[i] # Gone
      PROVE  /\ row[i].state \in States
             /\ row[i].lease = NoLease \/ row[i].lease \in Leases
             /\ row[i].attempts \in 0 .. MaxAttempts
             /\ row[i].transport \in 0 .. MaxTransport
             /\ row[i].age \in 0 .. OldAge + DigestTicks
             /\ row[i].post \in 1 .. posts
             /\ row[i].verdict \in 0 .. posts
  <2>1. /\ row[i] \in RowType /\ posts \in Nat /\ row[i].post <= posts
        /\ row[i].verdict \in {0, row[i].post} /\ Fits(row[i])
    BY DEF Inv, IInv, Typed, RowFits, VerdictFitsPost, Bounds
  <2>2. row[i].state # "gone"
    BY <1>1, <2>1 DEF Fits
  <2> QED
    BY <2>1, <2>2 DEF Fits, RowType
<1>2. ASSUME NEW c \in Callers
      PROVE  /\ call[c].pc \in Stages /\ call[c].batch \subseteq Ids
             /\ call[c].todo \subseteq call[c].batch
             /\ call[c].age \in 0 .. DigestTicks /\ call[c].wait \in 0 .. CallTicks
  BY DEF Inv, IInv, Typed, CallType, Loops, Bounds, Clocked
<1>3. posts \in 0 .. MaxPosts
  BY ClassificationAssumption DEF Inv, Typed, Bounds
<1> QED
  BY <1>1, <1>2, <1>3 DEF TypeOK, Leases, Stages

\* An absent row, no lease and an idle pass are within the limits.
LEMMA GoneFits == Fits(Gone) /\ Clocked(Idle)
  BY ClassificationAssumption DEF Fits, Gone, Clocked, Idle

\* A pass writes rows that it has leased or frees: the others keep their trials.
LEMMA TrialsStep ==
  ASSUME Inv, Bounds, NEW c \in Callers,
         \A x \in Callers : x # c => call'[x] = call[x],
         \A j \in Ids : row'[j] = row[j] \/ row'[j].lease.by \in {c, Nobody},
         \A j \in call'[c].batch : row'[j].lease.by = c /\ Unanswered(c, j)' =>
           row'[j].attempts < MaxAttempts
  PROVE  Trials'
<1>1. ASSUME NEW x \in Callers, x # c, NEW j \in call'[x].batch,
             row'[j].lease.by = x, Unanswered(x, j)'
      PROVE  row'[j].attempts < MaxAttempts
  <2>1. j \in Ids /\ call'[x] = call[x] /\ x # Nobody
    BY <1>1, NobodyAssumption DEF Inv, Typed, CallType
  <2>2. row'[j] = row[j]
    BY <1>1, <2>1
  <2> QED
    BY <1>1, <2>1, <2>2 DEF Bounds, Trials, Unanswered
<1> QED
  BY <1>1 DEF Trials

\* What a pass has under its lease is stored.
LEMMA OwnsStored ==
  ASSUME Inv, NEW c \in Callers, NEW i \in Ids, Owns(c, i)
  PROVE  row[i].state # "gone"
  BY NobodyAssumption DEF Owns, Inv, IInv, RowFits, NoLease

\* A loop keeps the clocks of its pass.
LEMMA OnwardClock ==
  ASSUME Inv, NEW c \in Callers, NEW pc, NEW next, Onward(c, pc, next)
  PROVE  call'[c].age = call[c].age /\ call'[c].wait = call[c].wait
<1>1. call[c] \in CallType /\ call \in [Callers -> CallType]
  BY DEF Inv, Typed
<1> QED
  BY <1>1 DEF Onward, CallType

\* A step of a loop that writes one row within the limits, or none.
LEMMA LoopBounds ==
  ASSUME Inv, Bounds, NEW c \in Callers, NEW pc \in {"fail", "reset", "apply"}, NEW next,
         Follows(pc, next), Step(c, pc, next),
         NEW new, Write(c, Least(call[c].todo), new),
         LET i == Least(call[c].todo)
         IN  Owns(c, i) => /\ Fits(new) /\ new.lease = row[i].lease
                           /\ pc = "apply" \/ new.attempts = row[i].attempts
  PROVE  Bounds'
<1> DEFINE i == Least(call[c].todo)
<1>1. /\ i \in call[c].todo /\ call[c].todo \subseteq call[c].batch /\ call[c].batch \subseteq Ids
      /\ call[c].pc = pc
  BY NextItem DEF Step
<1>2. /\ posts' = posts /\ \A x \in Callers : x # c => call'[x] = call[x]
      /\ call'[c].batch = call[c].batch
      /\ \A j \in call[c].batch :
           Unanswered(c, j)' => Unanswered(c, j) /\ (pc = "apply" => j # i)
  BY <1>1, OnwardCall DEF Step
<1>3. call'[c].age = call[c].age /\ call'[c].wait = call[c].wait
  BY OnwardClock DEF Step
<1>4. /\ i \in Ids /\ \A j \in Ids : j # i => row'[j] = row[j]
      /\ row'[i] = IF Owns(c, i) THEN new ELSE row[i]
  BY <1>1 DEF Write, Inv, Typed
<1>5. \A j \in Ids : Fits(row'[j])
  BY <1>4 DEF Bounds
<1>6. \A x \in Callers : Clocked(call'[x])
  BY <1>2, <1>3 DEF Bounds, Clocked
<1>7. Trials'
  <2>1. \A j \in Ids : row'[j] = row[j] \/ row'[j].lease.by \in {c, Nobody}
    BY <1>4 DEF Owns
  <2>2. ASSUME NEW j \in call'[c].batch, row'[j].lease.by = c, Unanswered(c, j)'
        PROVE  row'[j].attempts < MaxAttempts
    <3>1. j \in call[c].batch /\ j \in Ids /\ Unanswered(c, j) /\ (pc = "apply" => j # i)
      BY <1>1, <1>2, <2>2
    <3>2. row[j].lease.by = c /\ row'[j].attempts = row[j].attempts
      BY <1>4, <2>2, <3>1
    <3> QED
      BY <3>1, <3>2 DEF Bounds, Trials
  <2> QED
    BY <1>2, <2>1, <2>2, TrialsStep
<1> QED
  BY <1>2, <1>5, <1>6, <1>7 DEF Bounds

\* The three loops over a batch, and the one of save that finds its lease gone.
LEMMA LoopsBounded ==
  ASSUME Inv, Bounds, NEW c \in Callers,
         FailNext(c) \/ ResetNext(c) \/ ReviewNext(c) \/ SaveNothing(c)
  PROVE  Bounds'
<1> DEFINE i == Least(call[c].todo)
<1>1. /\ call[c].pc \in {"fail", "reset", "apply"}
      /\ i \in call[c].todo /\ i \in call[c].batch /\ i \in Ids /\ row[i] \in RowType
      /\ Follows("fail", "release") /\ Follows("reset", "apply") /\ Follows("apply", "release")
  BY NextItem DEF FailNext, ResetNext, ReviewNext, SaveNothing, Step, Inv, Typed, Follows
<1>2. Fits(row[i]) /\ (Owns(c, i) => row[i].state # "gone")
  BY <1>1, OwnsStored DEF Bounds
<1>3. CASE FailNext(c)
  <2> DEFINE s == IF Exhausted(row[i], Skew(c)) THEN "needs_review" ELSE row[i].state
             n == AtMost(row[i].transport + 1, MaxTransport)
             new == [row[i] EXCEPT !.transport = n, !.state = s]
  <2>1. Step(c, "fail", "release") /\ Write(c, i, new)
    BY <1>3 DEF FailNext
  <2>2. n \in 0 .. MaxTransport
    BY <1>2, ClassificationAssumption DEF Fits, AtMost
  <2>3. s \in {row[i].state, "needs_review"}
    OBVIOUS
  <2> HIDE DEF s, n
  <2>4. /\ new.lease = row[i].lease /\ new.attempts = row[i].attempts /\ new.transport = n
        /\ new.age = row[i].age /\ new.post = row[i].post /\ new.state = s
    BY <1>1 DEF RowType
  <2> HIDE DEF new
  <2>5. Owns(c, i) => Fits(new)
    BY <1>2, <2>2, <2>3, <2>4 DEF Fits
  <2> QED
    BY <1>1, <2>1, <2>4, <2>5, LoopBounds
<1>4. CASE ResetNext(c)
  <2> DEFINE new == [row[i] EXCEPT !.transport = 0]
  <2>1. Step(c, "reset", "apply") /\ Write(c, i, new)
    BY <1>4 DEF ResetNext
  <2>2. /\ new.lease = row[i].lease /\ new.attempts = row[i].attempts /\ new.transport = 0
        /\ new.age = row[i].age /\ new.post = row[i].post /\ new.state = row[i].state
    BY <1>1 DEF RowType
  <2> HIDE DEF new
  <2>3. Owns(c, i) => Fits(new)
    BY <1>2, <2>2, ClassificationAssumption DEF Fits
  <2> QED
    BY <1>1, <2>1, <2>2, <2>3, LoopBounds
<1>5. CASE ReviewNext(c)
  <2> DEFINE n == row[i].attempts + 1
             new == [row[i] EXCEPT !.state = "needs_review", !.attempts = n]
  <2>1. Step(c, "apply", "release") /\ Write(c, i, new)
    BY <1>5 DEF ReviewNext
  <2>2. Owns(c, i) => n \in 0 .. MaxAttempts
    <3>1. call[c].pc = "apply"
      BY <2>1 DEF Step
    <3>2. Owns(c, i) => row[i].attempts < MaxAttempts
      BY <1>1, <3>1 DEF Bounds, Trials, Unanswered, Owns
    <3> QED
      BY <1>2, <3>2, ClassificationAssumption DEF Fits
  <2> HIDE DEF n
  <2>3. /\ new.lease = row[i].lease /\ new.attempts = n /\ new.transport = row[i].transport
        /\ new.age = row[i].age /\ new.post = row[i].post /\ new.state = "needs_review"
    BY <1>1 DEF RowType
  <2> HIDE DEF new
  <2>4. Owns(c, i) => Fits(new)
    BY <1>2, <2>2, <2>3 DEF Fits
  <2> QED
    BY <1>1, <2>1, <2>3, <2>4, LoopBounds
<1>6. CASE SaveNothing(c)
  <2>1. Step(c, "apply", "release") /\ Write(c, i, row[i]) /\ ~ Owns(c, i)
    BY <1>6 DEF SaveNothing, Write, Inv, Typed
  <2> QED
    BY <1>1, <2>1, LoopBounds
<1> QED
  BY <1>3, <1>4, <1>5, <1>6

\* The two statements of save.
LEMMA SaveBounded ==
  ASSUME Inv, Bounds, NEW c \in Callers, SaveState(c) \/ SaveVerdict(c)
  PROVE  Bounds'
<1> DEFINE i == Least(call[c].todo)
<1>1. /\ call[c].pc \in {"apply", "insert"} /\ posts' = posts
      /\ i \in call[c].todo /\ i \in call[c].batch /\ i \in Ids /\ call[c].batch \subseteq Ids
      /\ row[i] \in RowType /\ call[c] \in CallType
      /\ row \in [Ids -> RowType] /\ call \in [Callers -> CallType]
  BY NextItem DEF SaveState, SaveVerdict, Step, Inv, Typed
<1>2. /\ \A j \in Ids : j # i => row'[j] = row[j]
      /\ \/ row'[i] = row[i]
         \/ /\ row[i].state # "gone"
            /\ row'[i].state \in {row[i].state, "classified"}
            /\ row'[i].lease = row[i].lease /\ row'[i].attempts = row[i].attempts
            /\ row'[i].transport = row[i].transport /\ row'[i].age = row[i].age
            /\ row'[i].post = row[i].post
            /\ Owns(c, i)
  <2>1. CASE SaveState(c)
    <3>1. row' = [row EXCEPT ![i].state = "classified"] /\ Owns(c, i)
      BY <2>1 DEF SaveState
    <3> QED
      BY <1>1, <3>1, OwnsStored DEF RowType
  <2>2. CASE SaveVerdict(c) /\ i \in Stored
    <3>1. row' = [row EXCEPT ![i].verdict = call[c].read[i]] /\ call[c].pc = "insert"
      BY <2>2 DEF SaveVerdict
    <3>2. Owns(c, i)
      BY <2>2, <3>1 DEF Inv, IInv, SaveFits
    <3> QED
      BY <1>1, <2>2, <3>1, <3>2 DEF RowType, Stored
  <2>3. CASE SaveVerdict(c) /\ i \notin Stored
    BY <2>3 DEF SaveVerdict
  <2> QED
    BY <2>1, <2>2, <2>3
<1>3. /\ \A x \in Callers : x # c => call'[x] = call[x]
      /\ call'[c].batch = call[c].batch
      /\ call'[c].age = call[c].age /\ call'[c].wait = call[c].wait
      /\ \A j \in call[c].batch : Unanswered(c, j)' => Unanswered(c, j)
  <2>1. CASE SaveState(c)
    <3>1. call' = [call EXCEPT ![c].pc = "insert"] /\ call[c].pc = "apply"
      BY <2>1 DEF SaveState
    <3> QED
      BY <1>1, <3>1 DEF CallType, Unanswered
  <2>2. CASE SaveVerdict(c) /\ i \in Stored
    <3>1. Onward(c, "apply", "release") /\ call[c].pc = "insert" /\ Follows("apply", "release")
      BY <2>2 DEF SaveVerdict, Follows
    <3> QED
      BY <3>1, OnwardCall, OnwardClock
  <2>3. CASE SaveVerdict(c) /\ i \notin Stored
    <3>1. call' = [call EXCEPT ![c].pc = "release", ![c].todo = call[c].batch,
                               ![c].after = call[c].max]
      BY <2>3 DEF SaveVerdict
    <3> QED
      BY <1>1, <3>1 DEF CallType, Unanswered
  <2> QED
    BY <2>1, <2>2, <2>3
<1>4. \A j \in Ids : Fits(row'[j])
  BY <1>1, <1>2 DEF Bounds, Fits
<1>5. \A x \in Callers : Clocked(call'[x])
  BY <1>3 DEF Bounds, Clocked
<1>6. Trials'
  <2>1. \A j \in Ids : row'[j] = row[j] \/ row'[j].lease.by \in {c, Nobody}
    BY <1>2 DEF Owns
  <2>2. ASSUME NEW j \in call'[c].batch, row'[j].lease.by = c, Unanswered(c, j)'
        PROVE  row'[j].attempts < MaxAttempts
    <3>1. j \in call[c].batch /\ j \in Ids /\ Unanswered(c, j)
      BY <1>1, <1>3, <2>2
    <3>2. row[j].lease.by = c /\ row'[j].attempts = row[j].attempts
      BY <1>2, <2>2, <3>1
    <3> QED
      BY <3>1, <3>2 DEF Bounds, Trials
  <2> QED
    BY <1>3, <2>1, <2>2, TrialsStep
<1> QED
  BY <1>1, <1>4, <1>5, <1>6 DEF Bounds

\* The beginning and the end of a pass, and the end of its call of the model.
LEMMA QuietBounded ==
  ASSUME Inv, Bounds, NEW c \in Callers,
         StartPass(c) \/ Quit(c) \/ Answered(c, "fail") \/ Answered(c, "reset")
  PROVE  Bounds'
<1>1. /\ UNCHANGED <<row, posts>> /\ call[c] \in CallType /\ call \in [Callers -> CallType]
  BY DEF StartPass, Quit, Answered, Inv, Typed
<1>2. /\ \A x \in Callers : x # c => call'[x] = call[x]
      /\ Clocked(call'[c])
      /\ \/ call'[c].batch = {}
         \/ call[c].pc = "model" /\ call'[c].batch = call[c].batch
  <2>1. CASE StartPass(c)
    <3>1. call' = [call EXCEPT ![c] = [Idle EXCEPT !.pc = "check", !.max = Greatest(Stored)]]
      BY <2>1 DEF StartPass
    <3> QED
      BY <1>1, <3>1, GoneFits DEF Idle, Clocked
  <2>2. CASE Quit(c)
    BY <1>1, <2>2, GoneFits DEF Quit, Idle
  <2>3. CASE Answered(c, "fail") \/ Answered(c, "reset")
    <3>1. PICK pc \in {"fail", "reset"} : Answered(c, pc)
      BY <2>3
    <3>2. /\ call' = [call EXCEPT ![c].pc = pc, ![c].todo = call[c].batch]
          /\ call[c].pc = "model"
      BY <3>1 DEF Answered
    <3>3. /\ \A x \in Callers : x # c => call'[x] = call[x]
          /\ call'[c].batch = call[c].batch
          /\ call'[c].age = call[c].age /\ call'[c].wait = call[c].wait
      BY <1>1, <3>2 DEF CallType
    <3> QED
      BY <3>2, <3>3 DEF Bounds, Clocked
  <2> QED
    BY <2>1, <2>2, <2>3
<1>3. Trials'
  <2>1. ASSUME NEW j \in call'[c].batch, row'[j].lease.by = c
        PROVE  row'[j].attempts < MaxAttempts
    BY <1>1, <1>2, <2>1 DEF Bounds, Trials, Unanswered
  <2> QED
    BY <1>1, <1>2, <2>1, TrialsStep
<1> QED
  BY <1>1, <1>2, <1>3 DEF Bounds

\* A lease is given back.
LEMMA ReleaseBounded ==
  ASSUME Inv, Bounds, NEW c \in Callers, ReleaseNext(c)
  PROVE  Bounds'
<1> DEFINE i == Least(call[c].todo)
<1>1. /\ call[c].pc = "release" /\ posts' = posts
      /\ i \in Ids /\ call[c].batch \subseteq Ids
      /\ row[i] \in RowType /\ call[c] \in CallType
      /\ row \in [Ids -> RowType] /\ call \in [Callers -> CallType]
  BY NextItem DEF ReleaseNext, Inv, Typed
<1>2. /\ \A x \in Callers : x # c => call'[x] = call[x]
      /\ Clocked(call'[c])
      /\ call'[c].pc \in {"check", "release"}
  <2>1. CASE call[c].todo = {i}
    <3>1. call' = [call EXCEPT ![c] = [Idle EXCEPT !.pc = "check", !.after = call[c].after,
                                                   !.max = call[c].max, !.age = call[c].age]]
      BY <2>1 DEF ReleaseNext
    <3> QED
      BY <1>1, <3>1, GoneFits DEF Idle, Bounds, Clocked
  <2>2. CASE call[c].todo # {i}
    <3>1. call' = [call EXCEPT ![c].todo = @ \ {i}]
      BY <2>2 DEF ReleaseNext
    <3> QED
      BY <1>1, <3>1 DEF CallType, Bounds, Clocked
  <2> QED
    BY <2>1, <2>2
<1>3. /\ \A j \in Ids : j # i => row'[j] = row[j]
      /\ row'[i] = row[i] \/ (Owns(c, i) /\ row'[i] = [row[i] EXCEPT !.lease = NoLease])
  BY <1>1 DEF ReleaseNext, Write
<1>4. ASSUME row'[i] # row[i]
      PROVE  Fits(row'[i]) /\ row'[i].lease.by = Nobody
  <2>1. /\ row'[i].lease = NoLease /\ row'[i].attempts = row[i].attempts
        /\ row'[i].transport = row[i].transport /\ row'[i].age = row[i].age
        /\ row'[i].state = row[i].state /\ row'[i].post = row[i].post
        /\ row[i].state # "gone"
    BY <1>1, <1>3, <1>4, OwnsStored DEF RowType
  <2> QED
    BY <1>1, <2>1 DEF Bounds, Fits, NoLease
<1>5. \A j \in Ids : Fits(row'[j])
  BY <1>3, <1>4 DEF Bounds
<1>6. Trials'
  BY <1>2, <1>3, <1>4, TrialsStep DEF Unanswered
<1> QED
  BY <1>1, <1>2, <1>5, <1>6 DEF Bounds

\* A batch is leased: each of its items has an attempt left.
LEMMA ClaimBounded ==
  ASSUME Inv, Bounds, NEW c \in Callers, ClaimBatch(c)
  PROVE  Bounds'
<1> DEFINE batch == {i \in Candidates(c) :
                       Cardinality({j \in Candidates(c) : j <= i}) <= BatchSize}
           lease == [by |-> c, left |-> Lease - Skew(c)]
           read == [i \in Ids |-> IF i \in batch THEN row[i].post ELSE 0]
<1>1. /\ posts' = posts
      /\ row' = [i \in Ids |-> IF i \in batch THEN [row[i] EXCEPT !.lease = lease] ELSE row[i]]
      /\ call' = [call EXCEPT ![c].pc = "model", ![c].after = Greatest(batch),
                              ![c].batch = batch, ![c].wait = 0, ![c].read = read]
  BY DEF ClaimBatch
<1>2. /\ batch \subseteq Ids
      /\ \A i \in batch : row[i].state # "gone" /\ Queued(i, Skew(c))
  BY DEF Candidates, Stored
<1>3. /\ row \in [Ids -> RowType] /\ call \in [Callers -> CallType] /\ call[c] \in CallType
  BY DEF Inv, Typed
<1>4. lease \in Leases /\ lease.by = c
  <2>1. Skew(c) \in 0 .. DigestTicks
    BY ClassificationAssumption DEF Skew, Bounds, Clocked
  <2> QED
    BY <2>1, ClassificationAssumption DEF Leases
<1> HIDE DEF batch, lease, read
<1>5. \A i \in batch : row[i].attempts < MaxAttempts
  BY <1>2, ClassificationAssumption DEF Queued, Bounds, Fits
<1>6. ASSUME NEW i \in batch
      PROVE  Fits(row'[i]) /\ row'[i].lease = lease /\ row'[i].attempts = row[i].attempts
  <2>1. /\ row'[i].lease = lease /\ row'[i].attempts = row[i].attempts
        /\ row'[i].transport = row[i].transport /\ row'[i].age = row[i].age
        /\ row'[i].state = row[i].state /\ row'[i].post = row[i].post
    BY <1>1, <1>2, <1>3 DEF RowType
  <2> QED
    BY <1>2, <1>4, <2>1 DEF Bounds, Fits
<1>7. \A i \in Ids \ batch : row'[i] = row[i]
  BY <1>1
<1>8. /\ \A x \in Callers : x # c => call'[x] = call[x]
      /\ call'[c].batch = batch /\ call'[c].age = call[c].age /\ call'[c].wait = 0
  BY <1>1, <1>3 DEF CallType
<1>9. \A i \in Ids : Fits(row'[i])
  BY <1>6, <1>7 DEF Bounds
<1>10. \A x \in Callers : Clocked(call'[x])
  BY <1>8, ClassificationAssumption DEF Bounds, Clocked
<1>11. Trials'
  <2>1. \A j \in Ids : row'[j] = row[j] \/ row'[j].lease.by \in {c, Nobody}
    BY <1>4, <1>6, <1>7
  <2>2. \A j \in call'[c].batch : row'[j].attempts < MaxAttempts
    BY <1>5, <1>6, <1>8
  <2> QED
    BY <1>8, <2>1, <2>2, TrialsStep
<1> QED
  BY <1>1, <1>9, <1>10, <1>11 DEF Bounds

\* An insertion, a deletion or a decision.
LEMMA OthersBounded ==
  ASSUME Inv, Bounds, NEW i \in Ids, Insert(i) \/ Delete(i) \/ Decide(i)
  PROVE  Bounds'
<1>1. /\ call' = call /\ row \in [Ids -> RowType] /\ posts \in Nat
      /\ call \in [Callers -> CallType] /\ row[i] \in RowType
  BY DEF Insert, Delete, Decide, Inv, Typed
<1>2. /\ posts' <= MaxPosts
      /\ \A j \in Ids : j # i => row'[j] = row[j]
      /\ Fits(row'[i])
      /\ \/ row'[i].lease = NoLease
         \/ row'[i].lease = row[i].lease /\ row'[i].attempts = row[i].attempts
  <2>1. CASE Insert(i)
    <3> DEFINE new == [Gone EXCEPT !.state = "new", !.post = posts + 1]
    <3>1. /\ new.lease = NoLease /\ new.attempts = 0 /\ new.transport = 0 /\ new.age = 0
          /\ new.state = "new" /\ new.post = posts + 1
      BY DEF Gone
    <3> HIDE DEF new
    <3>2. Fits(new)
      BY <1>1, <3>1, ClassificationAssumption DEF Fits
    <3>3. row' = [row EXCEPT ![i] = new] /\ posts' = posts + 1 /\ posts < MaxPosts
      BY <2>1 DEF Insert, new
    <3> QED
      BY <1>1, <3>1, <3>2, <3>3, ClassificationAssumption
  <2>2. CASE Delete(i)
    <3>1. row' = [row EXCEPT ![i] = Gone] /\ posts' = posts
      BY <2>2 DEF Delete
    <3>2. Gone.lease = NoLease
      BY DEF Gone
    <3> QED
      BY <1>1, <3>1, <3>2, GoneFits DEF Bounds
  <2>3. CASE Decide(i)
    <3>1. /\ row' = [row EXCEPT ![i].state = "decided"] /\ posts' = posts
          /\ row[i].state # "gone"
      BY <2>3 DEF Decide, Inv, IInv, RowFits
    <3>2. /\ \A j \in Ids : j # i => row'[j] = row[j]
          /\ row'[i].lease = row[i].lease /\ row'[i].attempts = row[i].attempts
          /\ row'[i].transport = row[i].transport /\ row'[i].age = row[i].age
          /\ row'[i].post = row[i].post /\ row'[i].state = "decided"
      BY <1>1, <3>1 DEF RowType
    <3>3. Fits(row'[i])
      BY <3>1, <3>2 DEF Bounds, Fits
    <3> QED
      BY <3>1, <3>2, <3>3 DEF Bounds
  <2> QED
    BY <2>1, <2>2, <2>3
<1>3. Trials'
  <2>1. \A c \in Callers : c # Nobody /\ call[c].batch \subseteq Ids
    BY <1>1, NobodyAssumption DEF CallType
  <2>2. NoLease.by = Nobody
    BY DEF NoLease
  <2>3. ASSUME NEW c \in Callers, NEW j \in call[c].batch, row'[j].lease.by = c
        PROVE  row[j].lease.by = c /\ row'[j].attempts = row[j].attempts
    BY <1>2, <2>1, <2>2, <2>3
  <2> QED
    BY <1>1, <2>3 DEF Bounds, Trials, Unanswered
<1> QED
  BY <1>1, <1>2, <1>3 DEF Bounds

\* Time passes only while the clocks of all passes have room for it.
LEMMA TickBounded ==
  ASSUME Inv, Bounds, Tick
  PROVE  Bounds'
<1>1. row \in [Ids -> RowType] /\ call \in [Callers -> CallType] /\ posts' = posts
  BY DEF Tick, Inv, Typed
<1>2. ASSUME NEW i \in Ids
      PROVE  /\ Fits(row'[i])
             /\ row'[i].lease.by = row[i].lease.by /\ row'[i].attempts = row[i].attempts
  <2> DEFINE age == IF i \in Stored THEN AtMost(row[i].age + 1, OldAge + DigestTicks) ELSE 0
             left == IF row[i].lease = NoLease \/ row[i].lease.left = - DigestTicks
                     THEN row[i].lease.left ELSE row[i].lease.left - 1
             lease == [row[i].lease EXCEPT !.left = left]
             new == [row[i] EXCEPT !.age = age, !.lease = lease]
  <2>1. row[i] \in RowType /\ Fits(row[i])
    BY <1>1 DEF Bounds
  <2>2. row'[i] = new
    BY <1>2, <2>1 DEF Tick, RowType
  <2>3. age \in 0 .. OldAge + DigestTicks
    BY <2>1, ClassificationAssumption DEF Fits, AtMost
  <2>4. lease.by = row[i].lease.by /\ (lease = NoLease \/ lease \in Leases)
    <3>1. CASE row[i].lease = NoLease
      BY <3>1 DEF NoLease
    <3>2. CASE row[i].lease \in Leases
      <4>1. left \in - DigestTicks .. Lease
        BY <2>1, <3>2, ClassificationAssumption DEF Leases, NoLease
      <4> HIDE DEF left
      <4> QED
        BY <3>2, <4>1 DEF Leases
    <3> QED
      BY <2>1, <3>1, <3>2 DEF Fits
  <2>5. row[i] = Gone => age = Gone.age /\ lease = Gone.lease
    BY DEF Gone, NoLease, Stored
  <2> HIDE DEF age, lease
  <2>6. /\ new.lease = lease /\ new.attempts = row[i].attempts /\ new.age = age
        /\ new.transport = row[i].transport
        /\ new.state = row[i].state /\ new.post = row[i].post
    BY <2>1 DEF RowType
  <2>7. row[i] = Gone => new = Gone
    BY <2>5 DEF Gone
  <2> HIDE DEF new
  <2>8. Fits(new)
    BY <2>1, <2>3, <2>4, <2>6, <2>7 DEF Fits
  <2> QED
    BY <2>2, <2>4, <2>6, <2>8
<1>3. ASSUME NEW c \in Callers
      PROVE  /\ Clocked(call'[c])
             /\ call'[c].pc = call[c].pc /\ call'[c].batch = call[c].batch
             /\ call'[c].todo = call[c].todo
  <2> DEFINE age == IF c \in Tools /\ call[c].pc # "idle" THEN call[c].age + 1 ELSE 0
             wait == IF call[c].pc = "model" THEN call[c].wait + 1 ELSE 0
  <2>1. call[c] \in CallType /\ Clocked(call[c])
    BY <1>1 DEF Bounds
  <2>2. age \in 0 .. DigestTicks
    <3>1. c \in Tools /\ call[c].pc # "idle" => call[c].age < DigestTicks
      BY DEF Tick
    <3> QED
      BY <2>1, <3>1, ClassificationAssumption DEF Clocked
  <2>3. wait \in 0 .. CallTicks
    <3>1. call[c].pc = "model" => call[c].wait < CallTicks
      BY DEF Tick
    <3> QED
      BY <2>1, <3>1, ClassificationAssumption DEF Clocked
  <2>4. call'[c] = [call[c] EXCEPT !.age = age, !.wait = wait]
    BY <1>3 DEF Tick
  <2> HIDE DEF age, wait
  <2> QED
    BY <2>1, <2>2, <2>3, <2>4 DEF CallType, Clocked
<1>4. Trials'
  <2>1. \A c \in Callers : call[c].batch \subseteq Ids
    BY <1>1 DEF CallType
  <2> QED
    BY <1>2, <1>3, <2>1 DEF Bounds, Trials, Unanswered
<1> QED
  BY <1>1, <1>2, <1>3, <1>4 DEF Bounds

\* Every step stays within the limits.
LEMMA BoundsStep == Inv /\ Bounds /\ [Next]_vars => Bounds'
<1> SUFFICES ASSUME Inv, Bounds, [Next]_vars PROVE Bounds'
  OBVIOUS
<1>1. CASE Others
  BY <1>1, OthersBounded DEF Others
<1>2. ASSUME NEW c \in Callers, StartPass(c) \/ Pass(c) \/ OverBudget(c) PROVE Bounds'
  <2>1. \/ StartPass(c) \/ Quit(c) \/ Answered(c, "fail") \/ Answered(c, "reset")
        \/ FailNext(c) \/ ResetNext(c) \/ ReviewNext(c)
        \/ SaveNothing(c) \/ SaveState(c) \/ SaveVerdict(c) \/ ReleaseNext(c) \/ ClaimBatch(c)
    BY <1>2 DEF Pass, EndPass, OverBudget
  <2> QED
    BY <2>1, QuietBounded, LoopsBounded, SaveBounded, ReleaseBounded, ClaimBounded
<1>3. CASE Tick
  BY <1>3, TickBounded
<1>4. CASE Crash({Worker}) \/ Crash(Tools)
  <2>1. PICK stopped \in {{Worker}, Tools} : Crash(stopped)
    BY <1>4
  <2>2. /\ UNCHANGED <<row, posts>>
        /\ \A c \in Callers : call'[c] = Idle \/ call'[c] = call[c]
    BY <2>1 DEF Crash
  <2>3. Idle.batch = {}
    BY DEF Idle
  <2> QED
    BY <2>2, <2>3, GoneFits DEF Bounds, Trials, Unanswered
<1>5. CASE UNCHANGED vars
  BY <1>5 DEF vars, Bounds, Trials, Unanswered
<1> QED
  BY <1>1, <1>2, <1>3, <1>4, <1>5 DEF Next, Fault, Callers

\* Every variable keeps its type, and attempts stay within their limits: a pass
\* that still has its lease on an item it has not come to has an attempt left.
THEOREM TypeCorrect == Spec => []TypeOK
<1>1. Inv /\ Bounds /\ [Next]_vars => (Inv /\ Bounds)'
  BY NextSafe, BoundsStep DEF Safe
<1>2. Init => Inv /\ Bounds
  <2>1. ASSUME Init PROVE Bounds
    <3>1. Idle.batch = {}
      BY DEF Idle
    <3> QED
      BY <2>1, <3>1, GoneFits, ClassificationAssumption DEF Init, Bounds, Trials
  <2> QED
    BY <2>1, InitInv
<1> QED
  BY <1>1, <1>2, BoundsType, PTL DEF Spec

-----------------------------------------------------------------------------
(***************************************************************************)
(* Sources: what a round that is under way still has to read.              *)
(***************************************************************************)
\* A round: the types of SourcesTypeOK, and of the place in a source.
WalkType ==
  [up : BOOLEAN, left : Seq(Feeds), since : Times, until : Times,
   at : [segment : Nat, page : Nat, pages : Nat, moved : SUBSET Mentions,
         after : [time : Nat, mention : Nat]]]

WalkTyped ==
  /\ walk \in WalkType
  /\ ~ walk.up => walk.left = <<>>
  /\ walk.left # <<>> => /\ walk.at.segment \in 1 .. Segments[Head(walk.left)]
                         /\ walk.at.pages \in 0 .. MaxPages - 1

\* The mentions published so far are finitely many, and times are in order.
Published == {m \in Mentions : made[m] # 0}

InTime ==
  /\ IsFiniteSet(Published)
  /\ \A m \in Mentions : /\ made[m] <= now /\ touched[m] <= now
                         /\ touched[m] # 0 => made[m] # 0 /\ made[m] <= touched[m]
  /\ walk.left # <<>> => walk.until <= now

SourcesTyped == SourcesTypeOK /\ WalkTyped /\ InTime

\* A mention of s that the round will still come to.
ToRead(m, s) ==
  \/ \E g \in SegmentsOf[m] : g > walk.at.segment
  \/ walk.at.segment \in SegmentsOf[m] /\ m \in FromCursor(s, walk)

\* What is due of the source being read is in the store, or still to be read.
DueIsAhead ==
  walk.left # <<>> =>
    \A m \in Mentions : Due(m, Head(walk.left)) => items[m] # "none" \/ ToRead(m, Head(walk.left))

SourcesInv == SourcesTyped /\ DueIsAhead

-----------------------------------------------------------------------------
(***************************************************************************)
(* Sources: the order of a list, its pages and their ends.                 *)
(***************************************************************************)
\* Mentions and times are numbers.
LEMMA SourceNumbers ==
  /\ Mentions \subseteq Nat \ {0} /\ Times \subseteq Nat
  /\ PageSize \in Nat \ {0} /\ MaxPages \in Nat \ {0} /\ MaxTime \in Nat \ {0}
  /\ Day \in Nat \ {0} /\ Backlog \in Nat \ {0}
  /\ \A s \in Feeds : Segments[s] \in Nat \ {0}
  /\ \A m \in Mentions : /\ SourceOf[m] \in Feeds /\ SegmentsOf[m] # {}
                         /\ SegmentsOf[m] \subseteq 1 .. Segments[SourceOf[m]]
                         /\ SegmentsOf[m] \subseteq Nat
<1>1. MaxTime \in Nat
  BY SourcesAssumption
<1>2. Times \subseteq Nat
  BY <1>1 DEF Times
<1>3. \A m \in Mentions : SegmentsOf[m] \subseteq 1 .. Segments[SourceOf[m]]
  BY SourcesAssumption
<1>4. \A s \in Feeds : Segments[s] \in Nat \ {0}
  BY SourcesAssumption
<1>5. \A m \in Mentions : SegmentsOf[m] \subseteq Nat
  BY <1>3
<1> QED
  BY <1>2, <1>3, <1>4, <1>5, SourcesAssumption

\* The entries of a list are in one strict order.
LEMMA AheadFacts ==
  ASSUME SourcesTypeOK, NEW s
  PROVE  \A m, n, k \in Mentions :
           /\ ~ Ahead(s, Place(m), Place(m))
           /\ Ahead(s, Place(m), Place(n)) /\ Ahead(s, Place(n), Place(k))
                => Ahead(s, Place(m), Place(k))
           /\ Ahead(s, Place(m), Place(n)) => ~ Ahead(s, Place(n), Place(m))
           /\ m # n => Ahead(s, Place(m), Place(n)) \/ Ahead(s, Place(n), Place(m))
<1> SUFFICES ASSUME NEW m \in Mentions, NEW n \in Mentions, NEW k \in Mentions
             PROVE  /\ ~ Ahead(s, Place(m), Place(m))
                    /\ Ahead(s, Place(m), Place(n)) /\ Ahead(s, Place(n), Place(k))
                         => Ahead(s, Place(m), Place(k))
                    /\ Ahead(s, Place(m), Place(n)) => ~ Ahead(s, Place(n), Place(m))
                    /\ m # n => Ahead(s, Place(m), Place(n)) \/ Ahead(s, Place(n), Place(m))
  OBVIOUS
<1>1. m \in Nat /\ n \in Nat /\ k \in Nat
  BY SourceNumbers
<1>2. touched[m] \in Nat /\ touched[n] \in Nat /\ touched[k] \in Nat
  BY SourceNumbers DEF SourcesTypeOK
<1> QED
  BY <1>1, <1>2 DEF Ahead, Place

\* How many entries of a list come before one of them: each number once.
LEMMA BeforeFacts ==
  ASSUME SourcesTypeOK, NEW s, NEW S \in SUBSET Mentions, IsFiniteSet(S)
  PROVE  /\ \A m \in S : /\ IsFiniteSet(Before(s, m, S))
                         /\ Cardinality(Before(s, m, S)) \in 0 .. Cardinality(S) - 1
         /\ \A m, n \in S : Ahead(s, Place(n), Place(m))
                              <=> Cardinality(Before(s, n, S)) < Cardinality(Before(s, m, S))
         /\ \A r \in 0 .. Cardinality(S) - 1 : \E m \in S : Cardinality(Before(s, m, S)) = r
<1> DEFINE B(m)    == Before(s, m, S)
           C(m)    == Cardinality(B(m))
           A(n, m) == Ahead(s, Place(n), Place(m))
           f       == [m \in S |-> C(m)]
<1>1. Cardinality(S) \in Nat
  BY FS_CardinalityType
<1>2. \A m \in S : B(m) \in SUBSET S /\ B(m) # S
  <2> TAKE m \in S
  <2>1. m \notin B(m)
    BY AheadFacts DEF Before
  <2> QED
    BY <2>1 DEF Before
<1>3. \A m \in S : IsFiniteSet(B(m)) /\ C(m) \in Nat /\ C(m) < Cardinality(S)
  <2> TAKE m \in S
  <2>1. B(m) \in SUBSET S /\ B(m) # S
    BY <1>2
  <2> HIDE DEF B
  <2>2. IsFiniteSet(B(m)) /\ Cardinality(B(m)) <= Cardinality(S) /\ Cardinality(B(m)) # Cardinality(S)
    BY <2>1, FS_Subset
  <2> QED
    BY <1>1, <2>2, FS_CardinalityType
<1>4. ASSUME NEW m \in S, NEW n \in S, A(n, m) PROVE C(n) < C(m)
  <2>1. B(n) \in SUBSET B(m) /\ n \in B(m) /\ n \notin B(n)
    BY <1>4, AheadFacts DEF Before
  <2> HIDE DEF B
  <2>2. Cardinality(B(n)) <= Cardinality(B(m)) /\ Cardinality(B(n)) # Cardinality(B(m))
    BY <1>3, <2>1, FS_Subset
  <2> QED
    BY <1>3, <2>2
<1>5. ASSUME NEW m \in S, NEW n \in S, C(n) < C(m) PROVE A(n, m)
  <2>1. m # n
    BY <1>3, <1>5
  <2>2. ~ A(m, n)
    BY <1>3, <1>4, <1>5
  <2> QED
    BY <2>1, <2>2, AheadFacts
<1> HIDE DEF C
<1>6. f \in [S -> 0 .. Cardinality(S) - 1]
  BY <1>1, <1>3
<1>7. IsInjective(f)
  <2> SUFFICES ASSUME NEW m \in S, NEW n \in S, f[m] = f[n] PROVE m = n
    BY DEF IsInjective
  <2>1. C(m) = C(n) /\ C(m) \in Nat
    BY <1>3
  <2>2. ~ A(m, n) /\ ~ A(n, m)
    BY <1>4, <2>1
  <2> QED
    BY <2>2, AheadFacts
<1>8. IsFiniteSet(0 .. Cardinality(S) - 1) /\ Cardinality(0 .. Cardinality(S) - 1) = Cardinality(S)
  BY <1>1, FS_Interval
<1>9. f \in Surjection(S, 0 .. Cardinality(S) - 1)
  <2> HIDE DEF f
  <2>1. f \in Injection(S, 0 .. Cardinality(S) - 1)
    BY <1>6, <1>7 DEF Injection
  <2> QED
    BY <1>8, <2>1, FS_Injection
<1>10. \A r \in 0 .. Cardinality(S) - 1 : \E m \in S : C(m) = r
  BY <1>9 DEF Surjection
<1> QED
  BY <1>1, <1>3, <1>4, <1>5, <1>10 DEF C

\* A list that is not empty has a first and a last entry.
LEMMA EndsOfList ==
  ASSUME SourcesTypeOK, NEW s, NEW S \in SUBSET Mentions, IsFiniteSet(S), S # {}
  PROVE  /\ \E m \in S : Before(s, m, S) = {}
         /\ LastOf(s, S) \in S /\ Before(s, LastOf(s, S), S) = S \ {LastOf(s, S)}
<1> DEFINE C(m) == Cardinality(Before(s, m, S))
<1>1. Cardinality(S) \in Nat \ {0}
  BY FS_CardinalityType, FS_EmptySet
<1>2. PICK f \in S : C(f) = 0
  <2>1. 0 \in 0 .. Cardinality(S) - 1
    BY <1>1
  <2> QED
    BY <2>1, BeforeFacts
<1>3. Before(s, f, S) = {}
  BY <1>2, BeforeFacts, FS_EmptySet
<1>4. PICK l \in S : C(l) = Cardinality(S) - 1
  <2>1. Cardinality(S) - 1 \in 0 .. Cardinality(S) - 1
    BY <1>1
  <2> QED
    BY <2>1, BeforeFacts
<1>5. ASSUME NEW m \in S, m # l PROVE m \in Before(s, l, S)
  <2>1. ~ (C(l) < C(m))
    BY <1>1, <1>4, BeforeFacts
  <2>2. ~ Ahead(s, Place(l), Place(m))
    BY <2>1, BeforeFacts
  <2>3. Ahead(s, Place(m), Place(l))
    BY <1>5, <2>2, AheadFacts
  <2> QED
    BY <2>3 DEF Before
<1>6. Before(s, l, S) = S \ {l}
  BY <1>5, AheadFacts DEF Before
<1> QED
  BY <1>3, <1>6 DEF LastOf

\* What a list has is published, so that it is finite, and every part of it.
LEMMA ListFinite ==
  ASSUME SourcesTyped, NEW s, NEW w
  PROVE  /\ List(s, w) \in SUBSET Mentions /\ IsFiniteSet(List(s, w))
         /\ FromCursor(s, w) \in SUBSET List(s, w) /\ IsFiniteSet(FromCursor(s, w))
<1>1. List(s, w) \in SUBSET Published
  BY DEF List, Published, SourcesTyped, InTime
<1>2. FromCursor(s, w) \in SUBSET List(s, w)
  BY DEF FromCursor
<1>3. IsFiniteSet(Published) /\ Published \in SUBSET Mentions
  BY DEF SourcesTyped, InTime, Published
<1>4. IsFiniteSet(List(s, w))
  BY <1>1, <1>3, FS_Subset
<1> QED
  BY <1>1, <1>2, <1>3, <1>4, FS_Subset

\* A page of a list that goes on is not empty, and the rest is behind its end.
LEMMA PageFacts ==
  ASSUME SourcesTypeOK, NEW s, NEW on \in SUBSET Mentions, IsFiniteSet(on), on # {}
  PROVE  /\ LastOf(s, Page(s, on)) \in Page(s, on)
         /\ \A m \in on \ Page(s, on) : Ahead(s, Place(LastOf(s, Page(s, on))), Place(m))
<1> DEFINE P == Page(s, on)
           L == LastOf(s, P)
<1>1. PICK m \in on : Before(s, m, on) = {}
  BY EndsOfList
<1>2. m \in P
  BY <1>1, FS_EmptySet, SourceNumbers DEF Page
<1>3. P \in SUBSET on
  BY DEF Page
<1>4. IsFiniteSet(P)
  BY <1>3, FS_Subset
<1>5. L \in P
  BY <1>2, <1>3, <1>4, EndsOfList
<1>6. ASSUME NEW k \in on \ P PROVE Ahead(s, Place(L), Place(k))
  <2>1. L \in on /\ Cardinality(Before(s, L, on)) < PageSize
    BY <1>5 DEF Page
  <2>2. ~ (Cardinality(Before(s, k, on)) < PageSize)
    BY DEF Page
  <2>3. /\ Cardinality(Before(s, L, on)) \in 0 .. Cardinality(on) - 1
        /\ Cardinality(Before(s, k, on)) \in 0 .. Cardinality(on) - 1
    BY <2>1, BeforeFacts
  <2>4. Cardinality(on) \in Nat
    BY FS_CardinalityType
  <2>5. Cardinality(Before(s, L, on)) < Cardinality(Before(s, k, on))
    BY <2>1, <2>2, <2>3, <2>4, SourceNumbers
  <2> QED
    BY <2>1, <2>5, BeforeFacts
<1> QED
  BY <1>5, <1>6

-----------------------------------------------------------------------------
(***************************************************************************)
(* Sources: the invariant holds at first, and every step keeps it.         *)
(***************************************************************************)
\* A place in a source at its beginning.
LEMMA Beginnings ==
  /\ Start \in [segment : Nat, page : Nat, pages : Nat, moved : SUBSET Mentions,
                after : [time : Nat, mention : Nat]]
  /\ Start.segment = 1 /\ Start.page = 0 /\ Start.pages = 0 /\ Start.moved = {}
  /\ NoWalk \in WalkType /\ NoWalk.left = <<>> /\ NoWalk.up
<1>1. /\ Start \in [segment : Nat, page : Nat, pages : Nat, moved : SUBSET Mentions,
                    after : [time : Nat, mention : Nat]]
      /\ Start.segment = 1 /\ Start.page = 0 /\ Start.pages = 0 /\ Start.moved = {}
  BY DEF Start
<1>2. 0 \in Times
  BY SourceNumbers DEF Times
<1> QED
  BY <1>1, <1>2 DEF NoWalk, WalkType

\* What the types of a walk say.
LEMMA WalkFacts ==
  ASSUME WalkTyped
  PROVE  /\ walk.up \in BOOLEAN /\ walk.left \in Seq(Feeds)
         /\ walk.since \in Times /\ walk.until \in Times
         /\ walk.at.segment \in Nat /\ walk.at.page \in Nat /\ walk.at.pages \in Nat
         /\ walk.at.moved \in SUBSET Mentions
         /\ walk.at \in [segment : Nat, page : Nat, pages : Nat, moved : SUBSET Mentions,
                         after : [time : Nat, mention : Nat]]
         /\ walk.left # <<>> => /\ Head(walk.left) \in Feeds /\ Tail(walk.left) \in Seq(Feeds)
                                /\ Tail(walk.left) # walk.left
                                /\ Len(walk.left) \in Nat \ {0}
                                /\ Len(walk.left) # 1 => Tail(walk.left) # <<>>
<1>1. walk \in WalkType
  BY DEF WalkTyped
<1>2. walk.left \in Seq(Feeds)
  BY <1>1 DEF WalkType
<1>3. walk.left # <<>> => /\ Head(walk.left) \in Feeds /\ Tail(walk.left) \in Seq(Feeds)
                          /\ Len(Tail(walk.left)) = Len(walk.left) - 1
                          /\ Len(walk.left) \in Nat \ {0}
  BY <1>2
<1>4. Len(<<>>) = 0
  OBVIOUS
<1>5. walk.left # <<>> => /\ Tail(walk.left) # walk.left
                          /\ Len(walk.left) # 1 => Tail(walk.left) # <<>>
  <2> DEFINE t == Tail(walk.left)
  <2>1. walk.left # <<>> => Len(t) = Len(walk.left) - 1 /\ Len(walk.left) \in Nat
    BY <1>3
  <2> HIDE DEF t
  <2>2. ASSUME walk.left # <<>>, t = walk.left PROVE FALSE
    <3>1. Len(walk.left) = Len(walk.left) - 1 /\ Len(walk.left) \in Nat
      BY <2>1, <2>2
    <3> QED
      BY <3>1
  <2>3. ASSUME walk.left # <<>>, Len(walk.left) # 1, t = <<>> PROVE FALSE
    <3>1. 0 = Len(walk.left) - 1 /\ Len(walk.left) \in Nat
      BY <1>4, <2>1, <2>3
    <3> QED
      BY <2>3, <3>1
  <2> QED
    BY <2>2, <2>3 DEF t
<1> QED
  BY <1>1, <1>3, <1>5 DEF WalkType

\* The types of the whole from those of its parts, for a step.
LEMMA TypesTogether ==
  ASSUME SourcesTyped, UNCHANGED kind, now' \in 1 .. MaxTime,
         made' \in [Mentions -> Times], touched' \in [Mentions -> Times],
         items' \in [Mentions -> {"none", "live", "backfill"}], degraded' \subseteq Feeds,
         WalkTyped', InTime'
  PROVE  SourcesTyped'
<1>1. \A s \in Feeds : kind'[s] \in Kinds[s]
  BY DEF SourcesTyped, SourcesTypeOK
<1>2. /\ walk'.up \in BOOLEAN /\ walk'.left \in Seq(Feeds)
      /\ walk'.since \in Times /\ walk'.until \in Times /\ walk'.at.moved \subseteq Mentions
  BY DEF WalkTyped, WalkType
<1>3. walk'.left # <<>> => /\ walk'.at.segment \in 1 .. Segments[Head(walk'.left)]
                           /\ walk'.at.pages \in 0 .. MaxPages - 1
  BY DEF WalkTyped
<1>4. SourcesTypeOK'
  BY <1>1, <1>2, <1>3 DEF SourcesTypeOK
<1> QED
  BY <1>4 DEF SourcesTyped

\* What a segment that is begun now, or one after it, lists is still to be read.
LEMMA FreshSegment ==
  ASSUME NEW m \in Mentions, NEW s, Due(m, s)', walk'.at.page = 0, walk'.at.segment \in Nat,
         \E g \in SegmentsOf[m] : g >= walk'.at.segment
  PROVE  ToRead(m, s)'
<1>1. PICK g \in SegmentsOf[m] : g >= walk'.at.segment
  OBVIOUS
<1>2. g \in Nat
  BY SourceNumbers
<1>3. CASE g > walk'.at.segment
  BY <1>3 DEF ToRead
<1>4. CASE ~ (g > walk'.at.segment)
  <2>1. g = walk'.at.segment
    BY <1>1, <1>2, <1>4
  <2>2. m \in List(s, walk)'
    BY <2>1 DEF List, Due
  <2>3. m \in FromCursor(s, walk)'
    BY <2>2 DEF FromCursor
  <2> QED
    BY <2>1, <2>3 DEF ToRead
<1> QED
  BY <1>3, <1>4

\* A source that is begun has all of it still to be read.
LEMMA FreshSource ==
  ASSUME walk'.at.page = 0, walk'.at.segment = 1
  PROVE  DueIsAhead'
<1> SUFFICES ASSUME walk'.left # <<>>, NEW m \in Mentions, Due(m, Head(walk.left))'
             PROVE  ToRead(m, Head(walk.left))'
  BY DEF DueIsAhead
<1>1. PICK g \in SegmentsOf[m] : g \in Nat /\ g >= 1
  BY SourceNumbers
<1>2. \E h \in SegmentsOf[m] : h >= walk'.at.segment
  BY <1>1
<1> DEFINE s == Head(walk.left)
<1>3. Due(m, s)'
  OBVIOUS
<1> QED
  BY <1>2, <1>3, FreshSegment

LEMMA SourcesInitially == SourcesInit => SourcesInv
<1> SUFFICES ASSUME SourcesInit PROVE SourcesInv
  OBVIOUS
<1>1. 0 \in Times /\ 1 \in 1 .. MaxTime
  BY SourceNumbers DEF Times
<1>2. /\ kind \in [Feeds -> UNION {Kinds[s] : s \in Feeds}] /\ \A s \in Feeds : kind[s] \in Kinds[s]
      /\ now = 1 /\ made = [m \in Mentions |-> 0] /\ touched = [m \in Mentions |-> 0]
      /\ items = [m \in Mentions |-> "none"] /\ walk = NoWalk /\ degraded = {}
  BY DEF SourcesInit
<1>3. WalkTyped
  BY <1>2, Beginnings DEF WalkTyped
<1>4. Published = {}
  BY <1>2 DEF Published
<1>5. InTime
  BY <1>2, <1>4, Beginnings, FS_EmptySet DEF InTime
<1>6. SourcesTypeOK
  BY <1>1, <1>2, <1>3, WalkFacts, Beginnings DEF SourcesTypeOK
<1>7. DueIsAhead
  BY <1>2, Beginnings DEF DueIsAhead
<1> QED
  BY <1>3, <1>5, <1>6, <1>7 DEF SourcesInv, SourcesTyped

-----------------------------------------------------------------------------
\* A step that leaves alone what the sources list, and the round.
LEMMA ClockTickKeeps ==
  ASSUME SourcesInv, ClockTick
  PROVE  SourcesInv'
<1>1. now \in Nat /\ now' = now + 1 /\ now' \in 1 .. MaxTime
  BY SourceNumbers DEF SourcesInv, SourcesTyped, SourcesTypeOK, ClockTick
<1>2. UNCHANGED <<kind, made, touched, items, walk, degraded>>
  BY DEF ClockTick
<1>3. WalkTyped'
  BY <1>2 DEF SourcesInv, SourcesTyped, WalkTyped
<1>4. \A m \in Mentions : made[m] \in Nat /\ touched[m] \in Nat
  BY SourceNumbers DEF SourcesInv, SourcesTyped, SourcesTypeOK
<1>5. walk.until \in Nat
  BY SourceNumbers DEF SourcesInv, SourcesTyped, SourcesTypeOK
<1>6. InTime'
  BY <1>1, <1>2, <1>4, <1>5 DEF SourcesInv, SourcesTyped, InTime, Published
<1>7. DueIsAhead'
  BY <1>2 DEF SourcesInv, DueIsAhead, Due, ToRead, FromCursor, List, Before, Ahead, Place, InWindow,
              PassesFilter1
<1>8. SourcesTyped'
  BY <1>1, <1>2, <1>3, <1>6, TypesTogether DEF SourcesInv, SourcesTyped, SourcesTypeOK
<1> QED
  BY <1>7, <1>8 DEF SourcesInv

\* The sources move during a round: mentions that kept their place, and what is
\* listed before them, are where they were.
LEMMA KeptPlace ==
  ASSUME SourcesInv, walk.left # <<>>, walk'.left = walk.left,
         walk'.since = walk.since, walk'.until = walk.until,
         walk'.at.segment = walk.at.segment, walk'.at.page = walk.at.page,
         walk'.at.after = walk.at.after, UNCHANGED <<kind, items>>,
         NEW m \in Mentions, NEW s \in Feeds, s = Head(walk.left),
         Due(m, s), made'[m] = made[m], touched'[m] = touched[m],
         kind[s] = "numbered" => Before(s, m, List(s, walk)) \subseteq Before(s, m, List(s, walk))',
         kind[s] = "numbered" => IsFiniteSet(List(s, walk)')
  PROVE  items'[m] # "none" \/ ToRead(m, s)'
<1>1. items[m] # "none" \/ ToRead(m, s)
  BY DEF SourcesInv, DueIsAhead
<1>2. CASE items[m] # "none"
  BY <1>2
<1>3. CASE \E g \in SegmentsOf[m] : g > walk.at.segment
  BY <1>3 DEF ToRead
<1>4. CASE walk.at.segment \in SegmentsOf[m] /\ m \in FromCursor(s, walk)
  <2>1. m \in List(s, walk) /\ m \in List(s, walk)'
    BY <1>4 DEF FromCursor, List, InWindow
  <2>2. CASE walk.at.page > 0 /\ kind[s] = "numbered"
    <3> DEFINE B == Before(s, m, List(s, walk))
               D == Before(s, m, List(s, walk))'
    <3>1. D \in SUBSET (List(s, walk)')
      BY DEF Before
    <3>2. IsFiniteSet(D)
      BY <2>2, <3>1, FS_Subset
    <3>3. B \in SUBSET D
      BY <2>2
    <3>4. Cardinality(B) >= walk.at.page * PageSize
      BY <1>4, <2>2 DEF FromCursor
    <3> HIDE DEF B, D
    <3>5. Cardinality(B) <= Cardinality(D) /\ Cardinality(B) \in Nat /\ Cardinality(D) \in Nat
      BY <3>2, <3>3, FS_Subset, FS_CardinalityType
    <3>6. walk.at.page \in Nat /\ PageSize \in Nat
      BY WalkFacts, SourceNumbers DEF SourcesInv, SourcesTyped
    <3>7. walk.at.page * PageSize \in Nat
      BY <3>6
    <3>8. Cardinality(D) >= walk'.at.page * PageSize
      BY <3>4, <3>5, <3>7
    <3>9. m \in FromCursor(s, walk)'
      BY <2>1, <2>2, <3>8 DEF FromCursor, D
    <3> QED
      BY <1>4, <3>9 DEF ToRead
  <2>3. CASE ~ (walk.at.page > 0 /\ kind[s] = "numbered")
    <3>1. m \in FromCursor(s, walk)'
      BY <1>4, <2>1, <2>3 DEF FromCursor, Ahead, Place
    <3> QED
      BY <1>4, <3>1 DEF ToRead
  <2> QED
    BY <2>2, <2>3
<1> QED
  BY <1>1, <1>2, <1>3, <1>4 DEF ToRead

LEMMA MovesKeepWalk ==
  ASSUME SourcesInv, NEW ms \in SUBSET Mentions, Moves(ms)
  PROVE  /\ WalkTyped' /\ walk'.left = walk.left /\ walk'.up = walk.up
         /\ walk'.since = walk.since /\ walk'.until = walk.until
         /\ walk'.at.segment = walk.at.segment /\ walk'.at.page = walk.at.page
         /\ walk'.at.after = walk.at.after
         /\ walk'.at.moved = walk.at.moved
              \union {m \in ms : walk.left # <<>> /\ SourceOf[m] = Head(walk.left)}
<1> DEFINE more == walk.at.moved \union {m \in ms : walk.left # <<>> /\ SourceOf[m] = Head(walk.left)}
<1>1. WalkTyped /\ walk \in WalkType
  BY DEF SourcesInv, SourcesTyped, WalkTyped
<1>2. more \in SUBSET Mentions
  BY <1>1, WalkFacts
<1>3. walk' = [walk EXCEPT !.at.moved = more]
  BY DEF Moves
<1> HIDE DEF more
<1>4. walk' = [walk EXCEPT !.at = [walk.at EXCEPT !.moved = more]]
  BY <1>1, <1>3 DEF WalkType
<1>5. walk' \in WalkType
  BY <1>1, <1>2, <1>4 DEF WalkType
<1>6. /\ walk'.left = walk.left /\ walk'.up = walk.up
      /\ walk'.since = walk.since /\ walk'.until = walk.until
      /\ walk'.at.segment = walk.at.segment /\ walk'.at.page = walk.at.page
      /\ walk'.at.pages = walk.at.pages
      /\ walk'.at.after = walk.at.after /\ walk'.at.moved = more
  BY <1>1, <1>4 DEF WalkType
<1>7. WalkTyped'
  BY <1>1, <1>5, <1>6 DEF WalkTyped
<1> QED
  BY <1>6, <1>7 DEF more

-----------------------------------------------------------------------------
(***************************************************************************)
(* Sources: the lists move.                                                *)
(***************************************************************************)
\* An entry that is untouched stays before another that is untouched.
LEMMA EntryKept ==
  ASSUME UNCHANGED kind, walk'.since = walk.since, walk'.until = walk.until,
         walk'.at.segment = walk.at.segment,
         NEW s, NEW n, NEW k, k \in Before(s, n, List(s, walk)),
         made'[k] = made[k], touched'[k] = touched[k], touched'[n] = touched[n]
  PROVE  k \in Before(s, n, List(s, walk))'
<1>1. k \in List(s, walk) /\ Ahead(s, Place(k), Place(n))
  BY DEF Before
<1>2. /\ k \in Mentions /\ SourceOf[k] = s /\ walk.at.segment \in SegmentsOf[k] /\ touched[k] # 0
      /\ kind[s] = "numbered" => InWindow(s, made[k], walk)
  BY <1>1 DEF List
<1>3. InWindow(s, made[k], walk) => InWindow(s, made[k], walk)'
  BY DEF InWindow
<1>4. k \in List(s, walk)'
  BY <1>2, <1>3 DEF List
<1>5. Place(k)' = Place(k) /\ Place(n)' = Place(n)
  BY DEF Place
<1>6. Ahead(s, Place(k), Place(n))'
  BY <1>1, <1>5 DEF Ahead
<1> QED
  BY <1>4, <1>6 DEF Before

\* What is published now is too new for the round under way.
LEMMA SourcesPublishKeeps ==
  ASSUME SourcesInv, NEW m \in Mentions, Publish(m)
  PROVE  SourcesInv'
<1>1. /\ made[m] = 0 /\ made' = [made EXCEPT ![m] = now] /\ touched' = [touched EXCEPT ![m] = now]
      /\ UNCHANGED <<kind, now, items, walk, degraded>>
  BY DEF Publish
<1>2. /\ made \in [Mentions -> Times] /\ touched \in [Mentions -> Times] /\ now \in 1 .. MaxTime
      /\ now \in Times /\ now \in Nat /\ now # 0
  BY SourceNumbers DEF SourcesInv, SourcesTyped, SourcesTypeOK, Times
<1>3. /\ made' \in [Mentions -> Times] /\ touched' \in [Mentions -> Times]
      /\ made'[m] = now /\ touched'[m] = now
      /\ \A n \in Mentions : n # m => made'[n] = made[n] /\ touched'[n] = touched[n]
  BY <1>1, <1>2
<1>4. touched[m] = 0
  BY <1>1 DEF SourcesInv, SourcesTyped, InTime
<1>5. WalkTyped'
  BY <1>1 DEF SourcesInv, SourcesTyped, WalkTyped
<1>6. InTime'
  <2>1. Published' = Published \union {m}
    BY <1>2, <1>3 DEF Published
  <2>2. IsFiniteSet(Published')
    BY <2>1, FS_AddElement DEF SourcesInv, SourcesTyped, InTime
  <2>3. ASSUME NEW n \in Mentions
        PROVE  /\ made'[n] <= now' /\ touched'[n] <= now'
               /\ touched'[n] # 0 => made'[n] # 0 /\ made'[n] <= touched'[n]
    BY <1>1, <1>2, <1>3 DEF SourcesInv, SourcesTyped, InTime
  <2> QED
    BY <1>1, <2>2, <2>3 DEF SourcesInv, SourcesTyped, InTime
<1>7. SourcesTyped'
  BY <1>1, <1>2, <1>3, <1>5, <1>6, TypesTogether DEF SourcesInv, SourcesTyped, SourcesTypeOK
<1>8. DueIsAhead'
  <2> SUFFICES ASSUME walk'.left # <<>>, NEW n \in Mentions, Due(n, Head(walk.left))'
               PROVE  items'[n] # "none" \/ ToRead(n, Head(walk.left))'
    BY DEF DueIsAhead
  <2> DEFINE s == Head(walk.left)
  <2>1. walk.left # <<>> /\ s \in Feeds /\ s' = s /\ walk.until <= now /\ walk.until \in Nat
    BY <1>1, WalkFacts, SourceNumbers DEF SourcesInv, SourcesTyped, InTime
  <2> HIDE DEF s
  <2>2. made'[n] < walk.until
    BY <1>1 DEF Due, InWindow
  <2>3. n # m
    BY <1>2, <1>3, <2>1, <2>2
  <2>4. Due(n, s)
    BY <1>1, <1>3, <2>1, <2>3 DEF Due, InWindow, PassesFilter1, s
  <2>5. kind[s] = "numbered" => /\ Before(s, n, List(s, walk)) \subseteq Before(s, n, List(s, walk))'
    <3>1. ASSUME NEW k \in Before(s, n, List(s, walk)) PROVE k \in Before(s, n, List(s, walk))'
      <4>1. k # m /\ k \in Mentions
        BY <1>4 DEF Before, List
      <4>2. made'[k] = made[k] /\ touched'[k] = touched[k] /\ touched'[n] = touched[n]
        BY <1>3, <2>3, <4>1
      <4> QED
        BY <1>1, <2>1, <3>1, <4>2, EntryKept
    <3> QED
      BY <3>1
  <2>6. IsFiniteSet(List(s, walk)')
    <3>1. List(s, walk)' \in SUBSET Published'
      BY <1>6 DEF List, Published, InTime
    <3> QED
      BY <1>6, <3>1, FS_Subset DEF InTime
  <2>7. items'[n] # "none" \/ ToRead(n, s)'
    BY <1>1, <1>3, <2>1, <2>3, <2>4, <2>5, <2>6, KeptPlace DEF s
  <2> QED
    BY <2>1, <2>7 DEF s
<1> QED
  BY <1>7, <1>8 DEF SourcesInv

\* A thread that is updated has left its place; the others keep theirs.
LEMMA BumpKeeps ==
  ASSUME SourcesInv, NEW m \in Mentions, Bump(m)
  PROVE  SourcesInv'
<1>1. /\ kind[SourceOf[m]] = "updated" /\ touched[m] # 0
      /\ touched' = [touched EXCEPT ![m] = now] /\ Moves({m})
      /\ UNCHANGED <<kind, now, made, items, degraded>>
  BY DEF Bump
<1>2. /\ made \in [Mentions -> Times] /\ touched \in [Mentions -> Times] /\ now \in 1 .. MaxTime
      /\ now \in Times /\ now \in Nat /\ now # 0
  BY SourceNumbers DEF SourcesInv, SourcesTyped, SourcesTypeOK, Times
<1>3. /\ touched' \in [Mentions -> Times] /\ touched'[m] = now
      /\ \A n \in Mentions : n # m => touched'[n] = touched[n]
  BY <1>1, <1>2
<1>4. /\ WalkTyped' /\ walk'.left = walk.left /\ walk'.up = walk.up
      /\ walk'.since = walk.since /\ walk'.until = walk.until
      /\ walk'.at.segment = walk.at.segment /\ walk'.at.page = walk.at.page
      /\ walk'.at.after = walk.at.after
      /\ walk'.at.moved = walk.at.moved
           \union {n \in {m} : walk.left # <<>> /\ SourceOf[n] = Head(walk.left)}
  BY <1>1, MovesKeepWalk
<1>5. InTime'
  <2>1. IsFiniteSet(Published')
    BY <1>1 DEF Published, SourcesInv, SourcesTyped, InTime
  <2>2. ASSUME NEW n \in Mentions
        PROVE  /\ made'[n] <= now' /\ touched'[n] <= now'
               /\ touched'[n] # 0 => made'[n] # 0 /\ made'[n] <= touched'[n]
    BY <1>1, <1>2, <1>3 DEF SourcesInv, SourcesTyped, InTime
  <2> QED
    BY <1>1, <1>4, <2>1, <2>2 DEF SourcesInv, SourcesTyped, InTime
<1>6. SourcesTyped'
  BY <1>1, <1>2, <1>3, <1>4, <1>5, TypesTogether DEF SourcesInv, SourcesTyped, SourcesTypeOK
<1>7. DueIsAhead'
  <2> SUFFICES ASSUME walk'.left # <<>>, NEW n \in Mentions, Due(n, Head(walk.left))'
               PROVE  items'[n] # "none" \/ ToRead(n, Head(walk.left))'
    BY DEF DueIsAhead
  <2> DEFINE s == Head(walk.left)
  <2>1. walk.left # <<>> /\ s \in Feeds /\ s' = s
    BY <1>4, WalkFacts DEF SourcesInv, SourcesTyped
  <2>2. n # m /\ n \notin walk.at.moved
    BY <1>4, <2>1 DEF Due
  <2> HIDE DEF s
  <2>3. Due(n, s)
    BY <1>1, <1>3, <1>4, <2>1, <2>2 DEF Due, InWindow, PassesFilter1, s
  <2>4. kind[s] = "numbered" => Before(s, n, List(s, walk)) \subseteq Before(s, n, List(s, walk))'
    <3>1. ASSUME kind[s] = "numbered", NEW k \in Before(s, n, List(s, walk))
          PROVE  k \in Before(s, n, List(s, walk))'
      <4>1. k # m /\ k \in Mentions
        BY <1>1, <3>1 DEF Before, List
      <4>2. made'[k] = made[k] /\ touched'[k] = touched[k] /\ touched'[n] = touched[n]
        BY <1>1, <1>3, <2>2, <4>1
      <4> QED
        BY <1>1, <1>4, <2>1, <3>1, <4>2, EntryKept
    <3> QED
      BY <3>1
  <2>5. IsFiniteSet(List(s, walk)')
    <3>1. List(s, walk)' \in SUBSET Published'
      BY <1>5 DEF List, Published, InTime
    <3> QED
      BY <1>5, <3>1, FS_Subset DEF InTime
  <2>6. items'[n] # "none" \/ ToRead(n, s)'
    BY <1>1, <1>3, <1>4, <2>1, <2>2, <2>3, <2>4, <2>5, KeptPlace DEF s
  <2> QED
    BY <2>1, <2>6 DEF s
<1> QED
  BY <1>6, <1>7 DEF SourcesInv

\* A removal moves what it was ahead of; for the others nothing has changed.
LEMMA VanishKeeps ==
  ASSUME SourcesInv, NEW m \in Mentions, Vanish(m)
  PROVE  SourcesInv'
<1> DEFINE behind == {n \in Mentions : SourceOf[n] = SourceOf[m]
                                         /\ Ahead(SourceOf[m], Place(m), Place(n))}
<1>1. /\ kind[SourceOf[m]] = "numbered" /\ touched[m] # 0
      /\ touched' = [touched EXCEPT ![m] = 0] /\ Moves(behind)
      /\ UNCHANGED <<kind, now, made, items, degraded>>
  BY DEF Vanish
<1>2. /\ made \in [Mentions -> Times] /\ touched \in [Mentions -> Times] /\ now \in 1 .. MaxTime
      /\ now \in Nat /\ 0 \in Times /\ 0 <= now
  BY SourceNumbers DEF SourcesInv, SourcesTyped, SourcesTypeOK, Times
<1>3. /\ touched' \in [Mentions -> Times] /\ touched'[m] = 0
      /\ \A n \in Mentions : n # m => touched'[n] = touched[n]
  BY <1>1, <1>2
<1>4. /\ WalkTyped' /\ walk'.left = walk.left /\ walk'.up = walk.up
      /\ walk'.since = walk.since /\ walk'.until = walk.until
      /\ walk'.at.segment = walk.at.segment /\ walk'.at.page = walk.at.page
      /\ walk'.at.after = walk.at.after
      /\ walk'.at.moved = walk.at.moved
           \union {n \in behind : walk.left # <<>> /\ SourceOf[n] = Head(walk.left)}
  <2> HIDE DEF behind
  <2>1. behind \in SUBSET Mentions
    BY DEF behind
  <2> QED
    BY <1>1, <2>1, MovesKeepWalk
<1>5. InTime'
  <2>1. IsFiniteSet(Published')
    BY <1>1 DEF Published, SourcesInv, SourcesTyped, InTime
  <2>2. ASSUME NEW n \in Mentions
        PROVE  /\ made'[n] <= now' /\ touched'[n] <= now'
               /\ touched'[n] # 0 => made'[n] # 0 /\ made'[n] <= touched'[n]
    BY <1>1, <1>2, <1>3 DEF SourcesInv, SourcesTyped, InTime
  <2> QED
    BY <1>1, <1>4, <2>1, <2>2 DEF SourcesInv, SourcesTyped, InTime
<1>6. SourcesTyped'
  BY <1>1, <1>2, <1>3, <1>4, <1>5, TypesTogether DEF SourcesInv, SourcesTyped, SourcesTypeOK
<1>7. DueIsAhead'
  <2> SUFFICES ASSUME walk'.left # <<>>, NEW n \in Mentions, Due(n, Head(walk.left))'
               PROVE  items'[n] # "none" \/ ToRead(n, Head(walk.left))'
    BY DEF DueIsAhead
  <2> DEFINE s == Head(walk.left)
  <2>1. walk.left # <<>> /\ s \in Feeds /\ s' = s
    BY <1>4, WalkFacts DEF SourcesInv, SourcesTyped
  <2>2. n # m /\ n \notin walk.at.moved /\ SourceOf[n] = s
        /\ (SourceOf[m] = s => ~ Ahead(s, Place(m), Place(n)))
    BY <1>3, <1>4, <2>1 DEF Due
  <2> HIDE DEF s, behind
  <2>3. Due(n, s)
    BY <1>1, <1>3, <1>4, <2>1, <2>2 DEF Due, InWindow, PassesFilter1, s
  <2>4. ASSUME NEW k \in Before(s, n, List(s, walk)) PROVE k \in Before(s, n, List(s, walk))'
    <3>1. k # m /\ k \in Mentions
      BY <2>2 DEF Before, List
    <3>2. made'[k] = made[k] /\ touched'[k] = touched[k] /\ touched'[n] = touched[n]
      BY <1>1, <1>3, <2>2, <3>1
    <3> QED
      BY <1>1, <1>4, <2>1, <2>4, <3>2, EntryKept
  <2>5. IsFiniteSet(List(s, walk)')
    <3>1. List(s, walk)' \in SUBSET Published'
      BY <1>5 DEF List, Published, InTime
    <3> QED
      BY <1>5, <3>1, FS_Subset DEF InTime
  <2>6. items'[n] # "none" \/ ToRead(n, s)'
    BY <1>1, <1>3, <1>4, <2>1, <2>2, <2>3, <2>4, <2>5, KeptPlace DEF s
  <2> QED
    BY <2>1, <2>6 DEF s
<1> QED
  BY <1>6, <1>7 DEF SourcesInv

-----------------------------------------------------------------------------
(***************************************************************************)
(* Sources: the round.                                                     *)
(***************************************************************************)
\* A step of the round, which the lists do not see.
LEMMA RoundStep ==
  ASSUME SourcesInv, UNCHANGED <<kind, now, made, touched>>,
         items' \in [Mentions -> {"none", "live", "backfill"}], degraded' \subseteq Feeds,
         WalkTyped', walk'.left # <<>> => walk'.until <= now, DueIsAhead'
  PROVE  SourcesInv'
<1>1. InTime'
  <2>1. Published' = Published
    BY DEF Published
  <2> QED
    BY <2>1 DEF SourcesInv, SourcesTyped, InTime
<1>2. SourcesTyped'
  BY <1>1, TypesTogether DEF SourcesInv, SourcesTyped, SourcesTypeOK
<1> QED
  BY <1>2 DEF SourcesInv

LEMMA ItemsTyped ==
  ASSUME SourcesInv
  PROVE  /\ items \in [Mentions -> {"none", "live", "backfill"}] /\ degraded \subseteq Feeds
         /\ WalkTyped /\ SourcesTypeOK /\ SourcesTyped /\ now \in 1 .. MaxTime
  BY DEF SourcesInv, SourcesTyped, SourcesTypeOK

LEMMA BeginKeeps ==
  ASSUME SourcesInv, NEW length \in {Day, Backlog}, Begin(length)
  PROVE  SourcesInv'
<1> DEFINE from == IF now > length THEN now - length ELSE 0
<1>1. now \in Times /\ from \in Times /\ now \in Nat
  <2>1. length \in Nat /\ now \in 1 .. MaxTime /\ MaxTime \in Nat
    BY SourceNumbers, ItemsTyped
  <2> QED
    BY <2>1 DEF Times
<1>2. /\ walk' = [up |-> TRUE, left |-> Order, since |-> from, until |-> now, at |-> Start]
      /\ UNCHANGED <<kind, now, made, touched, items, degraded>>
  BY DEF Begin
<1> HIDE DEF from
<1>3. walk' \in WalkType
  BY <1>1, <1>2, Beginnings, SourcesAssumption DEF WalkType
<1>4. /\ walk'.up /\ walk'.left = Order /\ walk'.until = now
      /\ walk'.at.segment = 1 /\ walk'.at.page = 0 /\ walk'.at.pages = 0
  BY <1>2, Beginnings
<1>5. Order # <<>> => 1 \in 1 .. Segments[Head(Order)] /\ 0 \in 0 .. MaxPages - 1
  <2>1. Order # <<>> => Head(Order) \in Feeds
    BY SourcesAssumption
  <2> QED
    BY <2>1, SourceNumbers
<1>6. WalkTyped'
  BY <1>3, <1>4, <1>5 DEF WalkTyped
<1>7. DueIsAhead'
  BY <1>4, FreshSource
<1> QED
  BY <1>1, <1>2, <1>4, <1>6, <1>7, ItemsTyped, RoundStep

\* The round leaves a source, for the next one or for the end.
LEMMA RecordedFacts ==
  ASSUME SourcesInv, walk.left # <<>>, NEW ok \in BOOLEAN, Recorded(ok)
  PROVE  /\ WalkTyped' /\ degraded' \subseteq Feeds
         /\ walk'.at.page = 0 /\ walk'.at.segment = 1
         /\ walk'.left # <<>> => walk'.until = walk.until
         /\ ~ ok => Head(walk.left) \in degraded'
<1>1. WalkTyped /\ walk \in WalkType /\ degraded \subseteq Feeds /\ Head(walk.left) \in Feeds
  BY ItemsTyped, WalkFacts DEF WalkTyped
<1>2. degraded' \subseteq Feeds /\ (~ ok => Head(walk.left) \in degraded')
  BY <1>1 DEF Recorded
<1>3. CASE Len(walk.left) = 1
  <2>1. walk' = NoWalk
    BY <1>3 DEF Recorded
  <2>2. NoWalk.at = Start
    BY DEF NoWalk
  <2> QED
    BY <1>2, <2>1, <2>2, Beginnings DEF WalkTyped
<1>4. CASE Len(walk.left) # 1
  <2> DEFINE rest == Tail(walk.left)
  <2>1. rest \in Seq(Feeds) /\ rest # <<>>
    BY <1>1, <1>4, WalkFacts
  <2>2. walk' = [walk EXCEPT !.left = rest, !.at = Start]
    BY <1>4 DEF Recorded
  <2>3. Head(rest) \in Feeds
    BY <2>1
  <2> HIDE DEF rest
  <2>4. /\ walk' \in WalkType /\ walk'.left = rest /\ walk'.at = Start /\ walk'.up = walk.up
        /\ walk'.until = walk.until
    BY <1>1, <2>1, <2>2, Beginnings DEF WalkType
  <2>5. walk.up
    BY <1>1 DEF WalkTyped
  <2>6. 1 \in 1 .. Segments[Head(rest)] /\ 0 \in 0 .. MaxPages - 1
    BY <2>3, SourceNumbers
  <2> QED
    BY <1>2, <2>1, <2>4, <2>5, <2>6, Beginnings DEF WalkTyped
<1> QED
  BY <1>3, <1>4

\* What is stored stays stored, and what passes the filter is stored.
LEMMA StoreFacts ==
  ASSUME SourcesInv, NEW ms, Store(ms)
  PROVE  /\ items' \in [Mentions -> {"none", "live", "backfill"}]
         /\ \A m \in Mentions : items[m] # "none" => items'[m] # "none"
         /\ \A m \in Mentions : m \in ms /\ PassesFilter1(m) => items'[m] # "none"
  BY ItemsTyped DEF Store

LEMMA LeavingKeeps ==
  ASSUME SourcesInv, walk.left # <<>>, NEW ok \in BOOLEAN, Recorded(ok),
         UNCHANGED <<kind, now, made, touched>>,
         items' \in [Mentions -> {"none", "live", "backfill"}]
  PROVE  SourcesInv'
<1>1. walk.until <= now
  BY DEF SourcesInv, SourcesTyped, InTime
<1>2. DueIsAhead'
  BY RecordedFacts, FreshSource
<1> QED
  BY <1>1, <1>2, RecordedFacts, RoundStep

LEMMA FailuresKeep ==
  ASSUME SourcesInv, FetchFails \/ StoreFails
  PROVE  SourcesInv'
<1>1. /\ walk.left # <<>> /\ Recorded(FALSE) /\ UNCHANGED <<kind, now, made, touched>>
  BY DEF FetchFails, StoreFails
<1>2. items' \in [Mentions -> {"none", "live", "backfill"}]
  BY ItemsTyped, StoreFacts DEF FetchFails, StoreFails
<1> QED
  BY <1>1, <1>2, LeavingKeeps

LEMMA StoppingKeeps ==
  ASSUME SourcesInv, Stop \/ Restart
  PROVE  SourcesInv'
<1>1. UNCHANGED <<kind, now, made, touched, items, degraded>>
  BY DEF Stop, Restart
<1>2. walk' = NoWalk \/ walk' = [NoWalk EXCEPT !.up = FALSE]
  BY DEF Stop, Restart
<1>3. walk' \in WalkType /\ walk'.left = <<>> /\ walk'.at.page = 0 /\ walk'.at.segment = 1
  <2>1. NoWalk.at = Start
    BY DEF NoWalk
  <2> QED
    BY <1>2, <2>1, Beginnings DEF WalkType
<1>4. WalkTyped' /\ DueIsAhead'
  BY <1>3 DEF WalkTyped, DueIsAhead
<1> QED
  BY <1>1, <1>3, <1>4, ItemsTyped, RoundStep

-----------------------------------------------------------------------------
\* What a page left of the mentions due is behind the page, and young enough for
\* the round to go on.
LEMMA BehindPage ==
  ASSUME SourcesInv, walk.left # <<>>, NEW m \in Mentions,
         NEW s \in Feeds, s = Head(walk.left), NEW on, on = FromCursor(s, walk),
         Store(Found(s, on)), Due(m, s), items'[m] = "none",
         ~ \E g \in SegmentsOf[m] : g > walk.at.segment
  PROVE  /\ m \in on \ Page(s, on) /\ walk.at.segment \in SegmentsOf[m]
         /\ ~ PastWindow(s, on, walk.since)
<1>1. items[m] = "none" /\ ~ (m \in Found(s, on))
  BY StoreFacts DEF Due
<1>2. walk.at.segment \in SegmentsOf[m] /\ m \in on
  BY <1>1 DEF SourcesInv, DueIsAhead, ToRead
<1>3. m \notin Page(s, on)
  BY <1>1 DEF Found, Due
<1>4. on \in SUBSET Mentions /\ IsFiniteSet(on) /\ on # {}
  BY <1>2, ItemsTyped, ListFinite
<1> DEFINE l == LastOf(s, Page(s, on))
<1>5. l \in Mentions /\ Ahead(s, Place(l), Place(m))
  <2>1. l \in Page(s, on) /\ Ahead(s, Place(l), Place(m))
    BY <1>2, <1>3, <1>4, PageFacts, ItemsTyped
  <2>2. Page(s, on) \subseteq on
    BY DEF Page
  <2> QED
    BY <1>4, <2>1, <2>2
<1> HIDE DEF l
<1>6. ASSUME PastWindow(s, on, walk.since) PROVE FALSE
  <2>1. kind[s] \in {"created", "updated"} /\ touched[l] < walk.since
    BY <1>6 DEF PastWindow, l
  <2>2. touched[l] \in Nat /\ touched[m] \in Nat /\ made[m] \in Nat /\ walk.since \in Nat
    BY <1>5, SourceNumbers, ItemsTyped, WalkFacts DEF SourcesTypeOK
  <2>3. touched[m] <= touched[l]
    BY <1>5, <2>1, <2>2 DEF Ahead, Place
  <2>4. walk.since <= made[m] /\ made[m] <= touched[m]
    BY <2>1 DEF Due, InWindow, SourcesInv, SourcesTyped, InTime
  <2> QED
    BY <2>1, <2>2, <2>3, <2>4
<1> QED
  BY <1>2, <1>3, <1>6

\* Numbered pages: behind a page there are as many more as a page has.
LEMMA NextNumber ==
  ASSUME SourcesInv, NEW s, NEW on, on = FromCursor(s, walk), kind[s] = "numbered",
         NEW m \in on \ Page(s, on)
  PROVE  Cardinality(Before(s, m, List(s, walk))) >= (walk.at.page + 1) * PageSize
<1> DEFINE L == List(s, walk)
           p == walk.at.page
<1>1. /\ SourcesTypeOK /\ L \in SUBSET Mentions /\ IsFiniteSet(L) /\ on \in SUBSET L
      /\ on \in SUBSET Mentions /\ IsFiniteSet(on) /\ on # {}
  BY ItemsTyped, ListFinite
<1>2. p \in Nat /\ PageSize \in Nat \ {0} /\ p * PageSize \in Nat
  <2>1. p \in Nat /\ PageSize \in Nat \ {0}
    BY ItemsTyped, WalkFacts, SourceNumbers
  <2> HIDE DEF p
  <2> QED
    BY <2>1
<1>3. p > 0 => \A k \in on : Cardinality(Before(s, k, L)) >= p * PageSize
  BY DEF FromCursor
<1> HIDE DEF L, p
<1>4. PICK f \in on : Before(s, f, on) = {}
  BY <1>1, EndsOfList
<1> DEFINE B == Before(s, f, L)
           D == Before(s, m, on)
<1>5. IsFiniteSet(B) /\ IsFiniteSet(D) /\ Cardinality(B) \in Nat /\ Cardinality(D) \in Nat
  BY <1>1, <1>4, BeforeFacts, FS_CardinalityType
<1>6. Cardinality(B) >= p * PageSize
  <2>1. CASE p > 0
    BY <1>3, <1>4, <2>1
  <2>2. CASE p = 0
    <3>1. p * PageSize = 0
      BY <1>2, <2>2
    <3> QED
      BY <1>5, <3>1
  <2> QED
    BY <1>2, <2>1, <2>2
<1>7. ~ (Cardinality(D) < PageSize)
  BY DEF Page
<1>8. B \intersect D = {}
  BY <1>1, <1>4 DEF Before
<1>9. Ahead(s, Place(f), Place(m))
  <2>1. f # m
    <3>1. Cardinality({}) = 0
      BY FS_EmptySet
    <3> QED
      BY <1>2, <1>4, <1>7, <3>1
  <2>2. ~ Ahead(s, Place(m), Place(f))
    BY <1>4 DEF Before
  <2> QED
    BY <1>1, <1>4, <2>1, <2>2, AheadFacts
<1>10. B \union D \in SUBSET Before(s, m, L)
  <2>1. \A k \in B : k \in L /\ Ahead(s, Place(k), Place(m))
    BY <1>1, <1>4, <1>9, AheadFacts DEF Before
  <2>2. \A k \in D : k \in L /\ Ahead(s, Place(k), Place(m))
    BY <1>1 DEF Before
  <2> QED
    BY <2>1, <2>2 DEF Before
<1>11. IsFiniteSet(Before(s, m, L))
  BY <1>1, BeforeFacts
<1> HIDE DEF B, D
<1>12. Cardinality(B \union D) = Cardinality(B) + Cardinality(D)
  <2>1. Cardinality(B \union D) = Cardinality(B) + Cardinality(D) - Cardinality(B \intersect D)
    BY <1>5, FS_Union
  <2>2. Cardinality(B \intersect D) = 0
    BY <1>8, FS_EmptySet
  <2> QED
    BY <1>5, <2>1, <2>2
<1>13. Cardinality(B \union D) <= Cardinality(Before(s, m, L)) /\ Cardinality(Before(s, m, L)) \in Nat
  BY <1>10, <1>11, FS_Subset, FS_CardinalityType
<1>14. (p + 1) * PageSize = p * PageSize + PageSize
  BY <1>2
<1>15. Cardinality(Before(s, m, L)) >= (p + 1) * PageSize
  BY <1>2, <1>5, <1>6, <1>7, <1>12, <1>13, <1>14
<1> QED
  BY <1>15 DEF L, p

\* The place a page leads to, in the same segment or at the beginning of the next.
LEMMA FollowingFacts ==
  ASSUME SourcesInv, walk.left # <<>>, NEW s \in Feeds, s = Head(walk.left),
         NEW on, on = FromCursor(s, walk), NEW at \in Following(s, on), ~ LastAllowed,
         walk' = [walk EXCEPT !.at = at]
  PROVE  /\ WalkTyped' /\ walk'.left = walk.left /\ walk'.up = walk.up
         /\ walk'.since = walk.since /\ walk'.until = walk.until
         /\ walk'.at = at /\ at.moved = walk.at.moved
         /\ \/ /\ ~ (on \subseteq Page(s, on)) /\ at.segment = walk.at.segment
               /\ at.page = walk.at.page + 1 /\ at.after = Place(LastOf(s, Page(s, on)))
            \/ /\ on \subseteq Page(s, on) \/ PastWindow(s, on, walk.since)
               /\ at.segment = walk.at.segment + 1 /\ at.page = 0
<1> DEFINE AtType == [segment : Nat, page : Nat, pages : Nat, moved : SUBSET Mentions,
                      after : [time : Nat, mention : Nat]]
           goes   == ~ (on \subseteq Page(s, on)) /\ ~ PastWindow(s, on, walk.since)
           last   == Place(LastOf(s, Page(s, on)))
<1>1. WalkTyped /\ walk \in WalkType /\ walk.at \in AtType
  BY ItemsTyped, WalkFacts DEF WalkTyped
<1>2. /\ walk.at.segment \in 1 .. Segments[s] /\ Segments[s] \in Nat
      /\ walk.at.pages \in Nat /\ walk.at.page \in Nat
      /\ walk.at.pages + 1 \in 0 .. MaxPages - 1
  <2>1. walk.at.segment \in 1 .. Segments[s] /\ walk.at.pages \in 0 .. MaxPages - 1
    BY <1>1 DEF WalkTyped
  <2>2. MaxPages \in Nat \ {0} /\ Segments[s] \in Nat /\ walk.at.pages \in Nat /\ walk.at.page \in Nat
    BY <1>1, SourceNumbers
  <2>3. ~ (walk.at.pages + 1 >= MaxPages)
    BY DEF LastAllowed
  <2> QED
    BY <2>1, <2>2, <2>3
<1>3. CASE goes
  <2>1. at = [walk.at EXCEPT !.page = @ + 1, !.pages = @ + 1, !.after = last]
    BY <1>3 DEF Following
  <2>2. last \in [time : Nat, mention : Nat]
    <3>1. on \in SUBSET Mentions /\ IsFiniteSet(on) /\ on # {}
      BY <1>3, ItemsTyped, ListFinite
    <3>2. LastOf(s, Page(s, on)) \in Page(s, on)
      BY <3>1, PageFacts, ItemsTyped
    <3>3. LastOf(s, Page(s, on)) \in Mentions
      BY <3>1, <3>2 DEF Page
    <3> QED
      BY <3>3, SourceNumbers, ItemsTyped DEF SourcesTypeOK, Place
  <2> HIDE DEF last
  <2>3. /\ at \in AtType /\ at.segment = walk.at.segment /\ at.page = walk.at.page + 1
        /\ at.pages = walk.at.pages + 1 /\ at.moved = walk.at.moved /\ at.after = last
    <3>1. at = [segment |-> walk.at.segment, page |-> walk.at.page + 1,
                pages |-> walk.at.pages + 1, moved |-> walk.at.moved, after |-> last]
      BY <1>1, <2>1
    <3>2. walk.at.page + 1 \in Nat /\ walk.at.pages + 1 \in Nat /\ walk.at.segment \in Nat
          /\ walk.at.moved \in SUBSET Mentions
      BY <1>1, <1>2
    <3> QED
      BY <2>2, <3>1, <3>2
  <2>4. /\ walk' \in WalkType /\ walk'.left = walk.left /\ walk'.up = walk.up
        /\ walk'.since = walk.since /\ walk'.until = walk.until /\ walk'.at = at
    BY <1>1, <2>3 DEF WalkType
  <2>5. WalkTyped'
    BY <1>1, <1>2, <2>3, <2>4 DEF WalkTyped
  <2> QED
    BY <1>3, <2>3, <2>4, <2>5 DEF last
<1>4. CASE ~ goes
  <2>1. /\ walk.at.segment < Segments[s]
        /\ at = [walk.at EXCEPT !.segment = @ + 1, !.page = 0, !.pages = @ + 1,
                                !.after = Start.after]
    BY <1>4 DEF Following
  <2>2. Start.after \in [time : Nat, mention : Nat]
    BY DEF Start
  <2>3. /\ at \in AtType /\ at.segment = walk.at.segment + 1 /\ at.page = 0
        /\ at.pages = walk.at.pages + 1 /\ at.moved = walk.at.moved
    <3>1. at = [segment |-> walk.at.segment + 1, page |-> 0,
                pages |-> walk.at.pages + 1, moved |-> walk.at.moved, after |-> Start.after]
      BY <1>1, <2>1
    <3>2. walk.at.segment + 1 \in Nat /\ walk.at.pages + 1 \in Nat /\ 0 \in Nat
          /\ walk.at.moved \in SUBSET Mentions
      BY <1>1, <1>2
    <3> QED
      BY <2>2, <3>1, <3>2
  <2>4. /\ walk' \in WalkType /\ walk'.left = walk.left /\ walk'.up = walk.up
        /\ walk'.since = walk.since /\ walk'.until = walk.until /\ walk'.at = at
    BY <1>1, <2>3 DEF WalkType
  <2>5. at.segment \in 1 .. Segments[s]
    BY <1>2, <2>1, <2>3
  <2>6. WalkTyped'
    BY <1>1, <1>2, <2>3, <2>4, <2>5 DEF WalkTyped
  <2> QED
    BY <1>4, <2>3, <2>4, <2>6
<1> QED
  BY <1>3, <1>4

\* A page that leads on: what is due is behind it, or in a later segment.
LEMMA ReadOnKeeps ==
  ASSUME SourcesInv, walk.left # <<>>, NEW s \in Feeds, s = Head(walk.left),
         NEW on, on = FromCursor(s, walk), NEW at \in Following(s, on), ~ LastAllowed,
         walk' = [walk EXCEPT !.at = at], Store(Found(s, on)),
         UNCHANGED <<kind, now, made, touched, degraded>>
  PROVE  SourcesInv'
<1>1. /\ WalkTyped' /\ walk'.left = walk.left /\ walk'.up = walk.up
      /\ walk'.since = walk.since /\ walk'.until = walk.until
      /\ walk'.at = at /\ at.moved = walk.at.moved
      /\ \/ /\ ~ (on \subseteq Page(s, on)) /\ at.segment = walk.at.segment
            /\ at.page = walk.at.page + 1 /\ at.after = Place(LastOf(s, Page(s, on)))
         \/ /\ on \subseteq Page(s, on) \/ PastWindow(s, on, walk.since)
            /\ at.segment = walk.at.segment + 1 /\ at.page = 0
  BY FollowingFacts
<1>2. /\ WalkTyped /\ SourcesTypeOK /\ walk.at.segment \in Nat /\ walk.at.page \in Nat
      /\ walk.until <= now
  BY ItemsTyped, WalkFacts DEF SourcesInv, SourcesTyped, InTime
<1>3. ASSUME NEW m \in Mentions, Due(m, s)', items'[m] = "none" PROVE ToRead(m, s)'
  <2>1. Due(m, s)
    BY <1>1, <1>3 DEF Due, InWindow, PassesFilter1
  <2>2. CASE \E g \in SegmentsOf[m] : g > walk.at.segment
    <3>1. PICK g \in SegmentsOf[m] : g > walk.at.segment
      BY <2>2
    <3>2. g \in Nat
      BY SourceNumbers
    <3>3. CASE at.segment = walk.at.segment
      BY <1>1, <3>1, <3>3 DEF ToRead
    <3>4. CASE at.segment = walk.at.segment + 1 /\ at.page = 0
      <4>1. g >= walk'.at.segment /\ walk'.at.segment \in Nat /\ walk'.at.page = 0
        BY <1>1, <1>2, <3>1, <3>2, <3>4
      <4> QED
        BY <1>3, <4>1, FreshSegment
    <3> QED
      BY <1>1, <3>3, <3>4
  <2>3. CASE ~ \E g \in SegmentsOf[m] : g > walk.at.segment
    <3>1. /\ m \in on \ Page(s, on) /\ walk.at.segment \in SegmentsOf[m]
          /\ ~ PastWindow(s, on, walk.since)
      BY <1>3, <2>1, <2>3, BehindPage
    <3>2. /\ at.segment = walk.at.segment /\ at.page = walk.at.page + 1
          /\ at.after = Place(LastOf(s, Page(s, on)))
      BY <1>1, <3>1
    <3>3. List(s, walk)' = List(s, walk)
      BY <1>1, <3>2 DEF List, InWindow
    <3>4. m \in List(s, walk)'
      BY <3>1, <3>3 DEF FromCursor
    <3>5. CASE kind[s] = "numbered"
      <4>1. Cardinality(Before(s, m, List(s, walk))) >= (walk.at.page + 1) * PageSize
        BY <3>1, <3>5, NextNumber
      <4>2. Before(s, m, List(s, walk))' = Before(s, m, List(s, walk))
        BY <3>3 DEF Before, Ahead, Place
      <4>3. Cardinality(Before(s, m, List(s, walk))') >= walk'.at.page * PageSize
        BY <1>1, <3>2, <4>1, <4>2
      <4> QED
        BY <1>1, <3>1, <3>2, <3>4, <3>5, <4>3 DEF ToRead, FromCursor
    <3>6. CASE kind[s] # "numbered"
      <4>1. on \in SUBSET Mentions /\ IsFiniteSet(on) /\ on # {}
        BY <3>1, ItemsTyped, ListFinite
      <4>2. Ahead(s, at.after, Place(m))
        BY <1>2, <3>1, <3>2, <4>1, PageFacts
      <4>3. Ahead(s, walk.at.after, Place(m))'
        BY <1>1, <4>2 DEF Ahead, Place
      <4> QED
        BY <1>1, <3>1, <3>2, <3>4, <3>6, <4>3 DEF ToRead, FromCursor
    <3> QED
      BY <3>5, <3>6
  <2> QED
    BY <2>2, <2>3
<1>4. DueIsAhead'
  <2> SUFFICES ASSUME walk'.left # <<>>, NEW m \in Mentions, Due(m, Head(walk.left))',
                      items'[m] = "none"
               PROVE  ToRead(m, Head(walk.left))'
    BY DEF DueIsAhead
  <2>1. Head(walk.left)' = s
    BY <1>1
  <2> QED
    BY <1>3, <2>1
<1> QED
  BY <1>1, <1>2, <1>4, StoreFacts, ItemsTyped, RoundStep

LEMMA SourcesReadKeeps ==
  ASSUME SourcesInv, ReadPage
  PROVE  SourcesInv'
<1> DEFINE s  == Head(walk.left)
           on == FromCursor(s, walk)
<1>1. /\ walk.left # <<>> /\ Store(Found(s, on)) /\ UNCHANGED <<kind, now, made, touched>>
      /\ \/ Recorded(TRUE)
         \/ Recorded(FALSE)
         \/ /\ ~ LastAllowed /\ UNCHANGED degraded
            /\ \E at \in Following(s, on) : walk' = [walk EXCEPT !.at = at]
  BY DEF ReadPage
<1>2. s \in Feeds
  BY <1>1, ItemsTyped, WalkFacts
<1>3. items' \in [Mentions -> {"none", "live", "backfill"}]
  BY <1>1, StoreFacts
<1>4. CASE Recorded(TRUE) \/ Recorded(FALSE)
  BY <1>1, <1>3, <1>4, LeavingKeeps
<1>5. ASSUME NEW at \in Following(s, on), walk' = [walk EXCEPT !.at = at], ~ LastAllowed,
             UNCHANGED degraded
      PROVE  SourcesInv'
  BY <1>1, <1>2, <1>5, ReadOnKeeps
<1> QED
  BY <1>1, <1>4, <1>5

LEMMA SourcesStepKeeps ==
  ASSUME SourcesInv, [SourcesNext]_sourcesVars
  PROVE  SourcesInv'
<1>1. CASE UNCHANGED sourcesVars
  <2>1. UNCHANGED <<kind, now, made, touched, items, walk, degraded>>
    BY <1>1 DEF sourcesVars
  <2>2. SourcesTyped'
    BY <2>1 DEF SourcesInv, SourcesTyped, SourcesTypeOK, WalkTyped, InTime, Published
  <2>3. DueIsAhead'
    BY <2>1 DEF SourcesInv, DueIsAhead, Due, ToRead, FromCursor, List, Before, Ahead, Place,
                InWindow, PassesFilter1
  <2> QED
    BY <2>2, <2>3 DEF SourcesInv
<1>2. CASE ClockTick
  BY <1>2, ClockTickKeeps
<1>3. CASE Round \/ Backfill
  BY <1>3, BeginKeeps DEF Round, Backfill
<1>4. CASE ReadPage
  BY <1>4, SourcesReadKeeps
<1>5. CASE FetchFails \/ StoreFails
  BY <1>5, FailuresKeep
<1>6. CASE Stop \/ Restart
  BY <1>6, StoppingKeeps
<1>7. CASE \E m \in Mentions : Publish(m)
  BY <1>7, SourcesPublishKeeps
<1>8. CASE \E m \in Mentions : Bump(m)
  BY <1>8, BumpKeeps
<1>9. CASE \E m \in Mentions : Vanish(m)
  BY <1>9, VanishKeeps
<1> QED
  BY <1>1, <1>2, <1>3, <1>4, <1>5, <1>6, <1>7, <1>8, <1>9 DEF SourcesNext, Work

LEMMA SourcesAlways == SourcesSpec => []SourcesInv
<1>1. SourcesInit => SourcesInv
  BY SourcesInitially
<1>2. SourcesInv /\ [SourcesNext]_sourcesVars => SourcesInv'
  BY SourcesStepKeeps
<1> QED
  BY <1>1, <1>2, PTL DEF SourcesSpec

\* The state of ingestion is of its type, and a round reads no more pages of a
\* source than it may (MAX_PAGES), nor segments that the source does not have.
THEOREM SourcesTypeCorrect == SourcesSpec => []SourcesTypeOK
<1>1. SourcesInv => SourcesTypeOK
  BY ItemsTyped
<1> QED
  BY <1>1, SourcesAlways, PTL

-----------------------------------------------------------------------------
\* The round leaves a source as read only from the last page of the last segment,
\* or one whose end is older than the window.
LEMMA LeavesAtEnd ==
  ASSUME SourcesInv, [SourcesNext]_sourcesVars, NEW s \in Feeds, Leaves(s, TRUE)
  PROVE  /\ ReadPage /\ Following(s, FromCursor(s, walk)) = {}
         /\ Store(Found(s, FromCursor(s, walk)))
<1>1. /\ walk.left # <<>> /\ s = Head(walk.left) /\ walk'.up /\ walk'.left = Tail(walk.left)
      /\ s \notin degraded'
  BY DEF Leaves
<1>2. walk'.left # walk.left
  BY <1>1, ItemsTyped, WalkFacts
<1>3. CASE UNCHANGED sourcesVars
  BY <1>2, <1>3 DEF sourcesVars
<1>4. CASE ClockTick \/ \E m \in Mentions : Publish(m)
  BY <1>2, <1>4 DEF ClockTick, Publish
<1>5. CASE \E m \in Mentions : Bump(m) \/ Vanish(m)
  <2>1. PICK m \in Mentions : Bump(m) \/ Vanish(m)
    BY <1>5
  <2>2. \E ms \in SUBSET Mentions : Moves(ms)
    <3> DEFINE behind == {n \in Mentions : SourceOf[n] = SourceOf[m]
                                             /\ Ahead(SourceOf[m], Place(m), Place(n))}
    <3>1. behind \in SUBSET Mentions /\ {m} \in SUBSET Mentions
      OBVIOUS
    <3>2. Moves({m}) \/ Moves(behind)
      BY <2>1 DEF Bump, Vanish
    <3> HIDE DEF behind
    <3> QED
      BY <3>1, <3>2
  <2> QED
    BY <1>2, <2>2, MovesKeepWalk
<1>6. CASE Round \/ Backfill
  BY <1>1, <1>6 DEF Round, Backfill, Begin
<1>7. CASE FetchFails \/ StoreFails
  BY <1>1, <1>7, RecordedFacts DEF FetchFails, StoreFails
<1>8. CASE Stop
  BY <1>1, <1>8, Beginnings DEF Stop, WalkType
<1>9. CASE Restart
  BY <1>1, <1>9, ItemsTyped DEF Restart, WalkTyped
<1>10. CASE ReadPage
  <2> DEFINE on == FromCursor(s, walk)
  <2>1. /\ Store(Found(s, on))
        /\ \/ Following(s, on) = {}
           \/ Recorded(FALSE)
           \/ \E at \in Following(s, on) : walk' = [walk EXCEPT !.at = at]
    BY <1>1, <1>10 DEF ReadPage
  <2>2. ~ Recorded(FALSE)
    BY <1>1, RecordedFacts
  <2>3. ASSUME NEW at \in Following(s, on), walk' = [walk EXCEPT !.at = at] PROVE FALSE
    <3>1. walk'.left = walk.left
      BY <2>3, ItemsTyped DEF WalkTyped, WalkType
    <3> QED
      BY <1>2, <3>1
  <2> QED
    BY <1>10, <2>1, <2>2, <2>3
<1> QED
  BY <1>3, <1>4, <1>5, <1>6, <1>7, <1>8, <1>9, <1>10 DEF SourcesNext, Work

\* A source that is recorded "ok" was read to the end, however its lists moved:
\* for any number of mentions, pages, segments and sources.
THEOREM OkRoundsAreComplete == SourcesSpec => OkRoundsComplete
<1>1. SourcesInv /\ [SourcesNext]_sourcesVars
        => [\A s \in Feeds : Leaves(s, TRUE)
              => \A m \in Mentions : Due(m, s) => items'[m] # "none"]_sourcesVars
  <2> SUFFICES ASSUME SourcesInv, [SourcesNext]_sourcesVars,
                      NEW s \in Feeds, Leaves(s, TRUE), NEW m \in Mentions, Due(m, s),
                      items'[m] = "none"
               PROVE  FALSE
    OBVIOUS
  <2> DEFINE on == FromCursor(s, walk)
  <2>1. walk.left # <<>> /\ s = Head(walk.left)
    BY DEF Leaves
  <2>2. Following(s, on) = {} /\ Store(Found(s, on))
    BY LeavesAtEnd
  <2>3. ~ (walk.at.segment < Segments[s])
        /\ (on \subseteq Page(s, on) \/ PastWindow(s, on, walk.since))
    BY <2>2 DEF Following
  <2>4. ~ \E g \in SegmentsOf[m] : g > walk.at.segment
    <3>1. SegmentsOf[m] \subseteq 1 .. Segments[s] /\ Segments[s] \in Nat
      BY SourceNumbers DEF Due
    <3>2. walk.at.segment \in Nat
      BY ItemsTyped, WalkFacts
    <3> QED
      BY <2>3, <3>1, <3>2
  <2>5. m \in on \ Page(s, on) /\ ~ PastWindow(s, on, walk.since)
    BY <2>1, <2>2, <2>4, BehindPage
  <2> QED
    BY <2>3, <2>5
<1> QED
  BY <1>1, SourcesAlways, PTL DEF SourcesSpec, OkRoundsComplete
=============================================================================
