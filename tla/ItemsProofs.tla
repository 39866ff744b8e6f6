----------------------------- MODULE ItemsProofs -----------------------------
(***************************************************************************)
(* TypeOK, NothingReturns, DraftsFit and RoundsPurge of Items, for any     *)
(* posts, ids and targets.  Each of the four speaks of rows that one       *)
(* process writes between two statements of the other, so the invariant    *)
(* says what the worker may still rely on when it comes to its second one: *)
(* of the post it is about to store, of the rows it has selected for       *)
(* pruning, and of the item whose draft is being written.                  *)
(***************************************************************************)
EXTENDS Items, TLAPS

RowType == [post : Posts \union {None}, live : BOOLEAN, text : BOOLEAN,
            state : {"gone", "new", "relevant", "assigned", "escalated", "irrelevant"},
            age : 0 .. 2, tries : 0 .. MaxTries,
            draft : [state : {"none", "pending", "approved", "ignored", "expired"},
                     about : Posts \union {None}]]

Rows == [Ids -> RowType]

WorkerType == [pc : {"down", "idle", "ingest", "store", "prune", "classify", "draft",
                     "model", "announce"},
               post : Posts \union {None}, remove : SUBSET Ids, redact : SUBSET Ids,
               todo : SUBSET [id : Ids, post : Posts, old : BOOLEAN], item : Ids \union {0}]

RowsFit ==
  /\ row \in Rows
  /\ \A i \in Ids : IF row[i].state = "gone" THEN row[i].draft.state = "none"
                     ELSE row[i].post \in Posts
  /\ \A i, j \in Stored : row[i].post = row[j].post => i = j

TablesFit ==
  /\ told \in [Ids -> Posts \union {None}]
  /\ ledger \subseteq Threads /\ audit \subseteq Targets
  /\ forget.pc = "found" => forget.target \in Targets /\ forget.ids \subseteq Ids

\* What the worker goes by from one of its statements to the next.
MayStore ==
  worker.pc = "store" =>
    /\ worker.post \in Posts \ SitePosts
    /\ WasForgotten(worker.post) => worker.post \in slipped

MayPrune ==
  worker.pc = "prune" =>
    \A i \in Stored : Expired(i) /\ row[i].text => i \in worker.remove \union worker.redact

MayDraft ==
  /\ worker.pc \in {"model", "announce"} => worker.item \in Ids /\ worker.post \in Posts
  /\ worker.pc = "model" =>
       worker.item \in crossed \/ (worker.item \in Stored /\ row[worker.item].post = worker.post)

Inv ==
  /\ RowsFit /\ TablesFit
  /\ worker \in WorkerType /\ MayStore /\ MayPrune /\ MayDraft
  /\ NothingReturns /\ DraftsFit

Purges == worker.pc = "prune" /\ worker'.pc = "classify" => NoOldText'

-----------------------------------------------------------------------------
LEMMA GoneIsRow ==
  Gone \in RowType /\ Gone.state = "gone" /\ Gone.draft.about = None /\ Gone.draft.state = "none"
  BY ItemsAssumption DEF Gone, NoDraft, RowType

LEMMA IdleIsWorker ==
  ASSUME NEW pc \in {"down", "idle", "ingest", "classify"}
  PROVE  [Idle EXCEPT !.pc = pc] \in WorkerType /\ [Idle EXCEPT !.pc = pc].pc = pc
  BY DEF Idle, WorkerType

LEMMA InitInv == Init => Inv
<1> SUFFICES ASSUME Init PROVE Inv
  OBVIOUS
<1>1. row \in Rows /\ (\A i \in Ids : row[i] = Gone) /\ Stored = {}
  BY GoneIsRow DEF Init, Rows, Stored
<1>2. worker \in WorkerType /\ worker.pc = "idle"
  BY DEF Init, Idle, WorkerType
<1>3. forget.pc = "idle" /\ told \in [Ids -> Posts \union {None}] /\ ledger = {} /\ audit = {}
  BY DEF Init, NoCall
<1> QED
  BY <1>1, <1>2, <1>3, GoneIsRow
     DEF Inv, RowsFit, TablesFit, MayStore, MayPrune, MayDraft, NothingReturns, DraftsFit

-----------------------------------------------------------------------------
(***************************************************************************)
(* What the statements do to the rows.                                     *)
(***************************************************************************)
\* A row that is written keeps its post, its age and what its draft is about,
\* and gets no text.
Kept(r, q) ==
  /\ r.post = q.post /\ r.age = q.age /\ r.draft.about = q.draft.about
  /\ (r.state = "gone") = (q.state = "gone") /\ (r.text => q.text)
  /\ r.state = "gone" => r.draft.state = q.draft.state

AllKept == row' \in Rows /\ \A i \in Ids : Kept(row'[i], row[i])

\* Such writes disturb nothing that is said of the rows.
LEMMA KeptFits ==
  ASSUME Inv, AllKept, UNCHANGED <<audit, slipped, crossed>>
  PROVE  RowsFit' /\ NothingReturns' /\ DraftsFit'
<1>1. Stored' = Stored
  BY DEF AllKept, Kept, Stored
<1> QED
  BY <1>1 DEF AllKept, Kept, Inv, RowsFit, NothingReturns, DraftsFit, Stored

\* Nor what the worker relies on.
LEMMA KeptWorker ==
  ASSUME Inv, AllKept, UNCHANGED <<worker, audit, slipped, crossed>>
  PROVE  worker' \in WorkerType /\ MayStore' /\ MayPrune' /\ MayDraft'
<1>1. Stored' = Stored
  BY DEF AllKept, Kept, Stored
<1> QED
  BY <1>1 DEF AllKept, Kept, Inv, RowsFit, Rows, MayStore, MayPrune, MayDraft, WasForgotten,
              Expired, Stored

\* A worker that has nothing in hand relies on nothing.
LEMMA FreeWorker ==
  ASSUME worker' \in WorkerType, worker'.pc \notin {"store", "prune", "model", "announce"}
  PROVE  MayStore' /\ MayPrune' /\ MayDraft'
  BY DEF MayStore, MayPrune, MayDraft

LEMMA Unpruned == ASSUME worker.pc # "prune" \/ worker'.pc # "classify" PROVE Purges
  BY DEF Purges

\* The whole of a step of the gateway or the worker that only writes rows.
LEMMA WriteStep ==
  ASSUME Inv, AllKept, UNCHANGED <<told, audit, forget, slipped, crossed>>,
         ledger' \subseteq Threads,
         worker' = worker \/ (worker' \in WorkerType
                              /\ worker'.pc \notin {"store", "prune", "model", "announce"}
                              /\ worker.pc # "prune")
  PROVE  Inv' /\ Purges
<1>1. TablesFit'
  BY DEF Inv, TablesFit
<1>2. worker' \in WorkerType /\ MayStore' /\ MayPrune' /\ MayDraft'
  BY KeptWorker, FreeWorker
<1>3. Purges
  BY DEF Purges
<1> QED
  BY <1>1, <1>2, <1>3, KeptFits DEF Inv

\* Insertion: the post comes under a free id, and only if it is not stored yet.
Fresh(p, live) == [Gone EXCEPT !.post = p, !.state = "new", !.live = live, !.text = TRUE]

LEMMA InsertRows ==
  ASSUME Inv, NEW p \in Posts, NEW live \in BOOLEAN, Insert(p, live)
  PROVE  /\ RowsFit'
         /\ \A i \in Ids : row'[i] = row[i] \/ (i \notin Stored /\ row'[i] = Fresh(p, live))
<1>1. CASE row' = row
  BY <1>1 DEF Inv, RowsFit, Stored
<1>2. CASE row' # row
  <2>1. ~ Known(p) /\ \E n \in Ids : NextId(n) /\ row' = [row EXCEPT ![n] = Fresh(p, live)]
    BY <1>2 DEF Insert, Fresh
  <2>2. PICK n \in Ids : NextId(n) /\ row' = [row EXCEPT ![n] = Fresh(p, live)]
    BY <2>1
  <2>3. n \notin Stored
    <3>1. n \in Nat
      BY ItemsAssumption DEF Ids
    <3> QED
      BY <2>2, <3>1 DEF NextId
  <2>4. Fresh(p, live) \in RowType /\ Fresh(p, live).post = p /\ Fresh(p, live).state = "new"
    BY GoneIsRow DEF Fresh, RowType, Gone
  <2>5. row' \in Rows /\ Stored' = Stored \union {n}
    BY <2>2, <2>4 DEF Inv, RowsFit, Rows, Stored
  <2>6. \A i \in Stored : row'[i] = row[i] /\ row[i].post # p
    BY <2>1, <2>2, <2>3 DEF Inv, RowsFit, Rows, Stored, Known, Held
  <2>7. RowsFit'
    BY <2>2, <2>4, <2>5, <2>6 DEF Inv, RowsFit, Rows, Stored
  <2> QED
    BY <2>2, <2>3, <2>7 DEF Inv, RowsFit, Rows
<1> QED
  BY <1>1, <1>2

\* What a new row is: young, with text and without a draft.
LEMMA FreshRow ==
  ASSUME NEW p \in Posts, NEW live \in BOOLEAN
  PROVE  /\ Fresh(p, live).post = p /\ Fresh(p, live).age = 0
         /\ Fresh(p, live).draft.about = None /\ Fresh(p, live).state = "new"
  BY DEF Fresh, Gone, NoDraft

\* An insertion that was allowed, by a caller that changes nothing else.
LEMMA InsertStep ==
  ASSUME Inv, NEW p \in Posts, NEW live \in BOOLEAN, Insert(p, live),
         p \in SitePosts \/ ~ WasForgotten(p) \/ p \in slipped,
         UNCHANGED <<told, ledger, audit, forget, slipped, crossed>>,
         worker' = worker \/ (worker' \in WorkerType /\ worker'.pc = "ingest"
                              /\ worker.pc # "prune")
  PROVE  Inv' /\ Purges
<1>1. RowsFit' /\ \A i \in Ids : row'[i] = row[i] \/ (i \notin Stored /\ row'[i] = Fresh(p, live))
  BY InsertRows
<1>2. \A i \in Stored' : \/ row'[i] = row[i] /\ i \in Stored
                         \/ /\ i \notin Stored /\ row'[i].post = p /\ row'[i].age = 0
                            /\ row'[i].draft.about = None
  BY <1>1, FreshRow DEF Stored
<1>3. \A i \in Stored : i \in Stored' /\ row'[i] = row[i]
  BY <1>1 DEF Stored
<1>4. TablesFit'
  BY DEF Inv, TablesFit
<1>5. NothingReturns'
  BY <1>2 DEF Inv, NothingReturns, WasForgotten, Stored
<1>6. DraftsFit'
  BY <1>2 DEF Inv, DraftsFit, Stored
<1>7. MayStore' /\ MayPrune' /\ MayDraft' /\ worker' \in WorkerType
  <2>1. CASE worker' = worker
    <3>1. MayStore'
      BY <2>1 DEF Inv, MayStore, WasForgotten
    <3>2. MayPrune'
      BY <1>2, <2>1 DEF Inv, MayPrune, Expired, Stored
    <3>3. MayDraft'
      BY <1>3, <2>1 DEF Inv, MayDraft
    <3> QED
      BY <2>1, <3>1, <3>2, <3>3 DEF Inv
  <2>2. CASE worker' \in WorkerType /\ worker'.pc = "ingest"
    BY <2>2, FreeWorker
  <2> QED
    BY <2>1, <2>2
<1>8. Purges
  BY DEF Purges
<1> QED
  BY <1>1, <1>4, <1>5, <1>6, <1>7, <1>8 DEF Inv

\* Deletion: the rows go with their drafts.
LEMMA DeleteRows ==
  ASSUME Inv, NEW rows \in Rows, NEW ids \in SUBSET Ids, Delete(rows, ids),
         \A i \in Ids : Kept(rows[i], row[i])
  PROVE  /\ RowsFit' /\ DraftsFit' /\ ledger' \subseteq Threads
         /\ \A i \in Stored' : i \in Stored /\ i \notin ids /\ row'[i] = rows[i]
         /\ \A i \in Stored \ ids : i \in Stored'
<1>1. row' = [i \in Ids |-> IF i \in ids THEN Gone ELSE rows[i]]
  BY DEF Delete
<1>2. row' \in Rows
  BY <1>1, GoneIsRow DEF Rows
<1>3. \A i \in Ids : IF i \in ids THEN row'[i] = Gone ELSE row'[i] = rows[i]
  BY <1>1
<1>4. \A i \in Stored' : i \in Stored /\ i \notin ids /\ row'[i] = rows[i]
  BY <1>3, GoneIsRow DEF Stored, Kept
<1>5. RowsFit'
  BY <1>2, <1>3, <1>4, GoneIsRow DEF Inv, RowsFit, Stored, Kept
<1>6. DraftsFit'
  BY <1>4 DEF Inv, DraftsFit, Stored, Kept, Delete
<1>7. ledger' \subseteq Threads
  BY DEF Inv, TablesFit, Delete
<1>8. \A i \in Stored \ ids : i \in Stored'
  BY <1>3 DEF Stored, Kept
<1> QED
  BY <1>4, <1>5, <1>6, <1>7, <1>8

-----------------------------------------------------------------------------
(***************************************************************************)
(* The gateway.                                                            *)
(***************************************************************************)
LEMMA BackfillStep ==
  ASSUME Inv, NEW p \in Posts, NEW live \in BOOLEAN, Backfill(p, live)
  PROVE  Inv' /\ Purges
  BY InsertStep DEF Backfill, ghosts

LEMMA SameRows == ASSUME Inv, UNCHANGED row PROVE AllKept
  BY DEF Inv, RowsFit, AllKept, Kept

LEMMA FindForgottenStep ==
  ASSUME Inv, NEW t \in Targets, FindForgotten(t)
  PROVE  Inv' /\ Purges
<1>1. UNCHANGED <<row, told, ledger, audit, worker, slipped, crossed>>
  BY DEF FindForgotten, ghosts
<1>2. forget'.target \in Targets /\ forget'.ids \subseteq Ids
  BY DEF FindForgotten, Stored
<1>3. TablesFit'
  BY <1>1, <1>2 DEF Inv, TablesFit
<1> QED
  BY <1>1, <1>3, SameRows, KeptFits, KeptWorker DEF Inv, Purges

\* A forgotten post that is still there afterwards slipped in.
LEMMA ForgetStep ==
  ASSUME Inv, Forget
  PROVE  Inv' /\ Purges
<1> DEFINE ids == forget.ids
<1>1. /\ ids \in SUBSET Ids /\ forget.target \in Targets
      /\ audit' = audit \union {forget.target} /\ Delete(row, ids)
      /\ UNCHANGED <<told, worker>> /\ forget' = NoCall
  BY DEF Forget, Inv, TablesFit
<1>2. row \in Rows /\ \A i \in Ids : Kept(row[i], row[i])
  BY DEF Inv, RowsFit, Kept
<1>3. /\ RowsFit' /\ DraftsFit' /\ ledger' \subseteq Threads
      /\ \A i \in Stored' : i \in Stored /\ i \notin ids /\ row'[i] = row[i]
      /\ \A i \in Stored \ ids : i \in Stored'
  BY <1>1, <1>2, DeleteRows
<1>4. TablesFit'
  BY <1>1, <1>3 DEF Inv, TablesFit, NoCall
<1>5. \A p \in Posts :
        /\ p \in slipped \/ forget.target \in {AddressOf[p], AuthorOf[p]}
        /\ \/ worker.pc = "store" /\ worker.post = p
           \/ \E i \in Stored \ ids : row[i].post = p
        => p \in slipped'
  BY DEF Forget
<1>6. NothingReturns'
  <2> SUFFICES ASSUME NEW i \in Stored', row'[i].text, row'[i].post \notin SitePosts,
                      {AddressOf[row'[i].post], AuthorOf[row'[i].post]} \intersect audit' # {}
               PROVE  row'[i].post \in slipped'
    BY DEF NothingReturns
  <2>1. i \in Stored \ ids /\ row'[i] = row[i] /\ row[i].post \in Posts
    BY <1>3 DEF Inv, RowsFit, Stored
  <2>2. row[i].post \in slipped \/ forget.target \in {AddressOf[row[i].post], AuthorOf[row[i].post]}
    BY <1>1, <2>1 DEF Inv, NothingReturns
  <2> QED
    BY <1>5, <2>1, <2>2
<1>7. MayStore'
  <2> SUFFICES ASSUME worker'.pc = "store"
               PROVE  /\ worker'.post \in Posts \ SitePosts
                      /\ WasForgotten(worker.post)' => worker'.post \in slipped'
    BY <1>1 DEF MayStore
  <2>1. worker.post \in Posts \ SitePosts /\ (WasForgotten(worker.post) => worker.post \in slipped)
    BY <1>1 DEF Inv, MayStore
  <2>2. WasForgotten(worker.post)' =>
          WasForgotten(worker.post) \/ forget.target \in {AddressOf[worker.post], AuthorOf[worker.post]}
    BY <1>1 DEF WasForgotten
  <2> QED
    BY <1>1, <1>5, <2>1, <2>2
<1>8. MayPrune'
  BY <1>1, <1>3 DEF Inv, MayPrune, Expired
<1>9. MayDraft'
  BY <1>1, <1>3 DEF Inv, MayDraft, Delete
<1> QED
  BY <1>1, <1>3, <1>4, <1>6, <1>7, <1>8, <1>9 DEF Inv, Purges

LEMMA DecideRow ==
  ASSUME Inv, NEW i \in Ids, NEW new \in RowType, Kept(new, row[i]),
         row' = [row EXCEPT ![i] = new]
  PROVE  AllKept
<1>1. row' \in Rows
  BY DEF Inv, RowsFit, Rows
<1>2. \A j \in Ids : Kept(row'[j], row[j])
  BY DEF Inv, RowsFit, Rows, Kept
<1> QED
  BY <1>1, <1>2 DEF AllKept

LEMMA DecisionStep ==
  ASSUME Inv, NEW i \in Ids, Claim(i) \/ NotUs(i) \/ Ignore(i) \/ Answer(i)
  PROVE  Inv' /\ Purges
<1>1. row[i] \in RowType
  BY DEF Inv, RowsFit, Rows
<1>2. row[i].draft.state = "pending" => row[i].state # "gone"
  BY DEF Inv, RowsFit
<1>3. CASE Claim(i)
  <2> DEFINE new == [row[i] EXCEPT !.state = "assigned"]
  <2>1. row' = [row EXCEPT ![i] = new]
    BY <1>3 DEF Claim, Decide
  <2>2. new \in RowType /\ Kept(new, row[i])
    BY <1>1, <1>3 DEF Claim, RowType, Kept
  <2>3. AllKept
    BY <2>1, <2>2, DecideRow
  <2> QED
    BY <1>3, <2>3, WriteStep DEF Claim, Decide, ghosts, Inv, TablesFit
<1>4. CASE NotUs(i)
  <2> DEFINE new == [row[i] EXCEPT !.state = "irrelevant"]
  <2>1. row' = [row EXCEPT ![i] = new]
    BY <1>4 DEF NotUs, Decide
  <2>2. new \in RowType /\ Kept(new, row[i])
    BY <1>1, <1>4 DEF NotUs, RowType, Kept
  <2>3. AllKept
    BY <2>1, <2>2, DecideRow
  <2> QED
    BY <1>4, <2>3, WriteStep DEF NotUs, Decide, ghosts, Inv, TablesFit
<1>5. CASE Ignore(i)
  <2> DEFINE new == [row[i] EXCEPT !.draft.state = "ignored"]
  <2>1. row' = [row EXCEPT ![i] = new]
    BY <1>5 DEF Ignore, Decide
  <2>2. new \in RowType /\ Kept(new, row[i])
    BY <1>1, <1>2, <1>5 DEF Ignore, RowType, Kept
  <2>3. AllKept
    BY <2>1, <2>2, DecideRow
  <2> QED
    BY <1>5, <2>3, WriteStep DEF Ignore, Decide, ghosts, Inv, TablesFit
<1>6. CASE Answer(i)
  <2> DEFINE new == [row[i] EXCEPT !.draft.state = "approved"]
  <2>1. row' = [row EXCEPT ![i] = new]
    BY <1>6 DEF Answer
  <2>2. new \in RowType /\ Kept(new, row[i])
    BY <1>1, <1>2, <1>6 DEF Answer, RowType, Kept
  <2>3. AllKept
    BY <2>1, <2>2, DecideRow
  <2>4. row[i].post \in Posts
    BY <1>6 DEF Answer, Inv, RowsFit
  <2>5. ledger' \subseteq Threads
    BY <1>6, <2>4 DEF Answer, Inv, TablesFit, Threads
  <2> QED
    BY <1>6, <2>3, <2>5, WriteStep DEF Answer, ghosts
<1> QED
  BY <1>3, <1>4, <1>5, <1>6

LEMMA DaysStep ==
  ASSUME Inv, Days
  PROVE  Inv' /\ Purges
<1>1. /\ worker.pc \in {"idle", "down"}
      /\ row' = [i \in Ids |-> IF i \in Stored /\ ~ Expired(i) THEN [row[i] EXCEPT !.age = @ + 1]
                               ELSE row[i]]
      /\ UNCHANGED <<told, ledger, audit, worker, forget, slipped, crossed>>
  BY DEF Days, ghosts
<1>2. \A i \in Ids : /\ row'[i] \in RowType
                     /\ row'[i].post = row[i].post /\ row'[i].text = row[i].text
                     /\ row'[i].draft = row[i].draft /\ row'[i].state = row[i].state
  BY <1>1 DEF Inv, RowsFit, Rows, RowType, Expired
<1>3. row' \in Rows
  BY <1>1, <1>2 DEF Rows
<1>4. Stored' = Stored
  BY <1>2 DEF Stored
<1>5. RowsFit' /\ NothingReturns' /\ DraftsFit'
  BY <1>1, <1>2, <1>3, <1>4 DEF Inv, RowsFit, NothingReturns, DraftsFit, Stored
<1>6. TablesFit'
  BY <1>1 DEF Inv, TablesFit
<1>7. worker' \in WorkerType /\ MayStore' /\ MayPrune' /\ MayDraft'
  BY <1>1, FreeWorker DEF Inv
<1> QED
  BY <1>1, <1>5, <1>6, <1>7 DEF Inv, Purges

-----------------------------------------------------------------------------
(***************************************************************************)
(* The worker.                                                             *)
(***************************************************************************)
LEMMA GotoWorker ==
  ASSUME NEW pc \in {"down", "idle", "ingest", "classify"}, Goto(pc)
  PROVE  worker' \in WorkerType /\ worker'.pc = pc
  BY IdleIsWorker DEF Goto

\* Steps that move the worker on and touch nothing else.
LEMMA MoveStep ==
  ASSUME Inv, UNCHANGED <<row, told, ledger, audit, forget, slipped, crossed>>,
         worker' \in WorkerType, MayStore', MayPrune', MayDraft',
         worker.pc # "prune" \/ worker'.pc # "classify"
  PROVE  Inv' /\ Purges
<1>1. RowsFit' /\ NothingReturns' /\ DraftsFit'
  BY SameRows, KeptFits
<1>2. TablesFit'
  BY DEF Inv, TablesFit
<1> QED
  BY <1>1, <1>2 DEF Inv, Purges

LEMMA TurnStep ==
  ASSUME Inv, StartRound \/ EndRound \/ Stop \/ Restart
  PROVE  Inv' /\ Purges
<1>1. PICK pc \in {"down", "idle", "ingest"} : Goto(pc)
  BY DEF StartRound, EndRound, Stop, Restart
<1>2. UNCHANGED <<row, told, ledger, audit, forget, slipped, crossed>>
  BY DEF StartRound, EndRound, Stop, Restart, ghosts
<1>3. worker' \in WorkerType /\ worker'.pc = pc
  BY <1>1, GotoWorker
<1> QED
  BY <1>2, <1>3, FreeWorker, MoveStep

\* The check that the post was not forgotten, ...
LEMMA CheckStep ==
  ASSUME Inv, NEW p \in Posts, Check(p)
  PROVE  Inv' /\ Purges
<1>1. /\ worker.pc = "ingest" /\ p \notin SitePosts /\ ~ WasForgotten(p)
      /\ worker' = [Idle EXCEPT !.pc = "store", !.post = p]
      /\ UNCHANGED <<row, told, ledger, audit, forget, slipped, crossed>>
  BY DEF Check, ghosts
<1>2. worker' \in WorkerType /\ worker'.pc = "store" /\ worker'.post = p
  BY <1>1 DEF Idle, WorkerType
<1>3. MayStore' /\ MayPrune' /\ MayDraft'
  BY <1>1, <1>2 DEF MayStore, MayPrune, MayDraft, WasForgotten
<1> QED
  BY <1>1, <1>2, <1>3, MoveStep

\* ... and the insertion: it was forgotten meanwhile, or it is not forgotten.
LEMMA StoreStep ==
  ASSUME Inv, Store
  PROVE  Inv' /\ Purges
<1>1. /\ worker.pc = "store" /\ Insert(worker.post, TRUE) /\ Goto("ingest")
      /\ UNCHANGED <<told, ledger, audit, forget, slipped, crossed>>
  BY DEF Store, ghosts
<1>2. worker.post \in Posts /\ (~ WasForgotten(worker.post) \/ worker.post \in slipped)
  BY <1>1 DEF Inv, MayStore
<1>3. worker' \in WorkerType /\ worker'.pc = "ingest"
  BY <1>1, GotoWorker
<1> QED
  BY <1>1, <1>2, <1>3, InsertStep

LEMMA StoreSiteStep ==
  ASSUME Inv, NEW p \in Posts, StoreSite(p)
  PROVE  Inv' /\ Purges
  BY InsertStep DEF StoreSite, ghosts

\* Every expired row is selected, for deletion or for redaction, ...
LEMMA SelectStep ==
  ASSUME Inv, SelectExpired
  PROVE  Inv' /\ Purges
<1> DEFINE old == {i \in Stored : Expired(i)}
<1>1. /\ worker' = [Idle EXCEPT !.pc = "prune", !.remove = {i \in old : ~ InWork(i)},
                               !.redact = {i \in old : InWork(i)}]
      /\ UNCHANGED <<row, told, ledger, audit, forget, slipped, crossed>>
  BY DEF SelectExpired, ghosts
<1>2. old \subseteq Ids
  BY DEF Stored
<1>3. /\ worker' \in WorkerType /\ worker'.pc = "prune"
      /\ worker'.remove \union worker'.redact = old
  BY <1>1, <1>2 DEF Idle, WorkerType
<1>4. MayStore' /\ MayPrune' /\ MayDraft'
  BY <1>1, <1>3 DEF MayStore, MayPrune, MayDraft, Expired, Stored
<1> QED
  BY <1>1, <1>3, <1>4, MoveStep

LEMMA RedactRow ==
  ASSUME NEW r \in RowType, r.state # "gone"
  PROVE  Redact(r) \in RowType /\ Kept(Redact(r), r) /\ ~ Redact(r).text
  BY DEF Redact, RowType, Kept

\* ... and what is still there of them loses its text.
LEMMA PruneStep ==
  ASSUME Inv, Prune
  PROVE  Inv' /\ Purges
<1> DEFINE rows == [i \in Ids |-> IF i \in worker.redact \intersect Stored THEN Redact(row[i])
                                 ELSE row[i]]
<1>1. /\ worker.pc = "prune" /\ Delete(rows, worker.remove) /\ Goto("classify")
      /\ UNCHANGED <<told, audit, forget, slipped>>
  BY DEF Prune
<1>2. \A i \in Ids : /\ row[i] \in RowType /\ rows[i] \in RowType /\ Kept(rows[i], row[i])
                     /\ i \in worker.redact \intersect Stored => ~ rows[i].text
  BY RedactRow DEF Inv, RowsFit, Rows, Stored, Kept
<1>3. rows \in Rows /\ worker.remove \in SUBSET Ids
  BY <1>2 DEF Rows, Inv, WorkerType
<1> HIDE DEF rows
<1>4. /\ RowsFit' /\ DraftsFit' /\ ledger' \subseteq Threads
      /\ \A i \in Stored' : i \in Stored /\ i \notin worker.remove /\ row'[i] = rows[i]
  BY <1>1, <1>2, <1>3, DeleteRows
<1>5. TablesFit'
  BY <1>1, <1>4 DEF Inv, TablesFit
<1>6. NothingReturns'
  BY <1>1, <1>2, <1>4 DEF Inv, NothingReturns, Kept, Stored
<1>7. NoOldText'
  BY <1>1, <1>2, <1>4 DEF Inv, MayPrune, NoOldText, Expired, Kept, Stored
<1>8. worker' \in WorkerType /\ worker'.pc = "classify"
  BY <1>1, GotoWorker
<1>9. MayStore' /\ MayPrune' /\ MayDraft'
  BY <1>8, FreeWorker
<1> QED
  BY <1>4, <1>5, <1>6, <1>7, <1>8, <1>9 DEF Inv, Purges

LEMMA ClassifyStep ==
  ASSUME Inv, NEW i \in Ids, Classify(i)
  PROVE  Inv' /\ Purges
<1> DEFINE new == [row[i] EXCEPT !.state = IF Kind[row[i].post] = "irrelevant" THEN "irrelevant"
                                           ELSE "relevant"]
<1>1. row' = [row EXCEPT ![i] = new]
  BY DEF Classify
<1>2. row[i] \in RowType /\ row[i].state = "new"
  BY DEF Classify, Inv, RowsFit, Rows
<1>3. new \in RowType /\ Kept(new, row[i])
  BY <1>2 DEF RowType, Kept
<1> HIDE DEF new
<1>4. AllKept
  BY <1>1, <1>3, DecideRow
<1> QED
  BY <1>4, WriteStep DEF Classify, ghosts, Inv, TablesFit

-----------------------------------------------------------------------------
(***************************************************************************)
(* Drafting.                                                               *)
(***************************************************************************)
LEMMA ListStep ==
  ASSUME Inv, ListDraftable
  PROVE  Inv' /\ Purges
<1> DEFINE todo == {[id |-> i, post |-> row[i].post, old |-> row[i].age >= TooOld]
                      : i \in {j \in Stored : Draftable(j)}}
<1>1. /\ worker.pc = "classify" /\ worker' = [Idle EXCEPT !.pc = "draft", !.todo = todo]
      /\ UNCHANGED <<row, told, ledger, audit, forget, slipped, crossed>>
  BY DEF ListDraftable, ghosts
<1>2. todo \in SUBSET [id : Ids, post : Posts, old : BOOLEAN]
  <2> DEFINE old(i) == row[i].age >= TooOld
  <2>1. \A i \in Stored : i \in Ids /\ row[i].post \in Posts /\ old(i) \in BOOLEAN
    BY DEF Inv, RowsFit, Stored
  <2> HIDE DEF old
  <2>2. \A i \in Stored : [id |-> i, post |-> row[i].post, old |-> old(i)]
                           \in [id : Ids, post : Posts, old : BOOLEAN]
    BY <2>1
  <2>3. \A x \in todo : \E i \in Stored : x = [id |-> i, post |-> row[i].post, old |-> old(i)]
    BY Zenon DEF old
  <2> QED
    BY <2>2, <2>3, Zenon
<1>3. worker' \in WorkerType /\ worker'.pc = "draft"
  BY <1>1, <1>2 DEF Idle, WorkerType
<1> QED
  BY <1>1, <1>3, FreeWorker, MoveStep

LEMMA DoneWorker ==
  ASSUME Inv, NEW d, Done(d)
  PROVE  worker' \in WorkerType /\ worker'.pc = "draft"
  BY DEF Done, Inv, WorkerType

LEMMA TodoTyped ==
  ASSUME Inv, NEW d \in worker.todo
  PROVE  d.id \in Ids /\ d.post \in Posts /\ row[d.id] \in RowType
  BY DEF Inv, WorkerType, RowsFit, Rows

\* recordDraftFailure, and no row at all.
LEMMA FailedRows ==
  ASSUME Inv, NEW i \in Ids, Failed(i)
  PROVE  AllKept
<1>1. CASE i \in Stored
  <2> DEFINE new == [row[i] EXCEPT !.tries = IF @ < MaxTries THEN @ + 1 ELSE @]
  <2>1. row[i] \in RowType /\ row' = [row EXCEPT ![i] = new]
    BY <1>1 DEF Failed, Inv, RowsFit, Rows
  <2>2. new \in RowType /\ Kept(new, row[i])
    BY <2>1, ItemsAssumption DEF RowType, Kept
  <2> HIDE DEF new
  <2> QED
    BY <2>1, <2>2, DecideRow
<1>2. CASE i \notin Stored
  BY <1>2, SameRows DEF Failed
<1> QED
  BY <1>1, <1>2

LEMMA PassStep ==
  ASSUME Inv, NEW d \in worker.todo, GiveUp(d) \/ Escalate(d) \/ AskNothing(d) \/ OverBudget(d)
  PROVE  Inv' /\ Purges
<1>1. /\ worker.pc = "draft" /\ Done(d)
      /\ UNCHANGED <<told, ledger, audit, forget, slipped, crossed>>
  BY DEF GiveUp, Escalate, AskNothing, OverBudget, Take, ghosts
<1>2. worker' \in WorkerType /\ worker'.pc = "draft"
  BY <1>1, DoneWorker
<1>3. d.id \in Ids /\ row[d.id] \in RowType
  BY TodoTyped
<1>4. AllKept
  <2>1. CASE GiveUp(d)
    <3> DEFINE new == [row[d.id] EXCEPT !.tries = MaxTries]
    <3>1. \/ d.id \in Stored /\ row' = [row EXCEPT ![d.id] = new]
          \/ row' = row
      BY <2>1 DEF GiveUp
    <3>2. new \in RowType /\ Kept(new, row[d.id])
      BY <1>3, ItemsAssumption DEF RowType, Kept
    <3> HIDE DEF new
    <3> QED
      BY <1>3, <3>1, <3>2, DecideRow, SameRows
  <2>2. CASE Escalate(d)
    <3> DEFINE new == [row[d.id] EXCEPT !.state = "escalated"]
    <3>1. \/ row[d.id].state \in {"relevant", "assigned"} /\ row' = [row EXCEPT ![d.id] = new]
          \/ row' = row
      BY <2>2 DEF Escalate
    <3>2. row[d.id].state \in {"relevant", "assigned"} => new \in RowType /\ Kept(new, row[d.id])
      BY <1>3 DEF RowType, Kept
    <3> HIDE DEF new
    <3> QED
      BY <1>3, <3>1, <3>2, DecideRow, SameRows
  <2>3. CASE AskNothing(d)
    <3>1. CASE Failed(d.id)
      BY <1>3, <3>1, FailedRows
    <3>2. CASE /\ d.id \in Stored
               /\ row' = [row EXCEPT ![d.id].state = "escalated",
                                     ![d.id].tries = IF @ < MaxTries THEN @ + 1 ELSE @]
      <4> DEFINE r == [row EXCEPT ![d.id].state = "escalated"]
      <4>1. r[d.id] \in RowType /\ r \in Rows /\ r[d.id].state = "escalated"
        BY <1>3 DEF Inv, RowsFit, Rows, RowType
      <4>2. \A j \in Ids : j # d.id => r[j] = row[j]
        BY <1>3 DEF Inv, RowsFit, Rows
      <4>3. Kept(r[d.id], row[d.id])
        BY <1>3, <3>2 DEF Inv, RowsFit, Rows, RowType, Kept, Stored
      <4>4. row' = [r EXCEPT ![d.id].tries = IF @ < MaxTries THEN @ + 1 ELSE @]
        BY <3>2
      <4> HIDE DEF r
      <4> DEFINE new == [r[d.id] EXCEPT !.tries = IF @ < MaxTries THEN @ + 1 ELSE @]
      <4>5. new \in RowType /\ Kept(new, r[d.id])
        BY <4>1, ItemsAssumption DEF RowType, Kept
      <4>6. row' = [r EXCEPT ![d.id] = new]
        BY <4>4, Zenon
      <4> HIDE DEF new
      <4>7. row' \in Rows /\ \A j \in Ids : row'[j] = IF j = d.id THEN new ELSE r[j]
        BY <1>3, <4>1, <4>5, <4>6 DEF Rows
      <4> QED
        BY <1>3, <4>2, <4>3, <4>5, <4>7 DEF AllKept, Kept
    <3> QED
      BY <2>3, <3>1, <3>2 DEF AskNothing
  <2>4. CASE OverBudget(d)
    BY <2>4, SameRows DEF OverBudget
  <2> QED
    BY <2>1, <2>2, <2>3, <2>4
<1> QED
  BY <1>1, <1>2, <1>4, WriteStep DEF Inv, TablesFit

\* The model is asked about the post that has the id now, ...
LEMMA AskStep ==
  ASSUME Inv, NEW d \in worker.todo, Ask(d)
  PROVE  Inv' /\ Purges
<1>1. /\ worker.pc = "draft" /\ d.id \in Stored
      /\ worker' = [worker EXCEPT !.pc = "model", !.item = d.id, !.post = row[d.id].post]
      /\ UNCHANGED <<row, told, ledger, audit, forget, slipped, crossed>>
  BY DEF Ask, Take, Read, ghosts
<1>2. d.id \in Ids /\ row[d.id].post \in Posts
  BY <1>1 DEF Inv, RowsFit, Stored
<1>3. /\ worker' \in WorkerType /\ worker'.pc = "model" /\ worker'.item = d.id
      /\ worker'.post = row[d.id].post
  BY <1>1, <1>2 DEF Inv, WorkerType
<1>4. MayStore' /\ MayPrune' /\ MayDraft'
  BY <1>1, <1>2, <1>3 DEF MayStore, MayPrune, MayDraft, Stored
<1> QED
  BY <1>1, <1>3, <1>4, MoveStep

\* ... and its answer is stored with that post, or with one that came later.
LEMMA StoreDraftStep ==
  ASSUME Inv, StoreDraft
  PROVE  Inv' /\ Purges
<1> DEFINE i == worker.item
           draft == [state |-> "pending", about |-> worker.post]
           new == [row[i] EXCEPT !.draft = draft]
<1>1. /\ worker.pc = "model" /\ i \in Stored /\ row' = [row EXCEPT ![i] = new]
      /\ worker' = [worker EXCEPT !.pc = "announce"]
      /\ UNCHANGED <<told, ledger, audit, forget, slipped, crossed>>
  BY DEF StoreDraft, ghosts
<1>2. /\ i \in Ids /\ worker.post \in Posts /\ row[i] \in RowType /\ row[i].state # "gone"
      /\ i \in crossed \/ row[i].post = worker.post
  BY <1>1 DEF Inv, MayDraft, RowsFit, Rows, Stored
<1>3. /\ new \in RowType /\ new.post = row[i].post /\ new.state = row[i].state
      /\ new.text = row[i].text /\ new.draft.about = worker.post
  BY <1>2 DEF RowType
<1> HIDE DEF new, draft
<1>4. row' \in Rows /\ \A j \in Ids : row'[j] = IF j = i THEN new ELSE row[j]
  BY <1>1, <1>2, <1>3 DEF Inv, RowsFit, Rows
<1>5. Stored' = Stored
  BY <1>1, <1>3, <1>4 DEF Stored
<1>6. RowsFit' /\ NothingReturns' /\ DraftsFit'
  BY <1>1, <1>2, <1>3, <1>4, <1>5 DEF Inv, RowsFit, NothingReturns, DraftsFit, Stored
<1>7. TablesFit'
  BY <1>1 DEF Inv, TablesFit
<1>8. /\ worker' \in WorkerType /\ worker'.pc = "announce" /\ worker'.item = i
      /\ worker'.post = worker.post
  BY <1>1, <1>2 DEF Inv, WorkerType
<1>9. MayStore' /\ MayPrune' /\ MayDraft'
  BY <1>2, <1>8 DEF MayStore, MayPrune, MayDraft
<1> QED
  BY <1>1, <1>6, <1>7, <1>8, <1>9 DEF Inv, Purges

LEMMA DraftFailsStep ==
  ASSUME Inv, DraftFails
  PROVE  Inv' /\ Purges
<1>1. /\ worker.pc = "model"
      /\ Failed(worker.item) \/ UNCHANGED row
      /\ Done(Item) /\ UNCHANGED <<told, ledger, audit, forget, slipped, crossed>>
  BY DEF DraftFails, ghosts
<1>2. AllKept
  BY <1>1, FailedRows, SameRows DEF Inv, MayDraft
<1>3. worker' \in WorkerType /\ worker'.pc = "draft"
  BY <1>1, DoneWorker
<1> QED
  BY <1>1, <1>2, <1>3, WriteStep DEF Inv, TablesFit

LEMMA AnnounceStep ==
  ASSUME Inv, Announce \/ AnnounceFails
  PROVE  Inv' /\ Purges
<1>1. /\ worker.pc = "announce" /\ Done(Item)
      /\ UNCHANGED <<row, ledger, audit, forget, slipped, crossed>>
      /\ told' = told \/ told' = [told EXCEPT ![worker.item] = worker.post]
  BY DEF Announce, AnnounceFails, ghosts
<1>2. TablesFit'
  BY <1>1 DEF Inv, TablesFit, MayDraft
<1>3. RowsFit' /\ NothingReturns' /\ DraftsFit'
  BY <1>1, SameRows, KeptFits
<1>4. worker' \in WorkerType /\ worker'.pc = "draft"
  BY <1>1, DoneWorker
<1> QED
  BY <1>1, <1>2, <1>3, <1>4, FreeWorker DEF Inv, Purges

-----------------------------------------------------------------------------
(***************************************************************************)
(* The theorems.                                                           *)
(***************************************************************************)
LEMMA Step == Inv /\ [Next]_vars => Inv' /\ Purges
<1> SUFFICES ASSUME Inv, [Next]_vars PROVE Inv' /\ Purges
  OBVIOUS
<1>1. CASE UNCHANGED vars
  <2>1. UNCHANGED <<row, told, ledger, audit, worker, forget, slipped, crossed>>
    BY <1>1 DEF vars, ghosts
  <2>2. worker' \in WorkerType /\ MayStore' /\ MayPrune' /\ MayDraft'
    BY <2>1, SameRows, KeptWorker
  <2> QED
    BY <2>1, <2>2, MoveStep
<1>2. CASE Gateway
  BY <1>2, BackfillStep, FindForgottenStep, ForgetStep, DecisionStep DEF Gateway
<1>3. CASE Drafting
  BY <1>3, ListStep, PassStep, AskStep, StoreDraftStep, DraftFailsStep, AnnounceStep DEF Drafting
<1>4. CASE Round
  BY <1>3, <1>4, TurnStep, CheckStep, StoreStep, SelectStep, PruneStep, ClassifyStep DEF Round
<1>5. CASE Days \/ (\E p \in Posts : StoreSite(p)) \/ Stop \/ Restart
  BY <1>5, DaysStep, StoreSiteStep, TurnStep
<1> QED
  BY <1>1, <1>2, <1>4, <1>5 DEF Next

LEMMA Invariant == Spec => []Inv
  BY InitInv, Step, PTL DEF Spec

\* The tables and the worker are always well typed, and no post is stored twice.
THEOREM TypeCorrect == Spec => []TypeOK
<1>1. Inv => TypeOK
  BY DEF Inv, RowsFit, Rows, RowType, TablesFit, WorkerType, TypeOK
<1> QED
  BY <1>1, Invariant, PTL

\* What aha_forget removed is not stored again by ingestion or backfill, except
\* what the worker was storing while it was being forgotten.
THEOREM Forgotten == Spec => []NothingReturns
<1>1. Inv => NothingReturns
  BY DEF Inv
<1> QED
  BY <1>1, Invariant, PTL

\* A draft is stored with the post it answers, although ids are used again.
THEOREM DraftsAnswer == Spec => []DraftsFit
<1>1. Inv => DraftsFit
  BY DEF Inv
<1> QED
  BY <1>1, Invariant, PTL

\* pruneExpired leaves no expired text behind, whatever the gateway did since
\* the rows were selected.
THEOREM Purged == Spec => RoundsPurge
<1>1. Inv /\ [Next]_vars => [worker.pc = "prune" /\ worker'.pc = "classify" => NoOldText']_vars
  BY Step DEF Purges
<1> QED
  BY <1>1, Invariant, PTL DEF Spec, RoundsPurge
=============================================================================
