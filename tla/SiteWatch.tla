----------------------------- MODULE SiteWatch -----------------------------
(***************************************************************************)
(* The daily site watch: the table of registered pages, which the owner's  *)
(* tools edit in the gateway, and the worker's run over it.  A run takes   *)
(* the list of sites once and then spends minutes in a browser; each page  *)
(* is read, compared with the cursor stored under its id, its new blocks   *)
(* are stored as items, and the cursor is saved last.  The database gives  *)
(* a new row the largest id in use plus one, so that a removed site's id   *)
(* may come to mean another site while a run still holds it.               *)
(*                                                                         *)
(* A block stands for its key.  A failing browser call, statement or       *)
(* session and a stop of the worker may happen at every step.              *)
(***************************************************************************)
EXTENDS Naturals, Sequences, FiniteSets, SequencesExt, FiniteSetsExt

CONSTANTS
  Urls,         \* pages the owner may register
  Blocks,       \* blocks that may appear on them
  PageOf,       \* the page of a block
  Mentioning,   \* blocks that pass the filter of mode "mentions"
  MaxSites,     \* MAX_SITES
  MaxCursor,    \* MAX_CURSOR_ENTRIES
  MaxId         \* bound on the ids handed out

ASSUME SiteAssumption ==
  /\ IsFiniteSet(Blocks) /\ PageOf \in [Blocks -> Urls]
  /\ Mentioning \subseteq Blocks
  /\ {MaxSites, MaxCursor, MaxId} \subseteq Nat \ {0}

VARIABLES
  page,      \* the blocks each page shows now
  sites,     \* the table: id -> row
  stored,    \* blocks stored as items
  run,       \* the worker's run: where it is, the sites still to visit, the visit
  silent     \* ghost: blocks that a visit recorded without storing them

watchVars == <<page, sites, stored, run, silent>>

Row   == [url : Urls, mode : {"mentions", "all"}, cursor : Seq(Blocks),
          visited : BOOLEAN]
Site  == [id : 1 .. MaxId, url : Urls, mode : {"mentions", "all"}]
Ids   == DOMAIN sites
NoRun == [pc |-> "idle", list |-> <<>>, left |-> {}, cursor |-> <<>>]

WatchTypeOK ==
  /\ page \in [Urls -> SUBSET Blocks]
  /\ Ids \subseteq 1 .. MaxId
  /\ Cardinality(Ids) <= MaxSites
  /\ \A i \in Ids : sites[i] \in Row /\ Len(sites[i].cursor) <= MaxCursor
  /\ stored \subseteq Blocks
  /\ run.pc \in {"down", "idle", "open", "reading", "storing"}
  /\ run.list \in Seq(Site) /\ run.left \subseteq Blocks /\ run.cursor \in Seq(Blocks)
  /\ silent \subseteq Blocks

WatchInit ==
  /\ page \in [Urls -> SUBSET Blocks]
  /\ \A u \in Urls : \A b \in page[u] : PageOf[b] = u
  /\ sites = <<>> /\ stored = {} /\ run = NoRun /\ silent = {}

-----------------------------------------------------------------------------
(* Pages change, and the owner edits the list. *)

Publish(b) ==
  /\ b \notin page[PageOf[b]]
  /\ page' = [page EXCEPT ![PageOf[b]] = @ \union {b}]
  /\ UNCHANGED <<sites, stored, run, silent>>

Add(u, m) ==
  LET id == IF Ids = {} THEN 1 ELSE Max(Ids) + 1 IN
  /\ \A i \in Ids : sites[i].url # u
  /\ Cardinality(Ids) < MaxSites
  /\ id <= MaxId
  /\ sites' = [i \in Ids \union {id} |->
                 IF i = id THEN [url |-> u, mode |-> m, cursor |-> <<>>, visited |-> FALSE]
                           ELSE sites[i]]
  /\ UNCHANGED <<page, stored, run, silent>>

RemoveSite(id) ==
  /\ id \in Ids
  /\ sites' = [i \in Ids \ {id} |-> sites[i]]
  /\ UNCHANGED <<page, stored, run, silent>>

-----------------------------------------------------------------------------
(* A run.  An id finds the row that has it now, or none.  What is recorded *)
(* of a visit for the owner (last_status and its detail) is left out.      *)

Visit == Head(run.list)
Rest  == [NoRun EXCEPT !.pc = IF Tail(run.list) = <<>> THEN "idle" ELSE "reading",
                      !.list = Tail(run.list)]

ById(ids) ==
  CHOOSE s \in [1 .. Cardinality(ids) -> ids] : \A m, n \in DOMAIN s : m < n => s[m] < s[n]

\* the list is read; the browser session is being opened
StartRun ==
  /\ run.pc = "idle" /\ Ids # {}
  /\ LET order == ById(Ids) IN
     run' = [NoRun EXCEPT !.pc = "open",
               !.list = [n \in DOMAIN order |->
                           [id |-> order[n], url |-> sites[order[n]].url,
                            mode |-> sites[order[n]].mode]]]
  /\ UNCHANGED <<page, sites, stored, silent>>

Opened ==
  /\ run.pc = "open"
  /\ run' = [run EXCEPT !.pc = "reading"]
  /\ UNCHANGED <<page, sites, stored, silent>>

OpenFails ==
  /\ run.pc = "open"
  /\ run' = NoRun
  /\ UNCHANGED <<page, sites, stored, silent>>

\* What a visit does with a page it has read, given the stored cursor.
Additions(url, cursor) == page[url] \ ToSet(cursor)
Reported(url, cursor)  == IF cursor = <<>> THEN {} ELSE Additions(url, cursor)
Kept(mode, blocks)     == IF mode = "all" THEN blocks ELSE blocks \intersect Mentioning

ReadPage ==
  /\ run.pc = "reading"
  /\ LET seen == IF Visit.id \in Ids THEN sites[Visit.id].cursor ELSE <<>>
         kept == Kept(Visit.mode, Reported(Visit.url, seen))
         more == Additions(Visit.url, seen) IN
     /\ run' = [run EXCEPT !.pc = "storing", !.left = kept,
                           !.cursor = seen \o SetToSeq(more)]
     /\ silent' = silent \union (more \ kept)
  /\ UNCHANGED <<page, sites, stored>>

StoreNext ==
  /\ run.pc = "storing"
  /\ \E b \in run.left :
       /\ stored' = stored \union {b}
       /\ run' = [run EXCEPT !.left = @ \ {b}]
  /\ UNCHANGED <<page, sites, silent>>

\* the newest entries, as many as a cursor may have
Capped_Not(cursor) == cursor
Capped(cursor) ==
  LET size == Len(cursor) IN
  SubSeq(cursor, IF size > MaxCursor THEN size - MaxCursor + 1 ELSE 1, size)

AllStored_Early == TRUE
AllStored == run.left = {}

SaveCursor ==
  /\ run.pc = "storing" /\ AllStored
  /\ sites' = [i \in Ids |->
                 IF i = Visit.id
                 THEN [sites[i] EXCEPT !.cursor = Capped(run.cursor),
                                       !.visited = @ \/ sites[i].url = Visit.url]
                 ELSE sites[i]]
  /\ run' = Rest
  /\ UNCHANGED <<page, stored, silent>>

\* an error of the browser or of a statement ends the visit, not the run
VisitFails_Repeats(u) ==
  /\ run.pc \in {"reading", "storing"} /\ Visit.url = u
  /\ run' = [NoRun EXCEPT !.pc = "reading", !.list = run.list]
  /\ UNCHANGED <<page, sites, stored, silent>>

VisitFails(u) ==
  /\ run.pc \in {"reading", "storing"} /\ Visit.url = u
  /\ run' = Rest
  /\ UNCHANGED <<page, sites, stored, silent>>

\* one that cannot be recorded with the site ends the run
RecordFails ==
  /\ run.pc \in {"reading", "storing"}
  /\ run' = NoRun
  /\ UNCHANGED <<page, sites, stored, silent>>

RunCrash ==
  /\ run.pc # "down"
  /\ run' = [NoRun EXCEPT !.pc = "down"]
  /\ UNCHANGED <<page, sites, stored, silent>>

Restart ==
  /\ run.pc = "down"
  /\ run' = NoRun
  /\ UNCHANGED <<page, sites, stored, silent>>

Work == Restart \/ StartRun \/ Opened \/ ReadPage \/ StoreNext \/ SaveCursor

WatchNext ==
  \/ Work \/ OpenFails \/ RecordFails \/ RunCrash
  \/ \E u \in Urls : VisitFails(u) \/ \E m \in {"mentions", "all"} : Add(u, m)
  \/ \E i \in Ids : RemoveSite(i)
  \/ \E b \in Blocks : Publish(b)

\* The scheduler starts a run every day, and a run goes on by itself.
WatchSpec == WatchInit /\ [][WatchNext]_watchVars /\ WF_watchVars(Work)

-----------------------------------------------------------------------------
(* A block is entered in a cursor only after it was stored, or because the *)
(* visit meant to leave it out (baseline, or filtered): the inserts come   *)
(* before saveCursor, so a visit cut short between them is repeated and    *)
(* loses nothing.                                                          *)
NothingSwallowed ==
  \A i \in Ids : ToSet(sites[i].cursor) \subseteq stored \union silent

\* The first visit to a registered page is a silent baseline: no run that
\* finds a site not visited before has something of it to store.
FirstVisitSilent ==
  [][\A i \in Ids :
       (/\ run'.left \ run.left # {}
        /\ Visit.id = i /\ Visit.url = sites[i].url) => sites[i].visited]_watchVars

\* What the watch finds on a page is either reported or known: a page that
\* stays registered is brought up to date although other pages may fail at
\* every visit, once its own visits, the records of visits, the sessions and the
\* worker stop failing.
Watched(u) == \E i \in Ids : sites[i].url = u
Entered(b) == \E i \in Ids : b \in ToSet(sites[i].cursor) /\ sites[i].url = PageOf[b]

EveryBlockReached ==
  \A b \in Blocks :
    (/\ <>[](b \in page[PageOf[b]])
     /\ <>[][~ (RunCrash \/ OpenFails \/ RecordFails \/ VisitFails(PageOf[b])
                \/ \E i \in Ids : RemoveSite(i))]_watchVars
     /\ <>[]Watched(PageOf[b]))
       => <>Entered(b)
=============================================================================
