---------------------------- MODULE SearchIndex ----------------------------
(***************************************************************************)
(* The lexical search index: sources are chunked by runs, a finished run   *)
(* becomes the head of its source, and whole epochs replace each other.    *)
(*                                                                         *)
(* packages/storage/src/worker/search/index.ts   the repository            *)
(* packages/storage/src/worker/search/schema.ts  its triggers              *)
(* packages/storage/src/worker/archive-database.ts  advanceSearch, repair  *)
(*                                                                         *)
(* The archive owner runs one slice of indexing at a time and nothing else *)
(* meanwhile; a step is one turn of the loop of a slice.  A slice is one   *)
(* transaction, so a crash inside it is one before it.  Epochs are named   *)
(* for their role, the active one sorting before the one being rebuilt;    *)
(* what an epoch leaves behind when it goes is litter.  Sources are        *)
(* numbered in key order; of the scopes that expand into sources (message, *)
(* thread, document, global) the global one stands for all.  Document      *)
(* pages, the contents of chunks and the queries are left out.             *)
(***************************************************************************)
EXTENDS Integers, FiniteSets

CONSTANTS
  N,        \* sources 1 .. N
  Size,     \* chunks of a source
  Page,     \* sources enqueued per expansion (32)
  MaxText,  \* changes per source (bound)
  MaxCuts,  \* rebuilds, interruptions and failures of a behaviour (bound)
  None

ASSUME SizeAssumption == N \in Nat \ {0} /\ Size \in Nat \ {0} /\ Page \in Nat \ {0}
ASSUME BoundAssumption == MaxText \in Nat /\ MaxCuts \in Nat

Source == 1 .. N
Epoch == {"active", "rebuilding"}

VARIABLES
  present,     \* canonical: the sources there are
  text,        \* canonical: the version of their text
  rebuilding,  \* rebuilding_epoch is set
  queued,      \* queue rows of sources, by epoch
  sweep,       \* after_id of the global queue row, by epoch; N + 1 without a row
  head,        \* heads by epoch and source, with their chunk rows
  litter,      \* groups of rows that belong to no head, run or living epoch
  work,        \* active: the run in memory, with its row in builds
  maybe,       \* maybeObsolete
  slice,       \* a slice may go on
  broken,      \* searchFailure, triggers dropped
  cuts

canonical == <<present, text>>
vars == <<canonical, rebuilding, queued, sweep, head, litter, work, maybe, slice, broken, cuts>>

Head == [rows : 0 .. Size, text : 0 .. MaxText, stale : BOOLEAN]
Work == [epoch : Epoch, source : Source, text : 0 .. MaxText, rows : 0 .. Size]
ASSUME NoneAssumption == None \notin Head \cup Work

(* Types; without a rebuild its epoch has no rows, and a run is one of a   *)
(* living epoch whose source is still queued there.                        *)
TypeOK ==
  /\ present \in [Source -> BOOLEAN] /\ text \in [Source -> 0 .. MaxText]
  /\ rebuilding \in BOOLEAN
  /\ queued \in [Epoch -> [Source -> {"no", "queued", "failed"}]]
  /\ sweep \in [Epoch -> 0 .. N + 1]
  /\ head \in [Epoch -> [Source -> Head \cup {None}]]
  /\ litter \in Nat
  /\ work \in Work \cup {None}
  /\ maybe \in BOOLEAN /\ slice \in BOOLEAN /\ broken \in BOOLEAN
  /\ cuts \in 0 .. MaxCuts
EmptyEpoch ==
  ~rebuilding => /\ sweep["rebuilding"] = N + 1
                 /\ \A s \in Source : /\ queued["rebuilding"][s] = "no"
                                      /\ head["rebuilding"][s] = None

NoRows == [s \in Source |-> "no"]
NoHeads == [s \in Source |-> None]
(* installDerived(): one epoch, everything still to be found.              *)
Fresh ==
  /\ rebuilding' = FALSE
  /\ queued' = [e \in Epoch |-> NoRows]
  /\ sweep' = [e \in Epoch |-> IF e = "active" THEN 0 ELSE N + 1]
  /\ head' = [e \in Epoch |-> NoHeads]
  /\ litter' = 0
Init ==
  /\ present \in [Source -> BOOLEAN] /\ text = [s \in Source |-> 0]
  /\ rebuilding = FALSE
  /\ queued = [e \in Epoch |-> NoRows]
  /\ sweep = [e \in Epoch |-> IF e = "active" THEN 0 ELSE N + 1]
  /\ head = [e \in Epoch |-> NoHeads]
  /\ litter = 0 /\ work = None /\ maybe = TRUE
  /\ slice = FALSE /\ broken = FALSE /\ cuts = 0

Live == IF rebuilding THEN Epoch ELSE {"active"}
Visible(e, s) == head[e][s] # None /\ ~head[e][s].stale
NoWork == work = None
\* MUTANT: a run goes on although its source changed.
AlwaysCurrent == TRUE
(* The signature of the run's source is still the one it began with.       *)
Current == work.text = text[work.source]
(* obsolete(): the scan is made only when something may have left rows.    *)
Garbage == maybe /\ litter > 0

SourceRows == \E e \in Epoch, s \in Source : queued[e][s] = "queued"
ScopeRows == \E e \in Epoch : sweep[e] <= N
\* MUTANT: scopes still to be expanded are not counted.
OnlySources == SourceRows \/ Garbage
(* pendingSources of status().                                             *)
Pending == SourceRows \/ ScopeRows \/ Garbage
(* The row a turn takes: sources first, then scopes, by epoch and key.     *)
Before(e, s, f, t) == (e = "active" /\ f # e) \/ (e = f /\ s <= t)
Picks(e, s) ==
  /\ queued[e][s] = "queued"
  /\ \A f \in Epoch, t \in Source : queued[f][t] = "queued" => Before(e, s, f, t)
PicksScope(e) ==
  /\ ~SourceRows /\ sweep[e] <= N
  /\ \A f \in Epoch : sweep[f] <= N => Before(e, 0, f, 0)
-----------------------------------------------------------------------------
(* release(): the chunks of an unfinished run belong to nobody.            *)
OrphansOfRun == IF work.rows > 0 THEN 1 ELSE 0
Release ==
  /\ work' = None
  /\ litter' = litter + OrphansOfRun
  /\ maybe' = TRUE

DropStale ==
  /\ ~NoWork /\ ~Current
  /\ Release
  /\ UNCHANGED <<rebuilding, queued, sweep, head>>

(* cleanup(): something goes, at most what the budget of a slice allows.   *)
CleanUp ==
  /\ NoWork /\ Garbage
  /\ litter' \in 0 .. litter - 1
  /\ maybe' = TRUE
  /\ UNCHANGED <<rebuilding, queued, sweep, head, work>>

(* No run in memory and nothing to clean.                                  *)
Tidy == NoWork /\ ~Garbage

(* Fewer sources than a page holds.                                        *)
LastPage(page) == Cardinality(page) < Page
(* expand(): the next page of sources, except those whose head is current. *)
Expand ==
  /\ Tidy
  /\ \E e \in Epoch :
       /\ PicksScope(e)
       /\ LET rest == {s \in Source : present[s] /\ s > sweep[e]}
              page == {s \in rest : Cardinality({t \in rest : t <= s}) <= Page}
          IN /\ queued' = [queued EXCEPT ![e] = [s \in Source |->
                             IF s \in page /\ ~Visible(e, s) THEN "queued" ELSE @[s]]]
             /\ IF LastPage(page) THEN sweep' = [sweep EXCEPT ![e] = N + 1]
                ELSE \E last \in page : /\ \A t \in page : t <= last
                                        /\ sweep' = [sweep EXCEPT ![e] = last]
  /\ maybe' = TRUE
  /\ UNCHANGED <<rebuilding, head, litter, work>>

SkipVisible ==
  /\ Tidy
  /\ \E e \in Epoch, s \in Source :
       /\ Picks(e, s) /\ Visible(e, s)
       /\ queued' = [queued EXCEPT ![e][s] = "no"]
  /\ maybe' = FALSE
  /\ UNCHANGED <<rebuilding, sweep, head, litter, work>>

Orphans(e, s) == IF head[e][s] # None /\ head[e][s].rows > 0 THEN 1 ELSE 0
DropAbsent ==
  /\ Tidy
  /\ \E e \in Epoch, s \in Source :
       /\ Picks(e, s) /\ ~Visible(e, s) /\ ~present[s]
       /\ queued' = [queued EXCEPT ![e][s] = "no"]
       /\ litter' = litter + Orphans(e, s)
       /\ head' = [head EXCEPT ![e][s] = None]
  /\ maybe' = TRUE
  /\ UNCHANGED <<rebuilding, sweep, work>>

Begin ==
  /\ Tidy
  /\ \E e \in Epoch, s \in Source :
       /\ Picks(e, s) /\ ~Visible(e, s) /\ present[s]
       /\ work' = [epoch |-> e, source |-> s, text |-> text[s], rows |-> 0]
  /\ maybe' = FALSE
  /\ UNCHANGED <<rebuilding, queued, sweep, head, litter>>

\* MUTANT: a chunk is asked for after the last one.
OneTooMany == work.rows <= Size
ChunksLeft == work.rows < Size
WriteChunk ==
  /\ ~NoWork /\ Current /\ ChunksLeft
  /\ work' = [work EXCEPT !.rows = @ + 1]
  /\ UNCHANGED <<rebuilding, queued, sweep, head, litter, maybe>>

\* MUTANT: the rows of the head that is replaced are not looked for.
Unmarked(e, s) == maybe
MarkedBy(e, s) == maybe \/ head[e][s] # None
(* publish() and the release() after it.                                   *)
Publish ==
  /\ ~NoWork /\ Current /\ ~ChunksLeft
  /\ LET e == work.epoch s == work.source
     IN /\ head' = [head EXCEPT ![e][s] = [rows |-> work.rows, text |-> work.text, stale |-> FALSE]]
        /\ queued' = [queued EXCEPT ![e][s] = "no"]
        /\ litter' = litter + Orphans(e, s)
        /\ maybe' = MarkedBy(e, s)
  /\ work' = None
  /\ UNCHANGED <<rebuilding, sweep>>

(* A source that cannot be loaded, read or chunked.                        *)
Fails(e, s) == queued' = [queued EXCEPT ![e][s] = IF @ = "no" THEN @ ELSE "failed"]
CannotBegin ==
  /\ Tidy
  /\ \E e \in Epoch, s \in Source :
       Picks(e, s) /\ ~Visible(e, s) /\ present[s] /\ Fails(e, s)
  /\ maybe' = FALSE
  /\ UNCHANGED <<rebuilding, sweep, head, litter, work>>
FailRun ==
  /\ ~NoWork /\ Current
  /\ Fails(work.epoch, work.source)
  /\ Release
  /\ UNCHANGED <<rebuilding, sweep, head>>

\* MUTANT: failed sources do not hold an epoch back.
NothingQueued(e) == sweep[e] = N + 1 /\ \A s \in Source : queued[e][s] # "queued"
QueueEmpty(e) == sweep[e] = N + 1 /\ \A s \in Source : queued[e][s] = "no"
Switches == Tidy /\ ~SourceRows /\ ~ScopeRows /\ rebuilding /\ QueueEmpty("rebuilding")
(* Everything is settled and the rebuilt epoch takes over; what the old    *)
(* one leaves is cleaned up from this turn on.                             *)
Left == Cardinality({s \in Source : head["active"][s] # None \/ queued["active"][s] # "no"})
SwitchEpoch ==
  /\ Switches
  /\ rebuilding' = FALSE
  /\ head' = [e \in Epoch |-> IF e = "active" THEN head["rebuilding"] ELSE NoHeads]
  /\ queued' = [e \in Epoch |-> NoRows]
  /\ LET all == litter + Left
     IN IF all = 0 THEN litter' = 0 /\ maybe' = FALSE ELSE litter' \in 0 .. all - 1 /\ maybe' = TRUE
  /\ UNCHANGED <<sweep, work>>

Turn ==
  \/ DropStale \/ Expand \/ SkipVisible \/ DropAbsent \/ Begin
  \/ WriteChunk \/ Publish
Cut == cuts < MaxCuts /\ cuts' = cuts + 1

(* A slice starts when status() counts something, and may end after any    *)
(* turn: 8 chunks, 64 turns or 128 KiB are spent, or it is aborted.        *)
Runs == ~broken /\ (slice \/ Pending)
Advance ==
  /\ Runs
  /\ \/ Turn /\ slice' \in BOOLEAN
     \/ (CleanUp \/ SwitchEpoch) /\ slice' = FALSE
  /\ UNCHANGED <<canonical, broken, cuts>>
AdvanceFails ==
  /\ Runs /\ Cut
  /\ CannotBegin \/ FailRun
  /\ slice' \in BOOLEAN
  /\ UNCHANGED <<canonical, broken>>
(* Nothing is left for the slice, or for status() to count.                *)
Settle ==
  /\ ~broken /\ Tidy /\ ~SourceRows /\ ~ScopeRows /\ ~(slice /\ Switches) /\ (slice \/ maybe)
  /\ slice' = FALSE /\ maybe' = FALSE
  /\ UNCHANGED <<canonical, rebuilding, queued, sweep, head, litter, work, broken, cuts>>
-----------------------------------------------------------------------------
(* The owner's other work, between slices.                                 *)
Idle == ~slice
Stale(S) == [e \in Epoch |-> [s \in Source |->
               IF s \in S /\ head[e][s] # None THEN [head[e][s] EXCEPT !.stale = TRUE]
               ELSE head[e][s]]]
\* MUTANT: a change is queued for the epoch in use only.
ActiveOnly == {"active"}
Dirtied == Live

(* The triggers, which are gone while the index is broken.                 *)
Untracked == broken /\ UNCHANGED <<queued, sweep, head>>
Tracked(s) ==
  /\ ~broken
  /\ head' = Stale({s})
  /\ queued' = [e \in Epoch |-> IF e \in Dirtied THEN [queued[e] EXCEPT ![s] = "queued"] ELSE queued[e]]
  /\ UNCHANGED sweep
TrackedAll ==
  /\ ~broken
  /\ head' = Stale(Source)
  /\ sweep' = [e \in Epoch |-> IF e \in Dirtied THEN 0 ELSE sweep[e]]
  /\ UNCHANGED queued
Process == <<work, maybe, slice, broken>>
(* A source is written, rewritten or removed.                              *)
Change(s) ==
  /\ Idle /\ text[s] < MaxText
  /\ \E there \in BOOLEAN : /\ present[s] \/ there
                            /\ present' = [present EXCEPT ![s] = there]
  /\ text' = [text EXCEPT ![s] = @ + 1]
  /\ Tracked(s) \/ Untracked
  /\ UNCHANGED <<rebuilding, litter, Process, cuts>>
(* A record that many sources share, such as an attachment.                *)
ChangeShared ==
  /\ Idle /\ \A s \in Source : text[s] < MaxText
  /\ text' = [s \in Source |-> text[s] + 1]
  /\ TrackedAll \/ Untracked
  /\ UNCHANGED <<present, rebuilding, litter, Process, cuts>>

StartRebuild == rebuilding' = TRUE /\ sweep' = [sweep EXCEPT !["rebuilding"] = 0]
Rebuild ==
  /\ Idle /\ ~broken /\ Cut
  /\ StartRebuild
  /\ maybe' = TRUE
  /\ UNCHANGED <<canonical, queued, head, litter, work, slice, broken>>
(* The slice was aborted, or the client asks for the resources.            *)
Yield ==
  /\ Idle /\ ~NoWork /\ Cut
  /\ Release
  /\ UNCHANGED <<canonical, rebuilding, queued, sweep, head, slice, broken>>

(* The owner closes or dies and another opens: the builds are forgotten    *)
(* and another version of the chunker rebuilds.  A broken index is found   *)
(* broken, its triggers missing.                                           *)
Restart ==
  /\ Idle /\ Cut
  /\ work' = None
  /\ litter' = litter + (IF NoWork THEN 0 ELSE OrphansOfRun)
  /\ maybe' = TRUE
  /\ (StartRebuild /\ ~broken) \/ UNCHANGED <<rebuilding, sweep>>
  /\ UNCHANGED <<canonical, queued, head, slice, broken>>
(* advance() throws: the slice is rolled back, the triggers are dropped.   *)
Break ==
  /\ Idle /\ ~broken /\ Pending /\ Cut
  /\ broken' = TRUE
  /\ UNCHANGED <<canonical, rebuilding, queued, sweep, head, litter, work, maybe, slice>>
(* A rebuild that the user asks for while the index is broken.             *)
Repair ==
  /\ Idle /\ broken
  /\ Fresh
  /\ work' = None /\ maybe' = (maybe \/ ~NoWork) /\ broken' = FALSE
  /\ UNCHANGED <<canonical, slice, cuts>>

Next ==
  \/ Advance \/ AdvanceFails \/ Settle
  \/ \E s \in Source : Change(s)
  \/ ChangeShared \/ Rebuild \/ Yield \/ Restart \/ Break \/ Repair
(* Maintenance comes back while status() counts something.                 *)
Spec == Init /\ [][Next]_vars /\ WF_vars(Advance) /\ WF_vars(Settle)
-----------------------------------------------------------------------------
(* Search answers only with heads made of the text as it is: a change, a   *)
(* removal, a run that was overtaken or a repair never leaves an old head  *)
(* visible.                                                                *)
VisibleIsCurrent ==
  ~broken => \A e \in Live, s \in Source :
               Visible(e, s) => present[s] /\ head[e][s].text = text[s]

(* No change is lost between triggers, expansion, runs, failure and        *)
(* restart: what a living epoch does not show as it is, the queue or the   *)
(* rest of a sweep still knows of.                                         *)
NothingForgotten ==
  ~broken => \A e \in Live, s \in Source :
    \/ IF present[s] THEN Visible(e, s) ELSE head[e][s] = None
    \/ queued[e][s] # "no"
    \/ sweep[e] < s

(* The flag that spares the scan for obsolete rows is never wrong about    *)
(* rows that no head, run or epoch owns.                                   *)
GarbageIsSeen == ~broken => (litter > 0 => maybe)

(* An epoch that takes over shows every source as it is, and no other, and *)
(* the one before it was kept until then.                                  *)
SwitchIsComplete ==
  [][rebuilding /\ ~rebuilding' /\ ~broken =>
       \A s \in Source :
         IF present[s] THEN head'["active"][s] # None /\ head'["active"][s].text = text[s]
         ELSE head'["active"][s] = None]_vars

(* A source gets into the epoch in use, or is reported as failed, unless   *)
(* it goes or the index breaks, whatever is rebuilt or interrupted.        *)
Indexed(s) == Visible("active", s) \/ queued["active"][s] = "failed"
EventuallyIndexed ==
  \A s \in Source : present[s] ~> Indexed(s) \/ ~present[s] \/ broken

(* A rebuild ends, unless a source failed or the index breaks.             *)
RebuildEnds ==
  rebuilding ~> ~rebuilding \/ broken \/ \E s \in Source : queued["rebuilding"][s] = "failed"
=============================================================================
