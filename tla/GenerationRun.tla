---------------------------- MODULE GenerationRun ----------------------------
(***************************************************************************)
(* One provider generation, from its lease to its sealed output.           *)
(*                                                                         *)
(* packages/providers/src/generation.ts           the producer's loop, its *)
(*   batched checkpoints, idle flush timer and retried commits             *)
(* packages/app/src/workflows/generation.ts       lease, register, settle  *)
(* packages/storage/src/worker/producers.ts       producer row, fence and  *)
(*   recovery; canonical/repository.ts: append and seal                    *)
(*                                                                         *)
(* A mutation is known by its sequence number (0 creates the attempt), so  *)
(* a batch is an interval of sequence numbers.  The archive executes the   *)
(* requests of one client in the order they were sent (ArchiveRuntime).    *)
(***************************************************************************)
EXTENDS Integers, Sequences

CONSTANTS
  MaxSequence, \* checkpoints of a behaviour (bound)
  MaxPending,  \* PENDING_FLUSH_MUTATIONS
  MaxAttempts, \* attempts of one commit: 3
  MaxFaults,   \* lost replies and owner crashes in a behaviour (bound)
  Flusher      \* idle flushes that may be in flight together (bound)

ASSUME BoundsAssumption ==
  MaxSequence \in Nat \ {0} /\ MaxPending \in Nat /\ MaxAttempts \in Nat \ {0} /\ MaxFaults \in Nat
ASSUME FlusherAssumption == Flusher \cap {"loop", "nobody"} = {}

Activity == Flusher \cup {"loop"}

VARIABLES
  (* producer context *)
  pc,          \* where the loop is
  op,          \* checkpoint the loop is making: raw, append, final, inline
  sequence,    \* sequence number of the newest mutation counted
  taken,       \* newest mutation spliced out of pending
  timer,       \* the idle flush timer is set
  committing,  \* a flush says it is in flight
  flushFailed, \* an idle flush threw
  call,        \* commit() per activity: its batch, step and attempt
  replies,     \* answers on their way back, in the order they were given
  told,        \* sequence the checkpoint listeners last heard of
  outcome,     \* what the run returned: none, persisted, failed
  lease,       \* the producer holds the generation's Web Lock
  (* archive *)
  wire,        \* requests on their way to the owner
  row,         \* generation producer row
  last,        \* lastSequence of the generation; -1 before it is created
  receipts,    \* mutations committed, by their operation identities
  seal,        \* open, complete or partial
  admitted,    \* the oldest request, a write, passed the fence; its commit
               \* is still to come
  faults

producerVars == <<pc, op, sequence, taken, timer, committing, flushFailed, told, outcome>>
archiveVars == <<row, last, receipts, seal>>
vars == <<producerVars, call, replies, lease, wire, archiveVars, admitted, faults>>

Steps == {"idle", "stage", "write", "probe", "recheck"}
Sequence == -1 .. MaxSequence
Call == [step : Steps, first : {"stage", "write"}, lo : 0 .. MaxSequence, hi : Sequence,
         final : BOOLEAN, attempt : 0 .. MaxAttempts - 1]
NoCall == [step |-> "idle", first |-> "write", lo |-> 0, hi |-> -1, final |-> FALSE,
           attempt |-> 0]
Entry == [who : Activity \cup {"nobody"},
          kind : {"register", "stage", "write", "status", "release", "lost"},
          lo : 0 .. MaxSequence, hi : Sequence, final : BOOLEAN]
Alive == pc # "crashed"
Idle(a) == call[a].step = "idle"
Pending == taken + 1 .. sequence

(* Types and bounds: checkpoints never pass MaxSequence, attempts of one   *)
(* commit stay below the limit, every batch on the wire is an interval of  *)
(* counted mutations.                                                      *)
TypeOK ==
  /\ pc \in {"start", "registering", "creating", "streaming", "draining", "hashing",
             "checkpoint", "settling", "releasing", "done", "crashed"}
  /\ op \in {"none", "raw", "append", "final", "inline"}
  /\ sequence \in 0 .. MaxSequence
  /\ taken \in 0 .. MaxSequence
  /\ told \in Sequence
  /\ timer \in BOOLEAN /\ committing \in BOOLEAN /\ flushFailed \in BOOLEAN
  /\ lease \in BOOLEAN
  /\ call \in [Activity -> Call]
  /\ replies \in Seq([who : Activity, answer : {"yes", "no", "conflict", "unknown"}])
  /\ outcome \in {"none", "persisted", "failed"}
  /\ wire \in Seq(Entry)
  /\ row \in {"none", "active", "released", "finished", "lost"}
  /\ last \in Sequence
  /\ receipts \subseteq 0 .. MaxSequence
  /\ seal \in {"open", "complete", "partial"}
  /\ admitted \in BOOLEAN
  /\ faults \in 0 .. MaxFaults

Init ==
  /\ pc = "start" /\ op = "none"
  /\ sequence = 0 /\ taken = 0 /\ told = -1
  /\ timer = FALSE /\ committing = FALSE /\ flushFailed = FALSE
  /\ call = [a \in Activity |-> NoCall]
  /\ replies = <<>>
  /\ outcome = "none"
  /\ lease = FALSE
  /\ wire = <<>> /\ row = "none" /\ last = -1 /\ receipts = {} /\ seal = "open"
  /\ admitted = FALSE /\ faults = 0

-----------------------------------------------------------------------------
(* Requests and commit().                                                  *)
Request(a, kind, c) ==
  [who |-> a, kind |-> kind, lo |-> c.lo, hi |-> c.hi, final |-> c.final]

StartCommit(a, first, lo, hi, final) ==
  LET c == [step |-> first, first |-> first, lo |-> lo, hi |-> hi, final |-> final,
            attempt |-> 0]
  IN /\ call' = [call EXCEPT ![a] = c]
     /\ wire' = Append(wire, Request(a, first, c))

(* The batch of a raw checkpoint is preceded by the staging of its bytes.  *)
StartCheckpoint ==
  StartCommit("loop", IF op \in {"raw", "final"} THEN "stage" ELSE "write",
              taken + 1, sequence + 1, op = "final")

Reply(a) ==
  IF replies # <<>> /\ Head(replies).who = a THEN Head(replies).answer ELSE "none"

(* The reply of activity a moves its commit() on: an unknown outcome is    *)
(* resolved by operation status before the batch is sent again.            *)
\* MUTANT: an unknown outcome is taken for a success.
TrustsUnknown(a) == Reply(a) \in {"yes", "unknown"} /\ call[a].step # "stage"

Done(a) == Reply(a) = "yes" /\ call[a].step # "stage"
\* MUTANT: one attempt too many.
OneMoreAttempt(a) ==
  \/ Reply(a) = "conflict"
  \/ call[a].step = "probe" /\ Reply(a) # "yes" /\ call[a].attempt + 1 > MaxAttempts

GaveUp(a) ==
  \/ Reply(a) = "conflict"
  \/ call[a].step = "probe" /\ Reply(a) # "yes" /\ call[a].attempt + 1 >= MaxAttempts
Continues(a) == Reply(a) # "none" /\ ~Done(a) /\ ~GaveUp(a)

NextStep(c, answer) ==
  CASE c.step = "stage" /\ answer = "yes"  -> [c EXCEPT !.step = "write"]
    [] c.step = "probe"                     -> [c EXCEPT !.step = "recheck", !.attempt = @ + 1]
    [] c.step = "recheck" /\ answer = "no"  -> [c EXCEPT !.step = c.first]
    [] OTHER                                -> [c EXCEPT !.step = "probe"]

Retry(a) ==
  LET next == NextStep(call[a], Reply(a))
      kind == IF next.step \in {"probe", "recheck"} THEN "status" ELSE next.step
  IN /\ Alive /\ ~Idle(a) /\ Continues(a)
     /\ call' = [call EXCEPT ![a] = next]
     /\ replies' = Tail(replies)
     /\ wire' = Append(wire, Request(a, kind, next))
     /\ UNCHANGED <<producerVars, lease, archiveVars, admitted, faults>>

(* commit() of a returns (ok) or throws (~ok).                             *)
Returns(a, ok) ==
  /\ Alive /\ ~Idle(a)
  /\ ok => Done(a)
  /\ ~ok => Reply(a) # "none" /\ GaveUp(a)
  /\ call' = [call EXCEPT ![a] = NoCall]
  /\ replies' = Tail(replies)

-----------------------------------------------------------------------------
(* startCoordinatedGeneration: lease, then the producer row, then the run. *)
AcquireLease ==
  /\ pc = "start"
  /\ lease' = TRUE
  /\ pc' = "registering"
  /\ wire' = Append(wire, Request("loop", "register", NoCall))
  /\ UNCHANGED <<op, sequence, taken, timer, committing, flushFailed, told, outcome,
                 call, replies, archiveVars, admitted, faults>>

Registered ==
  /\ pc = "registering" /\ Reply("loop") # "none"
  /\ replies' = Tail(replies)
  /\ \/ /\ Reply("loop") = "yes"
        /\ pc' = "creating"
        /\ StartCommit("loop", "write", 0, 0, FALSE)
        /\ UNCHANGED outcome
     \/ /\ Reply("loop") # "yes"
        /\ pc' = "settling"
        /\ outcome' = "failed"
        /\ UNCHANGED <<call, wire>>
  /\ UNCHANGED <<op, sequence, taken, timer, committing, flushFailed, told, lease,
                 archiveVars, admitted, faults>>

Created ==
  /\ pc = "creating" /\ Returns("loop", TRUE)
  /\ pc' = "streaming" /\ told' = sequence
  /\ UNCHANGED <<op, sequence, taken, timer, committing, flushFailed, outcome, lease,
                 wire, archiveVars, admitted, faults>>

-----------------------------------------------------------------------------
(* Provider events.  A text delta is counted and left pending; it is       *)
(* flushed inline when enough is pending, else the idle timer is set.      *)
Text ==
  /\ pc = "streaming" /\ sequence < MaxSequence - 1
  /\ sequence' = sequence + 1
  /\ \/ /\ flushFailed
        /\ pc' = "settling" /\ timer' = FALSE /\ outcome' = "failed"
        /\ UNCHANGED <<op, taken, committing, call, wire>>
     \/ /\ ~flushFailed
        /\ pc' = "checkpoint" /\ op' = "inline" /\ committing' = TRUE
        /\ taken' = sequence + 1
        /\ StartCheckpoint
        /\ UNCHANGED <<timer, outcome>>
     \/ /\ ~flushFailed /\ sequence + 1 - taken < MaxPending
        /\ timer' = TRUE
        /\ UNCHANGED <<pc, op, taken, committing, outcome, call, wire>>
  /\ UNCHANGED <<flushFailed, told, replies, lease, archiveVars, admitted, faults>>

(* A raw record, a part or the end of the stream: wait for a flush in      *)
(* flight, hash raw bytes, commit with the pending deltas first.           *)
Checkpoint(kind) ==
  /\ pc = "streaming"
  /\ kind # "final" => sequence < MaxSequence - 1
  /\ pc' = "draining" /\ op' = kind
  /\ UNCHANGED <<sequence, taken, timer, committing, flushFailed, told, outcome, call,
                 replies, lease, wire, archiveVars, admitted, faults>>

SendCheckpoint ==
  \/ /\ flushFailed
     /\ pc' = "settling" /\ timer' = FALSE /\ outcome' = "failed"
     /\ UNCHANGED <<taken, call, wire>>
  \/ /\ ~flushFailed
     /\ pc' = "checkpoint"
     /\ taken' = sequence + 1
     /\ StartCheckpoint
     /\ UNCHANGED <<timer, outcome>>

Settled ==
  /\ pc = "draining" /\ ~committing
  /\ \/ op = "append" /\ SendCheckpoint
     \/ /\ op # "append"
        /\ pc' = "hashing"
        /\ UNCHANGED <<taken, timer, outcome, call, wire>>
  /\ UNCHANGED <<op, sequence, committing, flushFailed, told, replies, lease, archiveVars, admitted, faults>>

Hashed ==
  /\ pc = "hashing"
  /\ SendCheckpoint
  /\ UNCHANGED <<op, sequence, committing, flushFailed, told, replies, lease, archiveVars, admitted, faults>>

(* The loop's own commit returned.                                         *)
Checkpointed ==
  /\ pc = "checkpoint" /\ Returns("loop", TRUE)
  /\ sequence' = IF op = "inline" THEN sequence ELSE sequence + 1
  /\ committing' = IF op = "inline" THEN FALSE ELSE committing
  /\ told' = sequence'
  /\ \/ /\ op = "final"
        /\ pc' = "settling" /\ outcome' = "persisted" /\ timer' = FALSE
     \/ /\ op # "final"
        /\ pc' = "streaming" /\ UNCHANGED <<outcome, timer>>
  /\ op' = "none"
  /\ UNCHANGED <<taken, flushFailed, lease, wire, archiveVars, admitted, faults>>

(* commit() threw: the run ends, without its manifest.                     *)
RunFails ==
  /\ pc \in {"creating", "checkpoint"} /\ Returns("loop", FALSE)
  /\ pc' = "settling" /\ outcome' = "failed" /\ timer' = FALSE /\ op' = "none"
  /\ committing' = IF op = "inline" THEN FALSE ELSE committing
  /\ UNCHANGED <<sequence, taken, flushFailed, told, lease, wire, archiveVars, admitted, faults>>

-----------------------------------------------------------------------------
(* The idle flush.                                                         *)
TimerFires ==
  /\ Alive /\ timer
  /\ timer' = FALSE
  /\ \/ /\ committing \/ Pending = {}
        /\ UNCHANGED <<taken, committing, call, wire>>
     \/ /\ ~committing /\ Pending # {}
        /\ \E f \in Flusher : Idle(f) /\ StartCommit(f, "write", taken + 1, sequence, FALSE)
        /\ committing' = TRUE /\ taken' = sequence
  /\ UNCHANGED <<pc, op, sequence, flushFailed, told, outcome, replies, lease, archiveVars, admitted, faults>>

Flushed(f) ==
  /\ Returns(f, TRUE)
  /\ committing' = FALSE /\ told' = sequence
  /\ UNCHANGED <<pc, op, sequence, taken, timer, flushFailed, outcome, lease, wire,
                 archiveVars, admitted, faults>>

\* MUTANT: a flush that throws leaves its flag behind.
LeavesFlag(f) ==
  /\ Returns(f, FALSE)
  /\ flushFailed' = TRUE
  /\ UNCHANGED <<pc, op, sequence, taken, timer, committing, told, outcome, lease, wire,
                 archiveVars, admitted, faults>>

FlushFails(f) ==
  /\ Returns(f, FALSE)
  /\ committing' = FALSE /\ flushFailed' = TRUE
  /\ UNCHANGED <<pc, op, sequence, taken, timer, told, outcome, lease, wire,
                 archiveVars, admitted, faults>>

-----------------------------------------------------------------------------
(* settle(): tell the archive, whatever comes of it, and drop the lease.   *)
Settle ==
  /\ pc = "settling"
  /\ pc' = "releasing"
  /\ wire' = Append(wire, Request("loop", "release", NoCall))
  /\ UNCHANGED <<op, sequence, taken, timer, committing, flushFailed, told, outcome, call,
                 replies, lease, archiveVars, admitted, faults>>

ReleaseLease ==
  /\ pc = "releasing" /\ Reply("loop") # "none"
  /\ replies' = Tail(replies)
  /\ lease' = FALSE /\ pc' = "done"
  /\ UNCHANGED <<op, sequence, taken, timer, committing, flushFailed, told, outcome, call,
                 wire, archiveVars, admitted, faults>>

(* The producer's context is gone, and its lease with it; what it sent may *)
(* still reach the archive.                                                *)
ContextLost ==
  /\ Alive /\ pc # "start"
  /\ pc' = "crashed" /\ lease' = FALSE /\ timer' = FALSE
  /\ replies' = <<>>
  /\ call' = [a \in Activity |-> NoCall]
  /\ wire' = [i \in DOMAIN wire |-> [wire[i] EXCEPT !.who = "nobody"]]
  /\ UNCHANGED <<op, sequence, taken, committing, flushFailed, told, outcome, archiveVars, admitted, faults>>

-----------------------------------------------------------------------------
(* The archive.  A committed batch is answered from its receipt.  A new    *)
(* one must find an active row and a held lease; that query of the lock is *)
(* awaited, and the commit that follows it needs the next sequence number  *)
(* and, to create the attempt, a thread that has not been revised.         *)
Committed(e) == e.lo .. e.hi \subseteq receipts
\* MUTANT: writes are not checked against the producer row.
NeverFenced == FALSE

Fenced == row # "none" /\ (row # "active" \/ ~lease)
\* MUTANT: any sequence number is accepted.
AnySequence(e) == seal = "open"

Appends(e) == seal = "open" /\ e.lo = last + 1

Answered(e, answer) ==
  IF e.who \in Activity THEN Append(replies, [who |-> e.who, answer |-> answer]) ELSE replies

Admit ==
  /\ wire # <<>> /\ ~admitted
  /\ LET e == Head(wire) IN e.kind = "write" /\ ~Committed(e) /\ ~Fenced
  /\ admitted' = TRUE
  /\ UNCHANGED <<producerVars, call, replies, lease, wire, archiveVars, faults>>

ServeWrite(e) ==
  /\ e.kind = "write"
  /\ \/ /\ Committed(e)
        /\ replies' = Answered(e, "yes")
        /\ UNCHANGED archiveVars
     \/ /\ admitted /\ Appends(e)
        /\ last' = e.hi
        /\ receipts' = receipts \cup e.lo .. e.hi
        /\ seal' = IF e.final THEN "complete" ELSE seal
        /\ replies' = Answered(e, "yes")
        /\ UNCHANGED row
     \/ /\ ~Committed(e)
        /\ \/ ~admitted /\ Fenced
           \/ admitted /\ (~Appends(e) \/ e.lo = 0)
        /\ replies' = Answered(e, "conflict")
        /\ UNCHANGED archiveVars

(* The raw bytes are staged; they change nothing until a batch claims them. *)
ServeStage(e) ==
  /\ e.kind = "stage"
  /\ replies' = Answered(e, "yes")
  /\ UNCHANGED archiveVars

ServeStatus(e) ==
  /\ e.kind = "status"
  /\ replies' = Answered(e, IF Committed(e) THEN "yes" ELSE "no")
  /\ UNCHANGED archiveVars

ServeRegister(e) ==
  /\ e.kind = "register"
  /\ \/ /\ lease /\ row = "none" /\ last = -1
        /\ row' = "active"
        /\ replies' = Answered(e, "yes")
     \/ /\ ~(lease /\ row = "none" /\ last = -1)
        /\ replies' = Answered(e, "conflict")
        /\ UNCHANGED row
  /\ UNCHANGED <<last, receipts, seal>>

ServeRelease(e) ==
  /\ e.kind = "release"
  /\ row' = IF row = "active" THEN "released" ELSE row
  /\ replies' = Answered(e, "yes")
  /\ UNCHANGED <<last, receipts, seal>>

(* A request the last owner took with it is answered, never replayed.      *)
ServeLost(e) ==
  /\ e.kind = "lost"
  /\ replies' = Answered(e, "unknown")
  /\ UNCHANGED archiveVars

(* The owner executes the oldest request.                                  *)
Serve ==
  /\ wire # <<>>
  /\ wire' = Tail(wire)
  /\ LET e == Head(wire)
     IN \/ ServeWrite(e) \/ ServeStage(e) \/ ServeStatus(e)
        \/ ServeRegister(e) \/ ServeRelease(e) \/ ServeLost(e)
  /\ admitted' = FALSE
  /\ UNCHANGED <<producerVars, call, lease, faults>>

(* The owner dies with the requests it had not executed.                   *)
OwnerLost ==
  /\ faults < MaxFaults /\ wire # <<>>
  /\ faults' = faults + 1
  /\ wire' = [i \in DOMAIN wire |-> [wire[i] EXCEPT !.kind = "lost"]]
  /\ admitted' = FALSE
  /\ UNCHANGED <<producerVars, call, replies, lease, archiveVars>>

(* The deadline of a request passes, and the client cancels it: it is taken*)
(* out of the owner's queue or stopped before its commit, or it is past    *)
(* being stopped.                                                          *)
ReplyLost(i) ==
  /\ faults < MaxFaults
  /\ wire[i].who # "nobody"
  /\ faults' = faults + 1
  /\ \E kind \in {wire[i].kind, "lost"} :
       /\ wire' = [wire EXCEPT ![i] = [@ EXCEPT !.who = "nobody", !.kind = kind]]
       /\ admitted' = (admitted /\ (i = 1 => kind # "lost"))
  /\ replies' = Answered(wire[i], "unknown")
  /\ UNCHANGED <<producerVars, call, lease, archiveVars>>

(* reconcile(), from the owner's maintenance or at a client's request,     *)
(* settles the row of a finished attempt and, holding the free lease,      *)
(* seals a lost one as partial.                                            *)
\* MUTANT: reconciliation forgets the rows that were released.
OnlyActive == row = "active"

Unsettled == row \in {"active", "released"}
Finished == last >= 0 /\ seal # "open"
\* MUTANT: the lease is not consulted.
IgnoresLease == TRUE

Recoverable == ~lease

Reconcile ==
  /\ Unsettled /\ ~admitted
  /\ \/ /\ Finished
        /\ row' = "finished"
        /\ UNCHANGED seal
     \/ /\ ~Finished /\ Recoverable
        /\ row' = "lost"
        /\ seal' = IF last >= 0 THEN "partial" ELSE seal
  /\ UNCHANGED <<producerVars, call, replies, lease, wire, last, receipts, admitted, faults>>

-----------------------------------------------------------------------------
Losses == OwnerLost \/ \E i \in DOMAIN wire : ReplyLost(i)
Loop ==
  \/ AcquireLease \/ Registered \/ Created \/ Settled \/ Hashed
  \/ Checkpointed \/ RunFails \/ Settle \/ ReleaseLease
Provider == Text \/ \E kind \in {"raw", "append", "final"} : Checkpoint(kind)
FlushEnds == \E f \in Flusher : Flushed(f) \/ FlushFails(f)
Retries == \E a \in Activity : Retry(a)

Next == Admit \/ Serve \/ Reconcile \/ Losses \/ Loop \/ Provider \/ TimerFires \/ FlushEnds
          \/ ContextLost \/ Retries

Spec == Init /\ [][Next]_vars

(* The owner serves and maintains, timers fire and the producer's promises *)
(* resume; nothing says that a provider sends, or a fault happens.         *)
Fairness ==
  /\ WF_vars(Admit \/ Serve) /\ WF_vars(Reconcile) /\ WF_vars(Loop) /\ WF_vars(TimerFires)
  /\ WF_vars(FlushEnds) /\ \A a \in Activity : WF_vars(Retry(a))

FairSpec == Spec /\ Fairness

-----------------------------------------------------------------------------
(* The committed output has no hole, whatever batches were lost, retried   *)
(* or sent side by side: every mutation up to lastSequence has a receipt,  *)
(* and none beyond it (repository.ts, append).                             *)
PrefixHasNoHoles == receipts = 0 .. last

(* "keeps every delivered delta in the committed prefix": when the         *)
(* producer itself sealed its output, every delta it counted is in it.     *)
SealKeepsDelivered == seal = "complete" => 0 .. sequence \subseteq receipts

(* A run that reports success did seal its attempt, and while it streams   *)
(* with nothing pending and nothing in flight, all it counted is durable.  *)
ReportedIsDurable ==
  /\ outcome = "persisted" => seal = "complete"
  /\ pc = "streaming" /\ ~flushFailed /\ Pending = {} /\ (\A a \in Activity : Idle(a))
       => 0 .. sequence \subseteq receipts

(* Recovery strands nothing: no delayed request reopens or creates an      *)
(* attempt whose producer row is settled (producers.ts, assertWritable).   *)
NothingStranded == row \in {"finished", "lost"} => last = -1 \/ seal # "open"

(* The archive sees an append-only log that is sealed once.  It grows only *)
(* by batches admitted while the producer held its lease, one at a time;   *)
(* so of a producer that is gone at most one more arrives, and none after  *)
(* recovery has sealed the log as partial, however late its requests and   *)
(* the owner's look at the lease are (producers.ts, assertWritable).       *)
Log == INSTANCE GenerationLog WITH live <- lease \/ pc = "start", granted <- admitted
ImplementsLog == Log!Spec

(* An attempt whose producer is gone is sealed and its row settled.        *)
EventuallySettled ==
  (row # "none" /\ ~lease) ~> (row \in {"finished", "lost"} /\ (last >= 0 => seal # "open"))

(* Once the stream has ended the run ends too, whatever the idle flush and *)
(* the retries are doing (generation.ts, settled).                         *)
RunEnds == (op = "final") ~> pc \in {"done", "crashed"}

-----------------------------------------------------------------------------
(* Three claims of generation.ts that the code does not keep.              *)

(* "Checkpoint listeners are told only when a delta is durable."           *)
NotifiedIsDurable == told <= last

(* "A provider that pauses after a delta must not leave it invisible: an   *)
(* idle flush commits pending deltas shortly after the last one arrived".  *)
DeltaBecomesVisible ==
  (pc = "streaming" /\ Pending # {}) ~> (Pending = {} \/ pc # "streaming")

(* "an idle flush commits pending deltas ... never while another           *)
(* checkpoint commit is in flight": two idle flushes in flight together    *)
(* mean that the second began while the first was.                         *)
NoOverlappingFlushes == \A f, g \in Flusher : f # g => Idle(f) \/ Idle(g)
=============================================================================
