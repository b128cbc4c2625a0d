-------------------------- MODULE SelectionCatalog --------------------------
(***************************************************************************)
(* Which archive is selected, and its replacement by a reviewed candidate. *)
(*                                                                         *)
(* packages/storage/src/selection/managed-catalog.ts  the catalog          *)
(* packages/storage/src/worker/archive-runtime.ts     fenced(), activation *)
(* packages/storage/src/worker/archives/index.ts      withActivationReview *)
(* packages/storage/src/client/selection.ts           reading from outside *)
(*                                                                         *)
(* A context is the worker that owns an archive (ArchiveRuntime) pinned to *)
(* the selection it opened it under; it executes one call at a time, also  *)
(* for the tabs that forward to it.  The gate is a Web Lock, held from the *)
(* opening of the catalog to its closing; steps under it are what awaits   *)
(* separate.                                                               *)
(***************************************************************************)
EXTENDS Naturals, FiniteSets

CONSTANTS
  Context,       \* workers
  Operation,     \* activation operation identities
  Archive,
  Default,       \* the archive of a fresh catalog
  MaxWrites,     \* canonical writes per archive (bound)
  MaxCalls,      \* calls of a behaviour (bound)
  CloseMayFail,  \* the catalog may fail to close
  None

ASSUME ArchiveAssumption == Default \in Archive
ASSUME FiniteAssumption == IsFiniteSet(Operation)
ASSUME BoundAssumption == MaxWrites \in Nat /\ MaxCalls \in Nat /\ CloseMayFail \in BOOLEAN

VARIABLES
  (* the catalog's database *)
  head,        \* selection row: archive, revision and its operation
  state,       \* operations row: how far each operation is
  retained,    \* archives ever selected
  (* the archives *)
  args,        \* full reviewed arguments of each operation, made by a review
  water,       \* canonical high-water of each archive
  (* contexts *)
  pin,         \* selection its archive was opened under
  call,        \* its running call, or the last one with its answer
  unavailable, \* its catalog failed to close
  gate,        \* holder of the selection gate
  calls

catalog == <<head, state, retained>>
vars == <<catalog, args, water, pin, call, unavailable, gate, calls>>

Selection == [archive : Archive, revision : 0 .. Cardinality(Operation)]
Args == [expected : Selection, candidate : Archive, water : 0 .. MaxWrites]
ASSUME NoneAssumption == None \notin Context \cup Operation \cup Selection \cup Args
Answer == {"none", "OK", "CANCELLED", "CONFLICT", "FAILED", "UNKNOWN_OUTCOME"}
Stage == {"idle", "waiting", "open", "admitted", "reviewing", "failing", "closing"}
Call == [kind : {"none", "write", "activate"}, op : Operation \cup {None}, stage : Stage,
         aborted : BOOLEAN, published : BOOLEAN, known : BOOLEAN, value : Answer]
NoCall == [kind |-> "none", op |-> None, stage |-> "idle", aborted |-> FALSE,
           published |-> FALSE, known |-> FALSE, value |-> "none"]

Committed == {o \in Operation : state[o] = "committed"}
Inside(c) == call[c].stage \in {"open", "admitted", "reviewing", "failing", "closing"}

(* Types; revisions count activations, and the gate is held by the context *)
(* whose call has the catalog open.                                        *)
TypeOK ==
  /\ head \in [archive : Archive, revision : 0 .. Cardinality(Operation),
               op : Operation \cup {None}]
  /\ state \in [Operation -> {"none", "prepared", "interrupted", "failed", "committed"}]
  /\ retained \subseteq Archive
  /\ args \in [Operation -> Args \cup {None}]
  /\ water \in [Archive -> 0 .. MaxWrites]
  /\ pin \in [Context -> Selection \cup {None}]
  /\ call \in [Context -> Call]
  /\ unavailable \in [Context -> BOOLEAN]
  /\ gate \in Context \cup {None}
  /\ calls \in 0 .. MaxCalls
  /\ \A c \in Context : Inside(c) <=> gate = c

Init ==
  /\ head = [archive |-> Default, revision |-> 0, op |-> None]
  /\ state = [o \in Operation |-> "none"]
  /\ retained = {Default}
  /\ args = [o \in Operation |-> None]
  /\ water = [a \in Archive |-> 0]
  /\ pin = [c \in Context |-> None]
  /\ call = [c \in Context |-> NoCall]
  /\ unavailable = [c \in Context |-> FALSE]
  /\ gate = None
  /\ calls = 0

Selected == [archive |-> head.archive, revision |-> head.revision]
\* MUTANT: only the archive is compared, not whether it is still selected.
AnyPin(c) == pin[c] # None
Current(c) == pin[c] = Selected
Receipt(a) == [archive |-> a.candidate, revision |-> a.expected.revision + 1]

-----------------------------------------------------------------------------
\* MUTANT: the gate lets a second context in.
NoGate == TRUE
GateFree == gate = None

(* Opening the catalog.  Whoever opens it under the gate finds no other    *)
(* activation running, so intents left behind are interrupted.             *)
\* MUTANT: intents left behind stay prepared.
LeftPrepared == state
Interrupted == [o \in Operation |-> IF state[o] = "prepared" THEN "interrupted" ELSE state[o]]

(* start(): a worker that read the selection and was granted the owner     *)
(* lock of that archive opens it under guard(); if the selection moved on  *)
(* in between, it does not become a context.                               *)
OwnerLockFree == \A d \in Context : pin[d] # None => pin[d].archive # head.archive
Open(c) ==
  /\ GateFree /\ pin[c] = None
  /\ OwnerLockFree
  /\ pin' = [pin EXCEPT ![c] = Selected]
  /\ state' = Interrupted
  /\ UNCHANGED <<head, retained, args, water, call, unavailable, gate, calls>>

(* read() and status() from a short-lived worker.                          *)
Inquire ==
  /\ GateFree
  /\ state' = Interrupted
  /\ UNCHANGED <<head, retained, args, water, pin, call, unavailable, gate, calls>>

Ready(c) == pin[c] # None /\ call[c].stage = "idle"

(* readArchiveActivationContext and prepareArchiveActivation: a candidate  *)
(* is reviewed against the selection and the high-water of its source.     *)
Review(c, o) ==
  /\ GateFree /\ ~unavailable[c]
  /\ Ready(c) /\ Current(c)
  /\ args[o] = None
  /\ \E a \in Archive \ {Default, pin[c].archive} :
       args' = [args EXCEPT ![o] = [expected |-> pin[c], candidate |-> a,
                                    water |-> water[pin[c].archive]]]
  /\ state' = Interrupted
  /\ UNCHANGED <<head, retained, water, pin, call, unavailable, gate, calls>>

-----------------------------------------------------------------------------
(* A call: its steps move the stage, the rest of the record with it.       *)
Ask(c, kind, o) ==
  /\ Ready(c)
  /\ calls < MaxCalls
  /\ calls' = calls + 1
  /\ call' = [call EXCEPT ![c] = [NoCall EXCEPT !.kind = kind, !.op = o, !.stage = "waiting"]]
  /\ UNCHANGED <<catalog, args, water, pin, unavailable, gate>>

AskWrite(c) == Ask(c, "write", None)
(* An activation or its retry, from a context pinned to its source.        *)
AskActivation(c, o) == args[o] # None /\ args[o].expected = pin[c] /\ Ask(c, "activate", o)

At(c, stage) == call[c].stage = stage
Goes(c, stage) == call' = [call EXCEPT ![c].stage = stage]
Yields(c, stage, value) == call' = [call EXCEPT ![c].stage = stage, ![c].value = value]
Writing(c) == call[c].kind = "write"
Activating(c) == call[c].kind = "activate"
Reviewed(c) == args[call[c].op]

Enter(c) ==
  /\ At(c, "waiting") /\ GateFree
  /\ ~unavailable[c]
  /\ gate' = c
  /\ Goes(c, "open")
  /\ state' = Interrupted
  /\ UNCHANGED <<head, retained, args, water, pin, unavailable, calls>>

(* open() fails and closes what it opened, unless that fails as well.      *)
OpenFails(c) ==
  /\ At(c, "waiting") /\ GateFree
  /\ Yields(c, "idle", "FAILED")
  /\ \E broken \in {unavailable[c], unavailable[c] \/ CloseMayFail} :
       unavailable' = [unavailable EXCEPT ![c] = broken]
  /\ UNCHANGED <<catalog, args, water, pin, gate, calls>>

(* guard(): the check, and after an await the effect.                      *)
Admit(c) ==
  /\ At(c, "open") /\ Writing(c) /\ Current(c)
  /\ Goes(c, "admitted")
  /\ UNCHANGED <<catalog, args, water, pin, unavailable, gate, calls>>

Write(c) ==
  /\ At(c, "admitted")
  /\ water[pin[c].archive] < MaxWrites
  /\ water' = [water EXCEPT ![pin[c].archive] = @ + 1]
  /\ call' = [call EXCEPT ![c].stage = "closing", ![c].value = "OK", ![c].known = TRUE]
  /\ UNCHANGED <<catalog, args, pin, unavailable, gate, calls>>

(* What a call that has had no effect is refused with.                     *)
Refusals(c) == {"FAILED"} \cup
  CASE Activating(c) /\ call[c].aborted -> {"CANCELLED"}
    [] ~Current(c) -> {"CONFLICT"}
    [] Writing(c) /\ call[c].aborted -> {"CANCELLED"}
    [] Activating(c) /\ Reviewed(c).candidate \in retained -> {"CONFLICT"}
    [] OTHER -> {}

Refuse(c) ==
  /\ At(c, "open") \/ At(c, "admitted")
  /\ ~(Activating(c) /\ call[c].op \in Committed)
  /\ \E value \in Refusals(c) : Yields(c, "closing", value)
  /\ UNCHANGED <<catalog, args, water, pin, unavailable, gate, calls>>

-----------------------------------------------------------------------------
(* activateReviewed().                                                     *)
(* A committed operation is answered from its receipt.                     *)
Replay(c) ==
  /\ At(c, "open") /\ Activating(c) /\ call[c].op \in Committed
  /\ call' = [call EXCEPT ![c].stage = "closing", ![c].value = "OK", ![c].known = TRUE]
  /\ UNCHANGED <<catalog, args, water, pin, unavailable, gate, calls>>

\* MUTANT: a candidate may be an archive that was selected before.
NeverRetained(c) == TRUE
Fresh(c) == Reviewed(c).candidate \notin retained

Intend(c) ==
  /\ At(c, "open") /\ Activating(c) /\ call[c].op \notin Committed
  /\ ~call[c].aborted
  /\ Current(c) /\ Fresh(c)
  /\ state' = [state EXCEPT ![call[c].op] = "prepared"]
  /\ Goes(c, "reviewing")
  /\ UNCHANGED <<head, retained, args, water, pin, unavailable, gate, calls>>

(* withActivationReview() refuses: live producers, another user of the     *)
(* candidate, a candidate or a source that differs from the review.        *)
ReviewRefuses(c) ==
  /\ At(c, "reviewing")
  /\ \E value \in {"CONFLICT", "FAILED"} \cup (IF call[c].aborted THEN {"CANCELLED"} ELSE {}) :
       Yields(c, "failing", value)
  /\ UNCHANGED <<catalog, args, water, pin, unavailable, gate, calls>>

\* MUTANT: the source's history is not compared with the review.
NoFence(c) == TRUE
Fenced(c) == water[Reviewed(c).expected.archive] = Reviewed(c).water

(* The last fence and the publication transaction, which is one with it:   *)
(* durable and confirmed, durable without confirmation, or rolled back.    *)
Publish(c) ==
  /\ At(c, "reviewing")
  /\ ~call[c].aborted /\ Fenced(c) /\ Current(c)
  /\ LET durable == /\ head' = [archive |-> Receipt(Reviewed(c)).archive,
                                revision |-> Receipt(Reviewed(c)).revision, op |-> call[c].op]
                    /\ state' = [state EXCEPT ![call[c].op] = "committed"]
                    /\ retained' = retained \cup {Reviewed(c).candidate}
         unconfirmed == call' = [call EXCEPT ![c].stage = "failing", ![c].value = "FAILED",
                                             ![c].published = TRUE]
     IN \/ /\ durable
           /\ call' = [call EXCEPT ![c].stage = "closing", ![c].value = "OK",
                                   ![c].published = TRUE, ![c].known = TRUE]
        \/ durable /\ unconfirmed
        \/ unconfirmed /\ UNCHANGED catalog
  /\ UNCHANGED <<args, water, pin, unavailable, gate, calls>>

(* After a failure the operation is read back: a receipt is success, its   *)
(* absence a definite failure, and without either the outcome is unknown   *)
(* once publication was attempted.  Marking the intent failed may fail.    *)
\* MUTANT: a receipt that cannot be read counts as absent.
AbsentIfUnread(c) == FALSE
Uncertain(c) == call[c].published

Failure(c) == IF call[c].aborted THEN "CANCELLED" ELSE call[c].value
MarkFailed(o) ==
  \/ UNCHANGED state
  \/ state[o] = "prepared" /\ state' = [state EXCEPT ![o] = "failed"]

ReceiptFound(c) ==
  /\ At(c, "failing") /\ call[c].op \in Committed
  /\ call' = [call EXCEPT ![c].stage = "closing", ![c].value = "OK", ![c].known = TRUE]
  /\ UNCHANGED <<catalog, args, water, pin, unavailable, gate, calls>>

NoReceipt(c) ==
  /\ At(c, "failing") /\ call[c].op \notin Committed
  /\ Yields(c, "closing", Failure(c))
  /\ MarkFailed(call[c].op)
  /\ UNCHANGED <<head, retained, args, water, pin, unavailable, gate, calls>>

Unreadable(c) ==
  /\ At(c, "failing")
  /\ Yields(c, "closing", IF Uncertain(c) THEN "UNKNOWN_OUTCOME" ELSE Failure(c))
  /\ MarkFailed(call[c].op)
  /\ UNCHANGED <<head, retained, args, water, pin, unavailable, gate, calls>>

-----------------------------------------------------------------------------
(* The catalog closes and the gate is free; a close that fails replaces    *)
(* the answer, except that of an activation with a known receipt.          *)
Close(c) ==
  /\ At(c, "closing")
  /\ gate' = None
  /\ \/ Goes(c, "idle") /\ UNCHANGED unavailable
     \/ /\ CloseMayFail
        /\ unavailable' = [unavailable EXCEPT ![c] = TRUE]
        /\ Yields(c, "idle", IF Activating(c) /\ call[c].known THEN "OK" ELSE "FAILED")
  /\ UNCHANGED <<catalog, args, water, pin, calls>>

Abort(c) ==
  /\ call[c].stage \in {"waiting", "open", "admitted", "reviewing", "failing"}
  /\ ~call[c].aborted
  /\ call' = [call EXCEPT ![c].aborted = TRUE]
  /\ UNCHANGED <<catalog, args, water, pin, unavailable, gate, calls>>

(* The context ends, with its locks; another may take its place.           *)
Crash(c) ==
  /\ pin[c] # None
  /\ pin' = [pin EXCEPT ![c] = None]
  /\ call' = [call EXCEPT ![c] = NoCall]
  /\ unavailable' = [unavailable EXCEPT ![c] = FALSE]
  /\ gate' = IF gate = c THEN None ELSE gate
  /\ UNCHANGED <<catalog, args, water, calls>>

-----------------------------------------------------------------------------
Guarded(c) == Admit(c) \/ Write(c) \/ Refuse(c)
Activation(c) ==
  \/ Replay(c) \/ Intend(c) \/ ReviewRefuses(c) \/ Publish(c)
  \/ ReceiptFound(c) \/ NoReceipt(c) \/ Unreadable(c)

Next ==
  \/ Inquire
  \/ \E c \in Context :
       \/ Open(c) \/ AskWrite(c) \/ Enter(c) \/ OpenFails(c)
       \/ Guarded(c) \/ Activation(c) \/ Close(c) \/ Abort(c) \/ Crash(c)
       \/ \E o \in Operation : Review(c, o) \/ AskActivation(c, o)

Spec == Init /\ [][Next]_vars

-----------------------------------------------------------------------------
(* What current() demands of the catalog each time it opens, and would     *)
(* refuse to work without: the head has its receipt and is retained, and   *)
(* the committed operations form one line from the default archive to it,  *)
(* on which no archive occurs twice.                                       *)
Lineage ==
  /\ head.revision = Cardinality(Committed)
  /\ retained = {Default} \cup {args[o].candidate : o \in Committed}
  /\ IF head.op = None THEN Selected = [archive |-> Default, revision |-> 0]
                       ELSE head.op \in Committed /\ Selected = Receipt(args[head.op])
  /\ \A o, p \in Committed :
       o # p => args[o].candidate # args[p].candidate
                  /\ args[o].expected.revision # args[p].expected.revision

(* A replaced archive is what was reviewed: nothing was written to it      *)
(* between the review and the switch, by whatever context and however      *)
(* delayed, and nothing is written to it afterwards.                       *)
SourceFrozen ==
  \A o \in Committed : water[args[o].expected.archive] = args[o].water

(* An intent is prepared only while its activation runs, or until somebody *)
(* opens the catalog after its context ended.                              *)
PreparedIsRunning ==
  \A o \in Operation : state[o] = "prepared" /\ gate # None => call[gate].op = o

(* What is said of an activation is true when it is said: success of a     *)
(* committed one, cancellation or conflict of one that is not, although    *)
(* confirmations are lost, receipts unreadable, calls aborted and retried. *)
Ends(c) == call[c].stage # "idle" /\ call'[c].stage = "idle" /\ pin'[c] # None
AnswersTrue ==
  [][\A c \in Context : Ends(c) /\ Activating(c) =>
       /\ call'[c].value = "OK" => call[c].op \in Committed
       /\ call'[c].value \in {"CANCELLED", "CONFLICT"} => call[c].op \notin Committed]_vars

(* The catalog with its contexts acts as the register.                     *)
Register == INSTANCE SelectionRegister
              WITH selected <- Selected, written <- water, reviewed <- args
ActsAsRegister == Register!Spec
=============================================================================
