--------------------------- MODULE ChatController ---------------------------
(***************************************************************************)
(* The chat workflow of one tab: a user turn is saved, one attempt or      *)
(* several compared ones are created, selected, checked and sent to their  *)
(* providers, and a fallback may follow; the user stops it, the tab goes,  *)
(* and another tab changes the same conversation at any moment.            *)
(*                                                                         *)
(* packages/app/src/workflows/chat.ts        the controller                *)
(* packages/app/src/workflows/generation.ts  lease and registration        *)
(* packages/providers/src/generation.ts      creation and onCreated        *)
(* packages/providers/src/adapter.ts         the checks before dispatch    *)
(* packages/app/src/runtime/library.ts       commit and its pending batch  *)
(*                                                                         *)
(* Every await is a step boundary.  Requests, regions, costs and reports   *)
(* are reduced to a refusal that may come where they are looked at; the    *)
(* checkpoints of a stream are those of GenerationRun.                     *)
(***************************************************************************)
EXTENDS Integers

CONSTANTS
  MaxOps,      \* operations of a behaviour (bound)
  MaxForeign   \* changes made by another tab (bound)

ASSUME BoundAssumption == MaxOps \in Nat /\ MaxForeign \in Nat

(* Of one operation: the first attempt, and the fallback or second answer. *)
Attempt == {1, 2}
Over == {"completed", "failed", "cancelled", "thrown"}
Started == {"create", "select", "prepare", "staged", "sent"}

VARIABLES
  thread,     \* canonical: revision, context, policy (routing profile), leaf
  op,         \* the operation that makes the controller busy
  step,       \* where it is
  plan,       \* it has a fallback plan
  mine,       \* the thread as the operation saw it
  att,        \* its attempts
  run, runs,  \* the attempts that stop() reaches
  cancelled, disposed,
  pending,    \* the library holds a batch of unknown outcome
  ops, foreign,
  halted,     \* ghost: the user stopped this operation, or the tab went
  begun       \* ghost: changes of the other tab when the thread was seen

vars == <<thread, op, step, plan, mine, att, run, runs, cancelled, disposed, pending, ops, foreign,
          halted, begun>>

MaxRevision == 3 * MaxOps + MaxForeign
Thread == [revision : 0 .. MaxRevision, context : 0 .. MaxForeign, policy : 0 .. MaxForeign,
           leaf : {"old", "turn", "answer", "other"}]
Record ==
  [pc : {"none", "view", "lease"} \cup Started \cup Over,
   seen : 0 .. MaxRevision,     \* revision it expects
   policy : 0 .. MaxForeign,    \* routing profile it was checked under
   stopped : BOOLEAN,           \* its run was cancelled
   sent : BOOLEAN,              \* ghost: it reached the provider
   chosen : 0 .. MaxForeign]    \* ghost: changes of the other tab when it was selected

(* Types; an idle controller has no attempt on its way.                    *)
TypeOK ==
  /\ thread \in Thread /\ mine \in Thread
  /\ op \in {"none", "send", "compare", "regenerate"}
  /\ step \in {"idle", "viewing", "reading", "saving", "attempts", "deciding"}
  /\ att \in [Attempt -> Record]
  /\ run \in {0} \cup Attempt /\ runs \subseteq Attempt
  /\ plan \in BOOLEAN /\ pending \in BOOLEAN
  /\ cancelled \in BOOLEAN /\ disposed \in BOOLEAN /\ halted \in BOOLEAN
  /\ ops \in 0 .. MaxOps /\ foreign \in 0 .. MaxForeign /\ begun \in 0 .. MaxForeign
  /\ op = "none" <=> step = "idle"
  /\ op = "none" => runs = {} /\ \A a \in Attempt : att[a].pc \in Over \cup {"none"}

NoAttempt == [pc |-> "none", seen |-> 0, policy |-> 0, stopped |-> FALSE, sent |-> FALSE, chosen |-> 0]
Init ==
  /\ thread = [revision |-> 0, context |-> 0, policy |-> 0, leaf |-> "old"]
  /\ mine = thread
  /\ op = "none" /\ step = "idle" /\ plan = FALSE
  /\ att = [a \in Attempt |-> NoAttempt]
  /\ run = 0 /\ runs = {}
  /\ cancelled = FALSE /\ disposed = FALSE /\ pending = FALSE
  /\ ops = 0 /\ foreign = 0 /\ halted = FALSE /\ begun = 0

Halting == cancelled \/ disposed
Compared == op = "compare"
Running(a) == att[a].pc \in Started
Unfinished(a) == att[a].pc \notin Over \cup {"none"}
Select(leaf) == thread' = [thread EXCEPT !.leaf = leaf, !.revision = @ + 1]
Flags == <<cancelled, disposed>>
Ghosts == <<ops, foreign, halted, begun>>
-----------------------------------------------------------------------------
(* The operation.  A turn starts from the conversation the user sees; a    *)
(* regeneration or a critique reads it once it is busy, and nothing asks   *)
(* whether that is still what the user saw.                                *)
Idle == op = "none" /\ ~disposed
Sees == mine' = thread /\ begun' = foreign
Start(kind) ==
  /\ Idle /\ ops < MaxOps
  /\ op' = kind
  /\ \/ kind # "regenerate" /\ step' = "reading" /\ Sees
     \/ kind = "regenerate" /\ step' = "viewing" /\ UNCHANGED <<mine, begun>>
  /\ plan' \in IF kind = "compare" THEN {FALSE} ELSE BOOLEAN
  /\ att' = [a \in Attempt |-> NoAttempt]
  /\ cancelled' = FALSE /\ halted' = FALSE
  /\ ops' = ops + 1
  /\ UNCHANGED <<thread, run, runs, disposed, pending, foreign>>

Finish ==
  /\ op' = "none" /\ step' = "idle"
  /\ run' = IF Compared THEN run ELSE 0
ReadThread ==
  /\ step = "viewing"
  /\ \/ Finish /\ UNCHANGED <<mine, begun>>
     \/ step' = "reading" /\ Sees /\ UNCHANGED <<op, run>>
  /\ UNCHANGED <<thread, plan, att, runs, Flags, pending, ops, foreign, halted>>

Launch(S, revision) ==
  /\ step' = "attempts"
  /\ att' = [a \in Attempt |-> IF a \in S THEN [NoAttempt EXCEPT !.pc = "view", !.seen = revision]
                              ELSE att[a]]

(* The branch is read and the request is composed, priced and checked; a   *)
(* stop ends that, and so does whatever cannot be read or is not allowed.  *)
ReadPath ==
  /\ step = "reading"
  /\ \/ Finish /\ UNCHANGED att
     \/ ~Halting /\ op # "regenerate" /\ step' = "saving" /\ UNCHANGED <<op, att, run>>
     \/ op = "regenerate" /\ Launch({1}, mine.revision) /\ UNCHANGED <<op, run>>
  /\ UNCHANGED <<thread, plan, mine, runs, Flags, pending, Ghosts>>

(* library.commit(): a batch of unknown outcome blocks the next one.  The  *)
(* batch or the view loaded after it may fail, before or after the effect. *)
\* MUTANT: the revision that was read is not sent with the batch.
Unfenced(revision) == ~pending
Commits(revision) == ~pending /\ thread.revision = revision
SaveTurn ==
  /\ step = "saving"
  /\ \/ /\ Commits(mine.revision)
        /\ Select("turn")
        /\ Launch(IF Compared THEN Attempt ELSE {1}, mine.revision + 1)
        /\ UNCHANGED <<op, run, pending>>
     \/ /\ ~Commits(mine.revision)
        /\ Finish /\ UNCHANGED <<thread, att, pending>>
     \/ /\ Commits(mine.revision)
        /\ pending' \in BOOLEAN
        /\ Select("turn") \/ UNCHANGED thread
        /\ Finish /\ UNCHANGED att
  /\ UNCHANGED <<plan, mine, runs, Flags, Ghosts>>

(* fallbackAfter(): its first look, and the choice it awaits.              *)
Primary == att[1].pc
\* MUTANT: the first answer ends the operation.
AnyOver == \E a \in Attempt : att[a].pc \in Over
AllOver == \A a \in Attempt : ~Unfinished(a)
MayFallBack == plan /\ Primary # "completed" /\ ~Halting
AfterAttempts ==
  /\ step = "attempts" /\ AllOver
  /\ IF ~Compared /\ att[2].pc = "none" /\ Primary # "thrown" /\ MayFallBack
     THEN step' = "deciding" /\ UNCHANGED <<op, run>>
     ELSE Finish
  /\ UNCHANGED <<thread, plan, mine, att, runs, Flags, pending, Ghosts>>
Decide ==
  /\ step = "deciding"
  /\ \/ Primary # "cancelled" /\ Launch({2}, thread.revision) /\ UNCHANGED <<op, run>>
     \/ Finish /\ UNCHANGED att
  /\ UNCHANGED <<thread, plan, mine, runs, Flags, pending, Ghosts>>
-----------------------------------------------------------------------------
(* attempt(): each of its awaits.                                          *)
At(a, pc) == att[a].pc = pc
Goes(a, pc) == att' = [att EXCEPT ![a].pc = pc]
(* The attempt is over and leaves the set of compared runs.                *)
Ends(a, how) == Goes(a, how) /\ runs' = runs \ {a}
Kept == <<op, step, plan, mine, Flags, Ghosts>>

(* readThreadView and the comparison with what was reviewed.               *)
AsReviewed(a) == (Compared \/ thread.revision = att[a].seen) /\ thread.context = mine.context
View(a) ==
  /\ At(a, "view")
  /\ \/ Ends(a, "thrown")
     \/ /\ AsReviewed(a) /\ ~Halting
        /\ att' = [att EXCEPT ![a].pc = "lease", ![a].policy = thread.policy,
                              ![a].seen = thread.revision]
        /\ UNCHANGED runs
  /\ UNCHANGED <<thread, run, pending, Kept>>

\* MUTANT: compared runs share the place of the single one.
OneHandle(a) == run' = a /\ UNCHANGED runs
Registers(a) == IF Compared THEN runs' = runs \cup {a} /\ UNCHANGED run
                ELSE run' = a /\ UNCHANGED runs
(* startCoordinatedGeneration(); who was stopped meanwhile is cancelled.   *)
Lease(a) ==
  /\ At(a, "lease")
  /\ \/ Ends(a, "thrown") /\ UNCHANGED run
     \/ /\ att' = [att EXCEPT ![a].pc = "create", ![a].stopped = Halting]
        /\ Registers(a)
  /\ UNCHANGED <<thread, pending, Kept>>

(* What cannot be saved is thrown.                                         *)
Fails(a) == Ends(a, "thrown") \/ Ends(a, IF att[a].stopped THEN "cancelled" ELSE "failed")
(* The attempt becomes durable; a stopped one goes no further, and what    *)
(* onCreated throws makes it a failed one.                                 *)
Create(a) ==
  /\ At(a, "create")
  /\ \/ Ends(a, "thrown")
     \/ /\ Compared \/ thread.revision = att[a].seen
        /\ IF Halting \/ att[a].stopped THEN Fails(a)
           ELSE Goes(a, IF Compared THEN "prepare" ELSE "select") /\ UNCHANGED runs
  /\ UNCHANGED <<thread, run, pending, Kept>>
SelectOutput(a) ==
  /\ At(a, "select")
  /\ \/ /\ Commits(att[a].seen)
        /\ Select("answer")
        /\ IF att[a].stopped THEN Fails(a)
           ELSE /\ att' = [att EXCEPT ![a].pc = "prepare", ![a].chosen = foreign]
                /\ UNCHANGED runs
        /\ UNCHANGED pending
     \/ ~Commits(att[a].seen) /\ Fails(a) /\ UNCHANGED <<thread, pending>>
     \/ /\ Commits(att[a].seen)
        /\ pending' \in BOOLEAN
        /\ Select("answer") \/ UNCHANGED thread
        /\ Fails(a)
  /\ UNCHANGED <<run, Kept>>

(* beforeRegionDispatch(), once by the adapter and once by the host right  *)
(* before the fetch.                                                       *)
Cleared(a) == ~Halting /\ thread.context = mine.context /\ thread.policy = att[a].policy
Prepare(a) ==
  /\ At(a, "prepare")
  /\ \/ Fails(a)
     \/ ~att[a].stopped /\ Cleared(a) /\ Goes(a, "staged") /\ UNCHANGED runs
  /\ UNCHANGED <<thread, run, pending, Kept>>
SendRequest(a) ==
  /\ At(a, "staged")
  /\ \/ Fails(a)
     \/ /\ ~att[a].stopped /\ Cleared(a)
        /\ att' = [att EXCEPT ![a].pc = "sent", ![a].sent = TRUE]
        /\ UNCHANGED runs
  /\ UNCHANGED <<thread, run, pending, Kept>>
(* The provider answers, or breaks off; a cancelled request ends anyway.   *)
Respond(a) ==
  /\ At(a, "sent") /\ ~att[a].stopped
  /\ \E how \in {"completed", "failed", "thrown"} : Ends(a, how)
  /\ UNCHANGED <<thread, run, pending, Kept>>
BreakOff(a) ==
  /\ At(a, "sent") /\ att[a].stopped
  /\ \E how \in {"completed", "cancelled", "thrown"} : Ends(a, how)
  /\ UNCHANGED <<thread, run, pending, Kept>>
-----------------------------------------------------------------------------
(* The user, and another tab.                                              *)
CancelRuns(S) ==
  att' = [a \in Attempt |-> IF a \in S /\ Running(a) THEN [att[a] EXCEPT !.stopped = TRUE] ELSE att[a]]
\* MUTANT: stop() forgets the compared runs.
OnlyRun == {run}
Reached == {run} \cup runs
Stop ==
  /\ ~cancelled
  /\ cancelled' = TRUE /\ halted' = TRUE
  /\ CancelRuns(Reached)
  /\ UNCHANGED <<thread, op, step, plan, mine, run, runs, disposed, pending, ops, foreign, begun>>
Dispose ==
  /\ ~disposed
  /\ disposed' = TRUE /\ cancelled' = TRUE /\ halted' = TRUE
  /\ CancelRuns({run})
  /\ UNCHANGED <<thread, op, step, plan, mine, run, runs, pending, ops, foreign, begun>>

\* MUTANT: a look at the branch does not wait for the operation.
AnyTime == ~disposed
Quiet == op = "none" /\ ~disposed
(* inspectSwitch(), assessPortability(), countPrompt(): a stop applies to  *)
(* what it interrupted.                                                    *)
Inspect ==
  /\ Quiet /\ cancelled
  /\ cancelled' = FALSE
  /\ UNCHANGED <<thread, op, step, plan, mine, att, run, runs, disposed, pending, Ghosts>>
(* The user settles a batch of unknown outcome.                            *)
Reconcile ==
  /\ pending /\ pending' = FALSE
  /\ UNCHANGED <<thread, op, step, plan, mine, att, run, runs, Flags, Ghosts>>
(* Another tab selects a branch, or edits the prompt or the profile.       *)
Foreign ==
  /\ foreign < MaxForeign /\ foreign' = foreign + 1
  /\ \E next \in {[thread EXCEPT !.leaf = "other"], [thread EXCEPT !.context = @ + 1],
                  [thread EXCEPT !.policy = @ + 1]} :
       thread' = [next EXCEPT !.revision = @ + 1]
  /\ UNCHANGED <<op, step, plan, mine, att, run, runs, Flags, pending, ops, halted, begun>>

Work(a) ==
  \/ View(a) \/ Lease(a) \/ Create(a) \/ SelectOutput(a) \/ Prepare(a)
  \/ SendRequest(a) \/ BreakOff(a)
Operation == ReadThread \/ ReadPath \/ SaveTurn \/ AfterAttempts \/ Decide
Next ==
  \/ \E kind \in {"send", "compare", "regenerate"} : Start(kind)
  \/ Operation
  \/ \E a \in Attempt : Work(a) \/ Respond(a)
  \/ Stop \/ Dispose \/ Inspect \/ Reconcile \/ Foreign
(* Local steps happen; a provider that was not told to stop may never end. *)
Spec == Init /\ [][Next]_vars /\ WF_vars(Operation) /\ \A a \in Attempt : WF_vars(Work(a))
-----------------------------------------------------------------------------
(* Once the user has stopped an operation, or the tab has gone, nothing of *)
(* it goes out to a provider, whatever was being read, created or staged.  *)
NothingSentAfterStop ==
  [][\A a \in Attempt : att'[a].sent /\ ~att[a].sent => ~halted]_vars

(* A stop at any moment finds every attempt that has been started: the     *)
(* single one, the fallback that took its place, or the compared ones.     *)
StopReachesAll == \A a \in Attempt : Running(a) => a \in Reached

(* An ordinary first attempt is prepared and sent only if nobody changed   *)
(* the conversation between the view of it that the operation rests on and *)
(* the selection of the attempt's output.  That view is what the user saw  *)
(* when a turn is sent, and what is read after the request for a           *)
(* regeneration or a critique: a change made in between goes unnoticed.    *)
Ordinary == op \in {"send", "regenerate"}
SentAsReviewed ==
  Ordinary /\ (att[1].pc \in {"prepare", "staged"} \/ att[1].sent) => att[1].chosen = begun

(* A stopped operation ends without the provider's help.                   *)
StopEnds == halted /\ ~disposed ~> op = "none"

(* The fallback follows a failure of the provider.                         *)
FallbackNeedsFailure == Ordinary /\ Running(2) => att[1].sent
=============================================================================
