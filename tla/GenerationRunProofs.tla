------------------------ MODULE GenerationRunProofs ------------------------
(***************************************************************************)
(* Type correctness of GenerationRun, that the committed output has no     *)
(* hole, that recovery strands no attempt, that the archive implements     *)
(* GenerationLog, that a generation its producer sealed holds every delta  *)
(* it counted and that what a run reports is durable, for every number of  *)
(* checkpoints, attempts, faults and idle flushes.                         *)
(***************************************************************************)
EXTENDS GenerationRun, SequenceTheorems, TLAPS

Late == {"settling", "releasing", "done", "crashed"}

(* Where the loop is bounds what it has counted and taken, which keeps the *)
(* batches it sends inside the bound and non-empty.                        *)
Counted ==
  /\ pc \in Late \cup {"start", "registering", "creating"} => ~timer
  /\ pc \notin Late => sequence <= MaxSequence - 1
  /\ pc \in {"draining", "hashing"} => op \in {"raw", "append", "final"}
  /\ pc = "checkpoint" => op # "none"
  /\ pc \in {"draining", "hashing", "checkpoint"} /\ op \in {"raw", "append"}
       => sequence <= MaxSequence - 2
  /\ pc = "checkpoint" => taken = (IF op = "inline" THEN sequence ELSE sequence + 1)
  /\ pc \notin Late \cup {"checkpoint"} => taken <= sequence

Batches ==
  /\ \A a \in Activity : ~Idle(a) => call[a].lo <= call[a].hi
  /\ \A i \in DOMAIN wire : wire[i].kind = "write" => wire[i].lo <= wire[i].hi

TypeInv == TypeOK /\ Counted /\ Batches

-----------------------------------------------------------------------------
(* Lemmas on the operators the actions are built from.                     *)
LEMMA ShapeTypes ==
  ASSUME NEW c \in Call, NEW a \in Activity \cup {"nobody"},
         NEW kind \in {"register", "stage", "write", "status", "release", "lost"}
  PROVE  Request(a, kind, c) \in Entry
BY DEF Request, Entry, Call

(* The idle call is a call.                                                *)
LEMMA NoCallType == NoCall \in Call
BY BoundsAssumption DEF NoCall, Call, Steps, Sequence

(* The head and the tail of a sequence.                                    *)
LEMMA HeadTail ==
  ASSUME NEW S, NEW s \in Seq(S), s # <<>>
  PROVE  /\ Head(s) \in S /\ Tail(s) \in Seq(S) /\ 1 \in DOMAIN s /\ Head(s) = s[1]
         /\ \A i \in DOMAIN Tail(s) : i + 1 \in DOMAIN s /\ Tail(s)[i] = s[i + 1]
OBVIOUS

(* The elements of a sequence one was appended to.                         *)
LEMMA AppendElements ==
  ASSUME NEW S, NEW s \in Seq(S), NEW e \in S
  PROVE  /\ Append(s, e) \in Seq(S)
         /\ \A i \in DOMAIN Append(s, e) :
              (i \in DOMAIN s /\ Append(s, e)[i] = s[i]) \/ Append(s, e)[i] = e
OBVIOUS

(* A sequence mapped element by element.                                   *)
LEMMA MappedSequence ==
  ASSUME NEW S, NEW s \in Seq(S), NEW w,
         w = [i \in DOMAIN s |-> w[i]], \A i \in DOMAIN s : w[i] \in S
  PROVE  w \in Seq(S) /\ DOMAIN w = DOMAIN s
<1>1. DOMAIN s = 1 .. Len(s) /\ Len(s) \in Nat
  OBVIOUS
<1>2. w \in [1 .. Len(s) -> S]
  BY <1>1
<1>. QED
  BY <1>1, <1>2

(* What is on the wire has the form of a request.                          *)
LEMMA WireEntries ==
  ASSUME TypeInv
  PROVE  wire \in Seq(Entry) /\ \A i \in DOMAIN wire : wire[i] \in Entry
<1>1. wire \in Seq(Entry)
  BY DEF TypeInv, TypeOK
<1>. QED
  BY <1>1

(* Requests that change nothing but their addressee or their fate.         *)
LEMMA WireMapped ==
  ASSUME TypeInv, wire' = [i \in DOMAIN wire |-> wire'[i]],
         \A i \in DOMAIN wire :
           \/ wire'[i] = wire[i]
           \/ wire'[i] = [wire[i] EXCEPT !.who = "nobody"]
           \/ wire'[i] = [wire[i] EXCEPT !.kind = "lost"]
           \/ \E kind \in {wire[i].kind, "lost"} :
                wire'[i] = [wire[i] EXCEPT !.who = "nobody", !.kind = kind]
  PROVE  /\ wire' \in Seq(Entry)
         /\ \A i \in DOMAIN wire' : wire'[i].kind = "write" => wire'[i].lo <= wire'[i].hi
<1>1. wire \in Seq(Entry) /\ \A i \in DOMAIN wire : wire[i] \in Entry
  BY WireEntries
<1>2. ASSUME NEW i \in DOMAIN wire
      PROVE  wire'[i] \in Entry
  <2>1. wire[i] \in Entry
    BY <1>1
  <2>2. [wire[i] EXCEPT !.who = "nobody"] \in Entry /\ [wire[i] EXCEPT !.kind = "lost"] \in Entry
    BY <2>1 DEF Entry
  <2>3. \A kind \in {wire[i].kind, "lost"} :
          [wire[i] EXCEPT !.who = "nobody", !.kind = kind] \in Entry
    BY <2>1 DEF Entry
  <2>. QED
    BY <2>1, <2>2, <2>3
<1>3. wire' \in Seq(Entry) /\ DOMAIN wire' = DOMAIN wire
  BY <1>1, <1>2, MappedSequence
<1>4. \A i \in DOMAIN wire : wire'[i].kind = "write" => wire[i].kind = "write"
        /\ wire'[i].lo = wire[i].lo /\ wire'[i].hi = wire[i].hi
  BY <1>1 DEF Entry
<1>. QED
  BY <1>3, <1>4 DEF TypeInv, Batches

Answer == [who : Activity, answer : {"yes", "no", "conflict", "unknown"}]

(* An answer on its way keeps the types of replies.                        *)
LEMMA AnsweredType ==
  ASSUME replies \in Seq(Answer), NEW e \in Entry,
         NEW answer \in {"yes", "no", "conflict", "unknown"}
  PROVE  Answered(e, answer) \in Seq(Answer)
BY AppendElements DEF Answered, Answer, Entry

(* A reply that is taken keeps the types.                                  *)
LEMMA ReplyType ==
  ASSUME replies \in Seq(Answer), NEW a, Reply(a) # "none"
  PROVE  /\ replies # <<>> /\ Tail(replies) \in Seq(Answer)
         /\ Reply(a) \in {"yes", "no", "conflict", "unknown"}
         /\ Reply(a) = replies[1].answer /\ 1 \in DOMAIN replies
<1>1. replies # <<>> /\ Reply(a) = Head(replies).answer
  BY DEF Reply
<1>2. Head(replies) \in Answer /\ Tail(replies) \in Seq(Answer)
      /\ Head(replies) = replies[1] /\ 1 \in DOMAIN replies
  BY <1>1, HeadTail
<1>. QED
  BY <1>1, <1>2 DEF Answer

(* What commit() does next keeps the batch it is about.                    *)
LEMMA NextStepType ==
  ASSUME NEW c \in Call, NEW answer, c.step # "idle",
         c.step = "probe" => c.attempt + 1 < MaxAttempts
  PROVE  /\ NextStep(c, answer) \in Call
         /\ NextStep(c, answer).step \in Steps \ {"idle"}
         /\ NextStep(c, answer).lo = c.lo /\ NextStep(c, answer).hi = c.hi
<1>1. CASE c.step = "stage" /\ answer = "yes"
  BY <1>1 DEF NextStep, Call, Steps
<1>2. CASE c.step = "probe"
  <2>1. NextStep(c, answer) = [c EXCEPT !.step = "recheck", !.attempt = c.attempt + 1]
    BY <1>2 DEF NextStep
  <2>2. c.attempt + 1 \in 0 .. MaxAttempts - 1
    BY <1>2, BoundsAssumption DEF Call
  <2>. QED
    BY <2>1, <2>2 DEF Call, Steps
<1>3. CASE c.step = "recheck" /\ answer = "no"
  BY <1>3 DEF NextStep, Call, Steps
<1>4. CASE /\ ~(c.step = "stage" /\ answer = "yes")
           /\ c.step # "probe"
           /\ ~(c.step = "recheck" /\ answer = "no")
  BY <1>4 DEF NextStep, Call, Steps
<1>. QED
  BY <1>1, <1>2, <1>3, <1>4

-----------------------------------------------------------------------------
(* Every action keeps the types.                                           *)
LEMMA RetryTyped ==
  ASSUME TypeInv, NEW a \in Activity, Retry(a)
  PROVE  TypeInv'
<1>. DEFINE next == NextStep(call[a], Reply(a))
            kind == IF next.step \in {"probe", "recheck"} THEN "status" ELSE next.step
<1>1. call[a] \in Call /\ call[a].step # "idle"
      /\ (call[a].step = "probe" => call[a].attempt + 1 < MaxAttempts)
  BY BoundsAssumption DEF TypeInv, TypeOK, Call, Retry, Continues, GaveUp, Done, Idle
<1>2. /\ next \in Call /\ next.step \in Steps \ {"idle"}
      /\ next.lo = call[a].lo /\ next.hi = call[a].hi
  BY <1>1, NextStepType
<1>3. kind \in {"stage", "write", "status"}
  BY <1>2 DEF Steps
<1>4. Request(a, kind, next) \in Entry
  BY <1>2, <1>3, ShapeTypes
<1>5. /\ call' = [call EXCEPT ![a] = next]
      /\ replies' = Tail(replies)
      /\ wire' = Append(wire, Request(a, kind, next))
      /\ Reply(a) # "none"
      /\ UNCHANGED <<producerVars, lease, archiveVars, admitted, faults>>
  BY DEF Retry, Continues
<1>6. TypeOK'
  BY <1>2, <1>4, <1>5, ReplyType, AppendElements
  DEF TypeInv, TypeOK, producerVars, archiveVars, Answer
<1>7. Counted'
  BY <1>5 DEF TypeInv, Counted, producerVars
<1>8. Request(a, kind, next).lo = call[a].lo /\ Request(a, kind, next).hi = call[a].hi
      /\ call[a].lo <= call[a].hi
  BY <1>1, <1>2 DEF Request, TypeInv, Batches, Idle
<1>9. Batches'
  <2>1. \A b \in Activity : ~Idle(b)' => call'[b].lo <= call'[b].hi
    BY <1>2, <1>5, <1>8 DEF TypeInv, TypeOK, Batches, Idle
  <2>2. \A i \in DOMAIN wire' : wire'[i].kind = "write" => wire'[i].lo <= wire'[i].hi
    BY <1>4, <1>5, <1>8, AppendElements DEF TypeInv, TypeOK, Batches
  <2>. QED
    BY <2>1, <2>2 DEF Batches
<1>. QED
  BY <1>6, <1>7, <1>9 DEF TypeInv

(* Sending a new batch: the common part of its four senders.               *)
LEMMA StartCommitTyped ==
  ASSUME TypeInv, NEW a \in Activity, NEW first \in {"stage", "write"},
         NEW lo \in 0 .. MaxSequence, NEW hi \in 0 .. MaxSequence, NEW final \in BOOLEAN,
         lo <= hi, StartCommit(a, first, lo, hi, final)
  PROVE  /\ call' \in [Activity -> Call] /\ wire' \in Seq(Entry)
         /\ Batches'
<1>. DEFINE c == [step |-> first, first |-> first, lo |-> lo, hi |-> hi, final |-> final,
                  attempt |-> 0]
<1>1. c \in Call
  BY BoundsAssumption DEF Call, Steps, Sequence
<1>2. Request(a, first, c) \in Entry
  BY <1>1, ShapeTypes
<1>3. call' = [call EXCEPT ![a] = c] /\ wire' = Append(wire, Request(a, first, c))
  BY DEF StartCommit
<1>4. call' \in [Activity -> Call] /\ wire' \in Seq(Entry)
  BY <1>1, <1>2, <1>3, AppendElements DEF TypeInv, TypeOK
<1>5. \A b \in Activity : ~Idle(b)' => call'[b].lo <= call'[b].hi
  BY <1>3 DEF TypeInv, TypeOK, Batches, Idle
<1>6. \A i \in DOMAIN wire' : wire'[i].kind = "write" => wire'[i].lo <= wire'[i].hi
  BY <1>2, <1>3, AppendElements DEF TypeInv, TypeOK, Batches, Request
<1>. QED
  BY <1>4, <1>5, <1>6 DEF Batches

(* A commit() that returns or throws.                                      *)
LEMMA ReturnsTyped ==
  ASSUME TypeInv, NEW a \in Activity, NEW ok, Returns(a, ok)
  PROVE  /\ call' \in [Activity -> Call] /\ replies' \in Seq(Answer)
         /\ \A b \in Activity : ~Idle(b)' => call'[b].lo <= call'[b].hi
<1>1. Reply(a) # "none"
  BY DEF Returns, Done
<1>2. replies' \in Seq(Answer)
  BY <1>1, ReplyType DEF Returns, TypeInv, TypeOK, Answer
<1>3. call' \in [Activity -> Call]
  BY NoCallType DEF Returns, TypeInv, TypeOK
<1>4. \A b \in Activity : ~Idle(b)' => call'[b].lo <= call'[b].hi
  BY DEF Returns, TypeInv, TypeOK, Batches, Idle, NoCall
<1>. QED
  BY <1>2, <1>3, <1>4

(* Sending a checkpoint keeps the types,                                   *)
LEMMA SendCheckpointTyped ==
  ASSUME TypeInv, StartCheckpoint, taken <= sequence, sequence <= MaxSequence - 1
  PROVE  /\ call' \in [Activity -> Call] /\ wire' \in Seq(Entry)
         /\ Batches'
<1>1. /\ taken + 1 \in 0 .. MaxSequence /\ sequence + 1 \in 0 .. MaxSequence
      /\ taken + 1 <= sequence + 1
  BY BoundsAssumption DEF TypeInv, TypeOK
<1>2. "loop" \in Activity
  BY DEF Activity
<1>. QED
  BY <1>1, <1>2, StartCommitTyped DEF StartCheckpoint

(* and so does any send.                                                   *)
LEMMA SendTyped ==
  ASSUME TypeInv, NEW kind \in {"register", "release"},
         wire' = Append(wire, Request("loop", kind, NoCall)), UNCHANGED call
  PROVE  wire' \in Seq(Entry) /\ Batches'
<1>1. Request("loop", kind, NoCall) \in Entry /\ Request("loop", kind, NoCall).kind = kind
  BY ShapeTypes, NoCallType DEF Activity, Request
<1>. QED
  BY <1>1, AppendElements DEF TypeInv, TypeOK, Batches, Idle

(* The loop's steps keep the types.                                        *)
LEMMA LoopTyped ==
  ASSUME TypeInv, Loop
  PROVE  TypeInv'
<1>. USE DEF TypeInv
<1>0. "loop" \in Activity
  BY DEF Activity
<1>1. CASE AcquireLease
  <2>1. wire' \in Seq(Entry) /\ Batches'
    BY <1>1, SendTyped DEF AcquireLease
  <2>. QED
    BY <1>1, <2>1 DEF AcquireLease, TypeOK, Counted, archiveVars, Late
<1>2. CASE Registered
  <2>1. Tail(replies) \in Seq(Answer)
    BY <1>2, ReplyType DEF Registered, TypeOK, Answer
  <2>2. CASE Reply("loop") = "yes"
    <3>1. StartCommit("loop", "write", 0, 0, FALSE)
      BY <1>2, <2>2 DEF Registered
    <3>2. call' \in [Activity -> Call] /\ wire' \in Seq(Entry) /\ Batches'
      <4>1. 0 \in 0 .. MaxSequence /\ 0 <= 0
        BY BoundsAssumption
      <4>. QED
        BY <1>0, <3>1, <4>1, StartCommitTyped
    <3>3. /\ pc = "registering" /\ pc' = "creating" /\ replies' = Tail(replies)
          /\ UNCHANGED <<op, sequence, taken, timer, committing, flushFailed, told, outcome,
                         lease, row, last, receipts, seal, admitted, faults>>
      BY <1>2, <2>2 DEF Registered, archiveVars
    <3>4. TypeOK'
      BY <2>1, <3>2, <3>3 DEF TypeOK, Answer
    <3>5. Counted'
      BY <3>3 DEF Counted, Late
    <3>. QED
      BY <3>2, <3>4, <3>5
  <2>3. CASE Reply("loop") # "yes"
    <3>1. /\ pc = "registering" /\ pc' = "settling" /\ replies' = Tail(replies)
          /\ outcome' = "failed"
          /\ UNCHANGED <<op, sequence, taken, timer, committing, flushFailed, told,
                         lease, row, last, receipts, seal, admitted, faults, call, wire>>
      BY <1>2, <2>3 DEF Registered, archiveVars
    <3>2. TypeOK'
      BY <2>1, <3>1 DEF TypeOK, Answer
    <3>3. ~timer
      BY <3>1 DEF Counted
    <3>4. Counted' /\ Batches'
      BY <3>1, <3>3 DEF Counted, Batches, Idle, Late
    <3>. QED
      BY <3>2, <3>4
  <2>. QED
    BY <2>2, <2>3
<1>3. CASE Created
  <2>1. /\ call' \in [Activity -> Call] /\ replies' \in Seq(Answer)
        /\ \A b \in Activity : ~Idle(b)' => call'[b].lo <= call'[b].hi
    BY <1>0, <1>3, ReturnsTyped DEF Created
  <2>2. TypeOK'
    BY <1>3, <2>1 DEF Created, TypeOK, archiveVars, Answer, Sequence
  <2>3. Counted' /\ Batches'
    BY <1>3, <2>1 DEF Created, Counted, Batches, Late
  <2>. QED
    BY <2>2, <2>3
<1>4. CASE Settled
  <2>1. CASE op = "append" /\ ~flushFailed
    <3>1. call' \in [Activity -> Call] /\ wire' \in Seq(Entry) /\ Batches'
      BY <1>4, <2>1, SendCheckpointTyped DEF Settled, SendCheckpoint, Counted, Late
    <3>. QED
      BY <1>4, <2>1, <3>1, BoundsAssumption
      DEF Settled, SendCheckpoint, TypeOK, Counted, archiveVars, Late
  <2>2. CASE op # "append" \/ flushFailed
    BY ZenonT(60), <1>4, <2>2
    DEF Settled, SendCheckpoint, TypeOK, Counted, Batches, Idle, archiveVars, Late
  <2>. QED
    BY <2>1, <2>2
<1>5. CASE Hashed
  <2>1. CASE ~flushFailed
    <3>1. call' \in [Activity -> Call] /\ wire' \in Seq(Entry) /\ Batches'
      BY <1>5, <2>1, SendCheckpointTyped DEF Hashed, SendCheckpoint, Counted, Late
    <3>. QED
      BY <1>5, <2>1, <3>1, BoundsAssumption
      DEF Hashed, SendCheckpoint, TypeOK, Counted, archiveVars, Late
  <2>2. CASE flushFailed
    BY <1>5, <2>2
    DEF Hashed, SendCheckpoint, TypeOK, Counted, Batches, Idle, archiveVars, Late
  <2>. QED
    BY <2>1, <2>2
<1>6. CASE Checkpointed
  <2>1. /\ call' \in [Activity -> Call] /\ replies' \in Seq(Answer)
        /\ \A b \in Activity : ~Idle(b)' => call'[b].lo <= call'[b].hi
    BY <1>0, <1>6, ReturnsTyped DEF Checkpointed
  <2>2. sequence' \in 0 .. MaxSequence
        /\ (op # "final" => sequence' <= MaxSequence - 1 /\ taken <= sequence')
    BY <1>6, BoundsAssumption DEF Checkpointed, TypeOK, Counted, Late
  <2>3. TypeOK'
    <3>1. told' \in Sequence /\ committing' \in BOOLEAN
      <4>1. told' = sequence' /\ committing' \in {FALSE, committing}
        BY <1>6 DEF Checkpointed
      <4>2. told' \in Sequence
        BY <2>2, <4>1, BoundsAssumption DEF Sequence
      <4>. QED
        BY <4>1, <4>2 DEF TypeOK
    <3>2. /\ pc' \in {"settling", "streaming"} /\ outcome' \in {"persisted", outcome}
          /\ timer' \in {FALSE, timer} /\ op' = "none"
          /\ UNCHANGED <<taken, flushFailed, lease, wire, row, last, receipts, seal, admitted, faults>>
      BY <1>6 DEF Checkpointed, archiveVars
    <3>3. /\ timer' \in BOOLEAN /\ flushFailed' \in BOOLEAN /\ lease' \in BOOLEAN
          /\ admitted' \in BOOLEAN
      BY Zenon, <3>2 DEF TypeOK
    <3>. QED
      BY <2>1, <2>2, <3>1, <3>2, <3>3 DEF TypeOK, Answer
  <2>4. Counted' /\ Batches'
    BY <1>6, <2>1, <2>2 DEF Checkpointed, Counted, Batches, Late
  <2>. QED
    BY <2>3, <2>4
<1>7. CASE RunFails
  BY <1>0, <1>7, ReturnsTyped
  DEF RunFails, TypeOK, Counted, Batches, archiveVars, Late, Answer
<1>8. CASE Settle
  <2>1. wire' \in Seq(Entry) /\ Batches'
    BY <1>8, SendTyped DEF Settle
  <2>. QED
    BY <1>8, <2>1 DEF Settle, TypeOK, Counted, archiveVars, Late
<1>9. CASE ReleaseLease
  <2>1. Tail(replies) \in Seq(Answer)
    BY <1>9, ReplyType DEF ReleaseLease, TypeOK, Answer
  <2>. QED
    BY ZenonT(60), <1>9, <2>1
    DEF ReleaseLease, TypeOK, Counted, Batches, Idle, archiveVars, Late, Answer
<1>. QED
  BY <1>1, <1>2, <1>3, <1>4, <1>5, <1>6, <1>7, <1>8, <1>9 DEF Loop

(* The provider's steps keep the types.                                    *)
LEMMA ProviderTyped ==
  ASSUME TypeInv, Provider
  PROVE  TypeInv'
<1>. USE DEF TypeInv
<1>1. CASE Text
  <2>1. sequence + 1 \in 0 .. MaxSequence /\ sequence + 1 <= MaxSequence - 1
    BY <1>1, BoundsAssumption DEF Text, TypeOK
  <2>2. CASE op' = "inline" /\ StartCheckpoint
    <3>1. /\ pc = "streaming" /\ pc' = "checkpoint" /\ op' = "inline" /\ committing' = TRUE
          /\ taken' = sequence + 1 /\ sequence' = sequence + 1
          /\ UNCHANGED <<timer, outcome, flushFailed, told, replies, lease, row, last,
                         receipts, seal, admitted, faults>>
      BY <1>1, <2>2 DEF Text, archiveVars, StartCheckpoint, StartCommit
    <3>2. call' \in [Activity -> Call] /\ wire' \in Seq(Entry) /\ Batches'
      BY <2>1, <2>2, <3>1, SendCheckpointTyped DEF Counted, Late
    <3>3. TypeOK' /\ Counted'
      BY <2>1, <3>1, <3>2 DEF TypeOK, Counted, Late
    <3>. QED
      BY <3>2, <3>3
  <2>3. CASE ~(op' = "inline" /\ StartCheckpoint)
    <3>1. /\ pc = "streaming" /\ pc' \in {"settling", "streaming"}
          /\ pc' = "settling" => timer' = FALSE
          /\ timer' \in BOOLEAN /\ outcome' \in {"failed", outcome}
          /\ sequence' = sequence + 1
          /\ UNCHANGED <<op, taken, committing, call, wire, flushFailed, told, replies, lease,
                         row, last, receipts, seal, admitted, faults>>
      BY <1>1, <2>3 DEF Text, archiveVars
    <3>2. TypeOK'
      BY <2>1, <3>1 DEF TypeOK
    <3>3. Counted' /\ Batches'
      BY <2>1, <3>1 DEF TypeOK, Counted, Batches, Idle, Late
    <3>. QED
      BY <3>2, <3>3
  <2>. QED
    BY <2>2, <2>3
<1>2. ASSUME NEW kind \in {"raw", "append", "final"}, Checkpoint(kind)
      PROVE  TypeInv'
  BY <1>2, BoundsAssumption
  DEF Checkpoint, TypeOK, Counted, Batches, Idle, archiveVars, Late
<1>. QED
  BY <1>1, <1>2 DEF Provider

(* The idle flush keeps the types.                                         *)
LEMMA FlushTyped ==
  ASSUME TypeInv, TimerFires \/ FlushEnds
  PROVE  TypeInv'
<1>. USE DEF TypeInv
<1>1. CASE TimerFires /\ UNCHANGED taken
  <2>1. CASE UNCHANGED <<taken, committing, call, wire>>
    <3>1. /\ timer' = FALSE
          /\ UNCHANGED <<pc, op, sequence, taken, committing, flushFailed, told, outcome, call,
                         replies, lease, wire, row, last, receipts, seal, admitted, faults>>
      BY <1>1, <2>1 DEF TimerFires, archiveVars
    <3>2. TypeOK'
      <4>1. timer' \in BOOLEAN
        BY <3>1
      <4>2. TypeOK
        OBVIOUS
      <4>. QED
        BY <3>1, <4>1, <4>2 DEF TypeOK
    <3>3. Counted' /\ Batches'
      BY <3>1 DEF Counted, Batches, Idle, Late
    <3>. QED
      BY <3>2, <3>3
  <2>2. CASE Pending # {} /\ taken' = sequence
    BY <1>1, <2>2 DEF Pending, TypeOK
  <2>. QED
    BY <1>1, <2>1, <2>2 DEF TimerFires
<1>2. CASE TimerFires /\ ~UNCHANGED taken
  <2>1. /\ timer /\ timer' = FALSE /\ committing' = TRUE /\ taken' = sequence /\ Pending # {}
        /\ \E f \in Flusher : StartCommit(f, "write", taken + 1, sequence, FALSE)
        /\ UNCHANGED <<pc, op, sequence, flushFailed, told, outcome, replies, lease, row, last,
                       receipts, seal, admitted, faults>>
    BY <1>2 DEF TimerFires, archiveVars
  <2>2. taken + 1 \in 0 .. MaxSequence /\ sequence \in 0 .. MaxSequence /\ taken + 1 <= sequence
    BY <2>1, BoundsAssumption DEF Pending, TypeOK
  <2>3. call' \in [Activity -> Call] /\ wire' \in Seq(Entry) /\ Batches'
    BY <2>1, <2>2, StartCommitTyped DEF Activity
  <2>4. TypeOK'
    <3>1. timer' \in BOOLEAN /\ committing' \in BOOLEAN /\ taken' \in 0 .. MaxSequence
      BY <2>1, <2>2
    <3>. QED
      BY <2>1, <2>3, <3>1 DEF TypeOK
  <2>5. Counted'
    BY <2>1, <2>2 DEF Counted, TypeOK, Late
  <2>. QED
    BY <2>3, <2>4, <2>5
<1>3. ASSUME NEW f \in Flusher, Flushed(f) \/ FlushFails(f)
      PROVE  TypeInv'
  <2>1. f \in Activity /\ \E ok \in BOOLEAN : Returns(f, ok)
    BY <1>3 DEF Activity, Flushed, FlushFails
  <2>2. /\ call' \in [Activity -> Call] /\ replies' \in Seq(Answer)
        /\ \A b \in Activity : ~Idle(b)' => call'[b].lo <= call'[b].hi
    BY <2>1, ReturnsTyped
  <2>3. /\ committing' = FALSE /\ told' \in {told, sequence} /\ flushFailed' \in {flushFailed, TRUE}
        /\ UNCHANGED <<pc, op, sequence, taken, timer, outcome, lease, wire, row, last,
                       receipts, seal, admitted, faults>>
    BY <1>3 DEF Flushed, FlushFails, archiveVars
  <2>4. TypeOK'
    <3>1. told' \in Sequence
      BY <2>3, BoundsAssumption DEF TypeOK, Sequence
    <3>2. flushFailed' \in BOOLEAN /\ committing' \in BOOLEAN
      BY <2>3 DEF TypeOK
    <3>. QED
      BY <2>2, <2>3, <3>1, <3>2 DEF TypeOK, Answer
  <2>5. Counted' /\ Batches'
    BY <2>2, <2>3 DEF Counted, Batches, Late
  <2>. QED
    BY <2>4, <2>5
<1>. QED
  BY <1>1, <1>2, <1>3 DEF FlushEnds

(* Losing the context keeps the types.                                     *)
LEMMA ContextLostTyped ==
  ASSUME TypeInv, ContextLost
  PROVE  TypeInv'
<1>. USE DEF TypeInv
<1>1. call' \in [Activity -> Call] /\ \A a \in Activity : call'[a] = NoCall
  BY NoCallType DEF ContextLost
<1>2. /\ wire' \in Seq(Entry)
      /\ \A i \in DOMAIN wire' : wire'[i].kind = "write" => wire'[i].lo <= wire'[i].hi
  BY WireMapped DEF ContextLost
<1>3. /\ pc' = "crashed" /\ lease' = FALSE /\ timer' = FALSE /\ replies' = <<>>
      /\ UNCHANGED <<op, sequence, taken, committing, flushFailed, told, outcome, row, last,
                     receipts, seal, admitted, faults>>
  BY DEF ContextLost, archiveVars
<1>4. TypeOK'
  <2>1. replies' \in Seq(Answer) /\ lease' \in BOOLEAN /\ timer' \in BOOLEAN
    <3>1. <<>> \in Seq(Answer) /\ FALSE \in BOOLEAN
      OBVIOUS
    <3>. QED
      BY <1>3, <3>1
  <2>2. call' \in [Activity -> Call]
    BY <1>1
  <2>. QED
    BY <1>2, <1>3, <2>1, <2>2 DEF TypeOK, Answer
<1>5. Counted' /\ Batches'
  BY <1>1, <1>2, <1>3 DEF Counted, Batches, Idle, NoCall, Late
<1>. QED
  BY <1>4, <1>5

(* What one served request may do to the archive and to the replies.       *)
LEMMA ServeEffect ==
  ASSUME TypeInv, Serve
  PROVE  /\ wire # <<>> /\ Head(wire) \in Entry
         /\ replies' \in Seq(Answer) /\ admitted' = FALSE
         /\ \/ UNCHANGED <<row, last, receipts, seal>>
            \/ row' = "active" /\ row = "none" /\ UNCHANGED <<last, receipts, seal>>
            \/ row' = "released" /\ row = "active" /\ UNCHANGED <<last, receipts, seal>>
            \/ /\ Head(wire).kind = "write" /\ admitted /\ seal = "open"
               /\ Head(wire).lo = last + 1
               /\ last' = Head(wire).hi
               /\ receipts' = receipts \cup Head(wire).lo .. Head(wire).hi
               /\ seal' \in {"open", "complete"}
               /\ UNCHANGED row
<1>. DEFINE e == Head(wire)
<1>1. wire # <<>> /\ e \in Entry
  BY HeadTail DEF Serve, TypeInv, TypeOK
<1>2. PICK answer \in {"yes", "no", "conflict", "unknown"} : replies' = Answered(e, answer)
  BY DEF Serve, ServeWrite, ServeStage, ServeStatus, ServeRegister, ServeRelease, ServeLost
<1>3. replies' \in Seq(Answer) /\ admitted' = FALSE
  BY <1>1, <1>2, AnsweredType DEF Serve, TypeInv, TypeOK, Answer
<1>4. CASE ServeWrite(e)
  BY <1>1, <1>3, <1>4 DEF ServeWrite, Appends, archiveVars, TypeInv, TypeOK
<1>5. CASE ServeRegister(e)
  BY <1>1, <1>3, <1>5 DEF ServeRegister
<1>6. CASE ServeRelease(e)
  BY <1>1, <1>3, <1>6 DEF ServeRelease
<1>7. CASE ServeStage(e) \/ ServeStatus(e) \/ ServeLost(e)
  BY <1>1, <1>3, <1>7 DEF ServeStage, ServeStatus, ServeLost, archiveVars
<1>. QED
  BY <1>4, <1>5, <1>6, <1>7 DEF Serve

(* The archive's steps keep the types.                                     *)
LEMMA ArchiveTyped ==
  ASSUME TypeInv, Admit \/ Serve \/ Reconcile \/ Losses
  PROVE  TypeInv'
<1>. USE DEF TypeInv
<1>0. admitted' \in BOOLEAN
  BY Zenon DEF Admit, Serve, Reconcile, Losses, OwnerLost, ReplyLost, TypeOK
<1>1. CASE Serve
  <2>1. wire' = Tail(wire) /\ wire \in Seq(Entry) /\ wire # <<>>
        /\ UNCHANGED <<pc, op, sequence, taken, timer, committing, flushFailed, told, outcome,
                       call, lease, faults>>
    BY <1>1, ServeEffect DEF Serve, producerVars, TypeOK
  <2>2. wire' \in Seq(Entry)
        /\ \A i \in DOMAIN wire' : i + 1 \in DOMAIN wire /\ wire'[i] = wire[i + 1]
    BY <2>1, HeadTail
  <2>3. /\ row' \in {"none", "active", "released", "finished", "lost"}
        /\ last' \in Sequence /\ receipts' \subseteq 0 .. MaxSequence
        /\ seal' \in {"open", "complete", "partial"}
    <3>1. Head(wire) \in Entry /\ Head(wire).lo \in 0 .. MaxSequence
          /\ Head(wire).hi \in Sequence
      BY <1>1, ServeEffect DEF Entry
    <3>2. Head(wire).lo .. Head(wire).hi \subseteq 0 .. MaxSequence
      BY <3>1, BoundsAssumption DEF Sequence
    <3>. QED
      BY <1>1, <3>1, <3>2, ServeEffect DEF TypeOK
  <2>4. TypeOK'
    <3>1. replies' \in Seq(Answer)
      BY <1>1, ServeEffect
    <3>2. /\ timer' \in BOOLEAN /\ committing' \in BOOLEAN /\ flushFailed' \in BOOLEAN
          /\ lease' \in BOOLEAN
      BY Zenon, <2>1 DEF TypeOK
    <3>. QED
      BY <1>0, <2>1, <2>2, <2>3, <3>1, <3>2 DEF TypeOK, Answer
  <2>5. Counted' /\ Batches'
    BY <2>1, <2>2 DEF Counted, Batches, Idle
  <2>. QED
    BY <2>4, <2>5
<1>5. CASE Admit
  BY <1>0, <1>5 DEF Admit, TypeOK, Counted, Batches, Idle, producerVars, archiveVars
<1>2. CASE Reconcile
  BY <1>2 DEF Reconcile, TypeOK, Counted, Batches, Idle, producerVars
<1>3. CASE OwnerLost
  <2>1. /\ wire' \in Seq(Entry)
        /\ \A i \in DOMAIN wire' : wire'[i].kind = "write" => wire'[i].lo <= wire'[i].hi
    BY <1>3, WireMapped DEF OwnerLost
  <2>2. faults' \in 0 .. MaxFaults
    BY <1>3, BoundsAssumption DEF OwnerLost, TypeOK
  <2>3. TypeOK' /\ Counted' /\ Batches'
    BY <1>0, <1>3, <2>1, <2>2
    DEF OwnerLost, TypeOK, Counted, Batches, Idle, producerVars, archiveVars
  <2>. QED
    BY <2>3
<1>4. ASSUME NEW i \in DOMAIN wire, ReplyLost(i)
      PROVE  TypeInv'
  <2>1. /\ wire' \in Seq(Entry)
        /\ \A j \in DOMAIN wire' : wire'[j].kind = "write" => wire'[j].lo <= wire'[j].hi
    <3>1. PICK kind \in {wire[i].kind, "lost"} :
            wire' = [wire EXCEPT ![i] = [@ EXCEPT !.who = "nobody", !.kind = kind]]
      BY <1>4 DEF ReplyLost
    <3>2. wire' = [j \in DOMAIN wire |-> wire'[j]]
      BY <3>1
    <3>3. \A j \in DOMAIN wire :
             \/ wire'[j] = wire[j]
             \/ wire'[j] = [wire[i] EXCEPT !.who = "nobody", !.kind = kind] /\ j = i
      BY <3>1
    <3>. QED
      BY <3>2, <3>3, WireMapped
  <2>2. wire[i] \in Entry
    BY <1>4 DEF TypeOK
  <2>3. replies' \in Seq(Answer)
    BY <1>4, <2>2, AnsweredType DEF ReplyLost, TypeOK, Answer
  <2>4. faults' \in 0 .. MaxFaults
    BY <1>4, BoundsAssumption DEF ReplyLost, TypeOK
  <2>5. /\ UNCHANGED <<pc, op, sequence, taken, timer, committing, flushFailed, told, outcome,
                       call, lease, row, last, receipts, seal>>
    BY <1>4 DEF ReplyLost, producerVars, archiveVars
  <2>6. TypeOK' /\ Counted' /\ Batches'
    BY <1>0, <2>1, <2>3, <2>4, <2>5 DEF TypeOK, Counted, Batches, Idle, Answer
  <2>. QED
    BY <2>6
<1>. QED
  BY <1>1, <1>2, <1>3, <1>4, <1>5 DEF Losses

(* The type invariant holds initially,                                     *)
LEMMA TypeInvInit == Init => TypeInv
<1>. SUFFICES ASSUME Init PROVE TypeInv
  OBVIOUS
<1>1. 0 \in 0 .. MaxSequence /\ -1 \in Sequence /\ 0 \in 0 .. MaxFaults
      /\ 0 <= MaxSequence - 1
  BY BoundsAssumption DEF Sequence
<1>2. TypeOK
  <2>1. <<>> \in Seq(Entry) /\ <<>> \in Seq(Answer) /\ {} \subseteq 0 .. MaxSequence
    OBVIOUS
  <2>2. call \in [Activity -> Call]
    BY NoCallType DEF Init
  <2>. QED
    BY <1>1, <2>1, <2>2 DEF Init, TypeOK, Answer
<1>3. Counted /\ Batches
  BY <1>1 DEF Init, Counted, Batches, Idle, NoCall, Late
<1>. QED
  BY <1>2, <1>3 DEF TypeInv

(* and every step keeps it.                                                *)
LEMMA TypeInvNext == TypeInv /\ [Next]_vars => TypeInv'
<1>. SUFFICES ASSUME TypeInv, [Next]_vars PROVE TypeInv'
  OBVIOUS
<1>1. CASE UNCHANGED vars
  BY <1>1 DEF vars, producerVars, archiveVars, TypeInv, TypeOK, Counted, Batches, Idle
<1>2. CASE Next
  BY <1>2, LoopTyped, ProviderTyped, FlushTyped, ContextLostTyped, ArchiveTyped, RetryTyped
  DEF Next, Retries
<1>. QED
  BY <1>1, <1>2

(* Every reachable state is well typed: the loop never counts past the     *)
(* bound, no batch is empty and commit() stays within its three attempts   *)
(* (generation.ts, commit).                                                *)
THEOREM Typing == Spec => []TypeOK
<1>1. TypeInv => TypeOK
  BY DEF TypeInv
<1>. QED
  BY <1>1, TypeInvInit, TypeInvNext, PTL DEF Spec

-----------------------------------------------------------------------------
(* Until the producer row exists nothing is written: only the request that *)
(* registers it, or settle() after it was refused, is under way, and no    *)
(* reply can be taken for a registration.                                  *)
RowInv ==
  /\ pc = "start" => row = "none"
  /\ row = "none" =>
       /\ pc \in {"start", "registering"} \cup Late
       /\ \A a \in Activity : Idle(a)
       /\ \A i \in DOMAIN wire : wire[i].kind \in {"register", "release", "lost"}
  /\ pc = "start" => wire = <<>> /\ replies = <<>>
  /\ row = "none" /\ pc = "registering" =>
       /\ \A i \in DOMAIN wire : wire[i].kind # "release"
       /\ \A i \in DOMAIN replies : replies[i].answer # "yes"

(* Between the fence and the commit of a write the row stays active,       *)
(* whatever becomes of the lease: the owner does nothing else meanwhile.   *)
AdmitInv == admitted => row = "active"

LogInv == TypeInv /\ RowInv /\ AdmitInv /\ PrefixHasNoHoles /\ NothingStranded

(* The archive's own steps.                                                *)
LEMMA AppendStep ==
  ASSUME LogInv, Serve, Head(wire).kind = "write", admitted, seal = "open",
         Head(wire).lo = last + 1, last' = Head(wire).hi,
         receipts' = receipts \cup Head(wire).lo .. Head(wire).hi,
         seal' \in {"open", "complete"}, UNCHANGED row
  PROVE  /\ PrefixHasNoHoles' /\ NothingStranded' /\ row = "active"
         /\ Log!Extend
<1>1. wire # <<>> /\ Head(wire) \in Entry /\ 1 \in DOMAIN wire /\ Head(wire) = wire[1]
  BY HeadTail, ServeEffect DEF LogInv, TypeInv, TypeOK
<1>3. row = "active" /\ admitted' = FALSE
  BY DEF Serve, LogInv, AdmitInv
<1>4. Head(wire).lo <= Head(wire).hi
  BY <1>1 DEF LogInv, TypeInv, Batches
<1>5. last \in Int /\ last >= -1 /\ last' \in last + 1 .. MaxSequence
  BY <1>1, <1>4 DEF LogInv, TypeInv, TypeOK, Sequence, Entry
<1>6. receipts' = 0 .. last'
  BY <1>5 DEF LogInv, PrefixHasNoHoles
<1>7. (lease \/ pc = "start")' = (lease \/ pc = "start")
  BY DEF Serve, producerVars
<1>8. Log!Extend
  BY <1>3, <1>5, <1>7 DEF Log!Extend
<1>. QED
  BY <1>3, <1>6, <1>8 DEF PrefixHasNoHoles, NothingStranded

(* A step of the archive is one of the log.                                *)
LEMMA ArchiveLog ==
  ASSUME LogInv, Admit \/ Serve \/ Reconcile \/ Losses
  PROVE  /\ RowInv' /\ AdmitInv' /\ PrefixHasNoHoles' /\ NothingStranded'
         /\ [Log!Next]_(Log!vars)
<1>0. ASSUME admitted' \in {FALSE, admitted}, UNCHANGED <<pc, lease, last, seal>>
      PROVE  [Log!Next]_(Log!vars)
  <2>1. admitted \in BOOLEAN
    BY DEF LogInv, TypeInv, TypeOK
  <2>2. CASE admitted' = admitted
    BY <1>0, <2>2 DEF Log!vars
  <2>3. CASE admitted /\ admitted' = FALSE
    BY <1>0, <2>3 DEF Log!Next, Log!Refuse
  <2>. QED
    BY <1>0, <2>1, <2>2, <2>3
<1>5. CASE Admit
  <2>1. /\ wire # <<>> /\ Head(wire).kind = "write" /\ ~Fenced /\ ~admitted /\ admitted' = TRUE
        /\ UNCHANGED <<pc, call, replies, wire, lease, row, last, receipts, seal>>
    BY <1>5 DEF Admit, producerVars, archiveVars
  <2>2. 1 \in DOMAIN wire /\ Head(wire) = wire[1]
    BY <2>1, HeadTail DEF LogInv, TypeInv, TypeOK
  <2>3. row = "active" /\ lease
    BY <2>1, <2>2 DEF Fenced, LogInv, RowInv
  <2>4. Log!Grant
    BY <2>1, <2>3 DEF Log!Grant
  <2>. QED
    BY <2>1, <2>3, <2>4 DEF LogInv, RowInv, AdmitInv, Idle, PrefixHasNoHoles, NothingStranded, Log!Next
<1>1. CASE Serve
  <2>1. /\ wire' = Tail(wire) /\ wire # <<>> /\ wire \in Seq(Entry)
        /\ UNCHANGED <<pc, call, lease>> /\ admitted' = FALSE
    BY <1>1, ServeEffect DEF Serve, producerVars, LogInv, TypeInv, TypeOK
  <2>2. /\ 1 \in DOMAIN wire /\ Head(wire) = wire[1] /\ Head(wire) \in Entry
        /\ \A i \in DOMAIN wire' : i + 1 \in DOMAIN wire /\ wire'[i] = wire[i + 1]
    BY <2>1, HeadTail
  <2>3. CASE UNCHANGED <<row, last, receipts, seal>>
    <3>1. row = "none" /\ pc = "registering" =>
            /\ Head(wire).kind \in {"register", "lost"}
            /\ \A i \in DOMAIN replies' : replies'[i].answer # "yes"
      <4>1. SUFFICES ASSUME row = "none", pc = "registering"
                     PROVE  /\ Head(wire).kind \in {"register", "lost"}
                            /\ \A i \in DOMAIN replies' : replies'[i].answer # "yes"
        OBVIOUS
      <4>2. Head(wire).kind \in {"register", "lost"}
        BY <2>2, <4>1 DEF LogInv, RowInv
      <4>3. PICK answer \in {"conflict", "unknown"} : replies' = Answered(Head(wire), answer)
        BY <1>1, <2>3, <4>1, <4>2
        DEF Serve, ServeWrite, ServeStage, ServeStatus, ServeRegister, ServeRelease, ServeLost
      <4>4. replies \in Seq(Answer)
            /\ \A i \in DOMAIN replies : replies[i].answer # "yes"
        BY <4>1 DEF LogInv, RowInv, TypeInv, TypeOK, Answer
      <4>5. CASE Head(wire).who \in Activity
        <5>1. [who |-> Head(wire).who, answer |-> answer] \in Answer
          BY <4>5 DEF Answer
        <5>. QED
          BY <4>2, <4>3, <4>4, <4>5, <5>1, AppendElements DEF Answered
      <4>. QED
        BY <4>2, <4>3, <4>4, <4>5 DEF Answered
    <3>2. RowInv'
      BY <2>1, <2>2, <2>3, <3>1 DEF LogInv, RowInv, Idle
    <3>. QED
      BY <1>0, <2>1, <2>3, <3>2 DEF LogInv, AdmitInv, PrefixHasNoHoles, NothingStranded
  <2>4. CASE row' \in {"active", "released"} /\ UNCHANGED <<last, receipts, seal>>
    <3>1. pc # "start"
      BY <2>1 DEF LogInv, RowInv
    <3>. QED
      BY <1>0, <2>1, <2>4, <3>1
      DEF LogInv, RowInv, AdmitInv, PrefixHasNoHoles, NothingStranded
  <2>5. CASE /\ Head(wire).kind = "write" /\ admitted /\ seal = "open"
             /\ Head(wire).lo = last + 1
             /\ last' = Head(wire).hi
             /\ receipts' = receipts \cup Head(wire).lo .. Head(wire).hi
             /\ seal' \in {"open", "complete"}
             /\ UNCHANGED row
    <3>1. /\ PrefixHasNoHoles' /\ NothingStranded' /\ row = "active" /\ Log!Extend
      BY <1>1, <2>5, AppendStep
    <3>2. pc # "start"
      BY <2>1 DEF LogInv, RowInv
    <3>3. RowInv'
      BY <2>1, <2>5, <3>1, <3>2 DEF RowInv
    <3>. QED
      BY <2>1, <3>1, <3>3 DEF AdmitInv, Log!Next
  <2>. QED
    BY <1>1, <2>3, <2>4, <2>5, ServeEffect DEF LogInv
<1>2. CASE Reconcile
  <2>1. /\ UNCHANGED <<pc, call, replies, lease, wire, last, receipts, admitted>> /\ ~admitted
        /\ row \in {"active", "released"} /\ row' \in {"finished", "lost"}
    BY <1>2 DEF Reconcile, Unsettled, producerVars
  <2>2. pc # "start"
    BY <2>1 DEF LogInv, RowInv
  <2>3. RowInv' /\ AdmitInv' /\ PrefixHasNoHoles'
    BY <2>1, <2>2 DEF LogInv, RowInv, AdmitInv, PrefixHasNoHoles
  <2>4. CASE Finished /\ UNCHANGED seal
    BY <2>1, <2>3, <2>4 DEF Finished, NothingStranded, Log!vars
  <2>5. CASE ~Finished /\ ~lease /\ seal' = IF last >= 0 THEN "partial" ELSE seal
    <3>1. CASE last >= 0
      <4>1. Log!Recover
        BY <2>1, <2>2, <2>5, <3>1 DEF Finished, Log!Recover
      <4>2. NothingStranded'
        BY <2>5, <3>1 DEF NothingStranded
      <4>. QED
        BY <2>3, <4>1, <4>2 DEF Log!Next
    <3>2. CASE ~(last >= 0)
      <4>1. last = -1
        BY <3>2 DEF LogInv, TypeInv, TypeOK, Sequence
      <4>. QED
        BY <2>1, <2>3, <2>5, <3>2, <4>1 DEF NothingStranded, Log!vars
    <3>. QED
      BY <3>1, <3>2
  <2>. QED
    BY <1>2, <2>4, <2>5 DEF Reconcile, Recoverable
<1>3. CASE OwnerLost
  <2>1. /\ UNCHANGED <<pc, call, replies, lease, row, last, receipts, seal>> /\ admitted' = FALSE
        /\ wire # <<>> /\ wire' = [i \in DOMAIN wire |-> [wire[i] EXCEPT !.kind = "lost"]]
    BY <1>3 DEF OwnerLost, producerVars, archiveVars
  <2>2. DOMAIN wire' = DOMAIN wire /\ \A i \in DOMAIN wire : wire'[i].kind = "lost"
    <3>1. wire \in Seq(Entry) /\ \A i \in DOMAIN wire : wire[i] \in Entry
      BY DEF LogInv, TypeInv, TypeOK
    <3>2. \A e \in Entry : [e EXCEPT !.kind = "lost"].kind = "lost"
      BY DEF Entry
    <3>3. DOMAIN wire' = DOMAIN wire
      BY <2>1
    <3>. QED
      BY <2>1, <3>1, <3>2, <3>3
  <2>3. RowInv'
    BY <2>1, <2>2 DEF LogInv, RowInv, Idle
  <2>. QED
    BY <1>0, <2>1, <2>3 DEF LogInv, AdmitInv, PrefixHasNoHoles, NothingStranded
<1>4. ASSUME NEW i \in DOMAIN wire, ReplyLost(i)
      PROVE  /\ RowInv' /\ AdmitInv' /\ PrefixHasNoHoles' /\ NothingStranded'
             /\ [Log!Next]_(Log!vars)
  <2>1. /\ UNCHANGED <<pc, call, lease, row, last, receipts, seal>>
        /\ \E kind \in {wire[i].kind, "lost"} :
             wire' = [wire EXCEPT ![i] = [@ EXCEPT !.who = "nobody", !.kind = kind]]
        /\ replies' = Answered(wire[i], "unknown")
    BY <1>4 DEF ReplyLost, producerVars, archiveVars
  <2>0. admitted' \in {FALSE, admitted}
    BY Zenon, <1>4 DEF ReplyLost, LogInv, TypeInv, TypeOK
  <2>2. wire \in Seq(Entry) /\ wire[i] \in Entry /\ replies \in Seq(Answer)
    BY <1>4 DEF LogInv, TypeInv, TypeOK, Answer
  <2>3. /\ DOMAIN wire' = DOMAIN wire
        /\ \A j \in DOMAIN wire : wire'[j].kind \in {wire[j].kind, "lost"}
    <3>1. PICK kind \in {wire[i].kind, "lost"} :
            wire' = [wire EXCEPT ![i] = [@ EXCEPT !.who = "nobody", !.kind = kind]]
      BY <2>1
    <3>2. [wire[i] EXCEPT !.who = "nobody", !.kind = kind].kind = kind
      BY <2>2 DEF Entry
    <3>. QED
      BY <3>1, <3>2
  <2>4. (\A j \in DOMAIN replies : replies[j].answer # "yes")
           => \A j \in DOMAIN replies' : replies'[j].answer # "yes"
    <3>1. CASE wire[i].who \in Activity
      <4>1. [who |-> wire[i].who, answer |-> "unknown"] \in Answer
        BY <3>1 DEF Answer
      <4>. QED
        BY <2>1, <2>2, <3>1, <4>1, AppendElements DEF Answered
    <3>. QED
      BY <2>1, <3>1 DEF Answered
  <2>5. pc # "start"
    BY <1>4, <2>2 DEF LogInv, RowInv
  <2>6. RowInv'
    BY <2>1, <2>3, <2>4, <2>5 DEF LogInv, RowInv, Idle
  <2>7. AdmitInv'
    <3>1. admitted' => admitted
      BY Zenon, <2>0
    <3>. QED
      BY Zenon, <2>1, <3>1 DEF LogInv, AdmitInv
  <2>. QED
    BY <1>0, <2>0, <2>1, <2>6, <2>7 DEF LogInv, PrefixHasNoHoles, NothingStranded
<1>. QED
  BY <1>1, <1>2, <1>3, <1>4, <1>5 DEF Losses

(* The producer's steps change nothing in the archive.                     *)
LEMMA ProducerRow ==
  ASSUME LogInv, Loop \/ Provider \/ TimerFires \/ FlushEnds \/ ContextLost \/ Retries
  PROVE  RowInv'
<1>. USE DEF LogInv
<1>1. CASE row # "none" /\ pc # "start"
  <2>1. row' = row /\ pc' # "start"
    BY <1>1 DEF Loop, AcquireLease, Registered, Created, Settled, Hashed, SendCheckpoint,
       Checkpointed, RunFails, Settle, ReleaseLease, Provider, Text, Checkpoint, TimerFires,
       FlushEnds, Flushed, FlushFails, ContextLost, Retries, Retry, archiveVars, producerVars
  <2>. QED
    BY <1>1, <2>1 DEF RowInv
<1>2. CASE AcquireLease
  <2>1. /\ wire = <<>> /\ replies = <<>> /\ pc' = "registering" /\ row = "none"
        /\ wire' = Append(wire, Request("loop", "register", NoCall))
        /\ UNCHANGED <<call, replies, row>>
    BY <1>2 DEF AcquireLease, RowInv, archiveVars
  <2>2. \A i \in DOMAIN wire' : wire'[i].kind = "register"
    BY <2>1 DEF Request
  <2>. QED
    BY <2>1, <2>2 DEF RowInv, Idle
<1>3. CASE row = "none" /\ Registered
  <2>1. Reply("loop") # "yes"
    BY <1>3, ReplyType DEF Registered, RowInv, TypeInv, TypeOK, Answer
  <2>2. pc' = "settling" /\ UNCHANGED <<call, wire, row>>
    BY <1>3, <2>1 DEF Registered, archiveVars
  <2>. QED
    BY <1>3, <2>2 DEF RowInv, Late, Idle
<1>4. CASE row = "none" /\ Settle
  <2>1. /\ pc' = "releasing" /\ UNCHANGED <<call, row>> /\ wire \in Seq(Entry)
        /\ wire' = Append(wire, Request("loop", "release", NoCall))
    BY <1>4 DEF Settle, archiveVars, TypeInv, TypeOK
  <2>2. Request("loop", "release", NoCall) \in Entry
        /\ Request("loop", "release", NoCall).kind = "release"
    BY ShapeTypes, NoCallType DEF Activity, Request
  <2>3. \A i \in DOMAIN wire' : wire'[i].kind \in {"register", "release", "lost"}
    BY <1>4, <2>1, <2>2, AppendElements DEF RowInv
  <2>. QED
    BY <1>4, <2>1, <2>3 DEF RowInv, Late, Idle
<1>5. CASE row = "none" /\ ReleaseLease
  BY <1>5 DEF ReleaseLease, RowInv, Late, Idle, archiveVars
<1>6. CASE row = "none" /\ ContextLost
  <2>1. /\ pc' = "crashed" /\ UNCHANGED row /\ \A a \in Activity : call'[a] = NoCall
        /\ wire' = [i \in DOMAIN wire |-> [wire[i] EXCEPT !.who = "nobody"]]
    BY <1>6 DEF ContextLost, archiveVars
  <2>2. wire \in Seq(Entry) /\ \A i \in DOMAIN wire : wire[i] \in Entry
    BY DEF TypeInv, TypeOK
  <2>3. \A e \in Entry : [e EXCEPT !.who = "nobody"].kind = e.kind
    BY DEF Entry
  <2>4. DOMAIN wire' = DOMAIN wire
    BY <2>1
  <2>5. \A i \in DOMAIN wire : wire'[i].kind = wire[i].kind
    BY <2>1, <2>2, <2>3
  <2>. QED
    BY <1>6, <2>1, <2>4, <2>5 DEF RowInv, Late, Idle, NoCall
<1>7. row = "none" => ~(Created \/ Settled \/ Hashed \/ Checkpointed \/ RunFails
                         \/ Provider \/ TimerFires \/ FlushEnds \/ Retries)
  BY DEF RowInv, Late, Created, Settled, Hashed, Checkpointed, RunFails, Provider, Text,
     Checkpoint, TimerFires, TypeInv, Counted, FlushEnds, Flushed, FlushFails, Returns, Activity,
     Retries, Retry
<1>8. pc = "start" => row = "none"
  BY DEF RowInv
<1>. QED
  BY <1>1, <1>2, <1>3, <1>4, <1>5, <1>6, <1>7, <1>8 DEF Loop

(* A step of the producer leaves the log alone.                            *)
LEMMA ProducerLog ==
  ASSUME LogInv, Loop \/ Provider \/ TimerFires \/ FlushEnds \/ ContextLost \/ Retries
  PROVE  /\ AdmitInv' /\ PrefixHasNoHoles' /\ NothingStranded'
         /\ [Log!Next]_(Log!vars)
<1>1. UNCHANGED <<row, last, receipts, seal, admitted>>
  BY DEF Loop, AcquireLease, Registered, Created, Settled, Hashed, Checkpointed, RunFails,
     Settle, ReleaseLease, Provider, Text, Checkpoint, TimerFires, FlushEnds, Flushed,
     FlushFails, ContextLost, Retries, Retry, archiveVars
<1>2. CASE ReleaseLease \/ ContextLost
  <2>1. lease' = FALSE /\ pc' # "start"
    BY <1>2 DEF ReleaseLease, ContextLost
  <2>2. Log!Stop
    BY <1>1, <2>1 DEF Log!Stop
  <2>. QED
    BY <1>1, <2>2 DEF LogInv, AdmitInv, PrefixHasNoHoles, NothingStranded, Log!Next
<1>3. CASE AcquireLease
  <2>1. (lease \/ pc = "start")' = (lease \/ pc = "start")
    BY <1>3 DEF AcquireLease
  <2>. QED
    BY <1>1, <2>1 DEF LogInv, AdmitInv, PrefixHasNoHoles, NothingStranded, Log!vars
<1>4. CASE ~(ReleaseLease \/ ContextLost \/ AcquireLease)
  <2>1. lease' = lease /\ (pc = "start" <=> pc' = "start")
    <3>1. pc = "start" => row = "none" /\ pc # "registering" /\ ~timer
          /\ \A a \in Activity : Idle(a)
      BY DEF LogInv, RowInv, TypeInv, Counted
    <3>. QED
      BY <1>4, <3>1 DEF Loop, Registered, Created, Settled, Hashed, SendCheckpoint,
         Checkpointed, RunFails, Settle, Provider, Text, Checkpoint, TimerFires, FlushEnds,
         Flushed, FlushFails, Returns, Activity, Retries, Retry, producerVars
  <2>. QED
    BY <1>1, <2>1 DEF LogInv, AdmitInv, PrefixHasNoHoles, NothingStranded, Log!vars
<1>. QED
  BY <1>2, <1>3, <1>4

(* The log's invariant and its initial state,                              *)
LEMMA LogInit == Init => LogInv /\ Log!Init
<1>. SUFFICES ASSUME Init PROVE LogInv /\ Log!Init
  OBVIOUS
<1>1. RowInv
  BY DEF Init, RowInv, Idle, NoCall
<1>2. AdmitInv /\ PrefixHasNoHoles /\ NothingStranded
  BY DEF Init, AdmitInv, PrefixHasNoHoles, NothingStranded
<1>3. Log!Init
  BY DEF Init, Log!Init
<1>. QED
  BY <1>1, <1>2, <1>3, TypeInvInit DEF LogInv

(* and its steps.                                                          *)
LEMMA LogNext == LogInv /\ [Next]_vars => LogInv' /\ [Log!Next]_(Log!vars)
<1>. SUFFICES ASSUME LogInv, [Next]_vars PROVE LogInv' /\ [Log!Next]_(Log!vars)
  OBVIOUS
<1>1. TypeInv'
  BY TypeInvNext DEF LogInv
<1>2. CASE UNCHANGED vars
  BY <1>1, <1>2 DEF vars, producerVars, archiveVars, LogInv, RowInv, AdmitInv, Idle, PrefixHasNoHoles,
     NothingStranded, Log!vars
<1>3. CASE Admit \/ Serve \/ Reconcile \/ Losses
  BY <1>1, <1>3, ArchiveLog DEF LogInv
<1>4. CASE Loop \/ Provider \/ TimerFires \/ FlushEnds \/ ContextLost \/ Retries
  BY <1>1, <1>4, ProducerRow, ProducerLog DEF LogInv
<1>. QED
  BY <1>2, <1>3, <1>4 DEF Next

(* However batches are lost, retried or sent side by side, the committed   *)
(* output of an attempt has no hole (repository.ts, append).               *)
THEOREM NoHoles == Spec => []PrefixHasNoHoles
<1>1. LogInv => PrefixHasNoHoles
  BY DEF LogInv
<1>. QED
  BY <1>1, LogInit, LogNext, PTL DEF Spec

(* Once reconciliation settled its row, an attempt that exists is sealed,  *)
(* and no delayed request creates it afterwards (producers.ts).            *)
THEOREM Recovery == Spec => []NothingStranded
<1>1. LogInv => NothingStranded
  BY DEF LogInv
<1>. QED
  BY <1>1, LogInit, LogNext, PTL DEF Spec

(* The archive implements the append-only log that grows only by batches   *)
(* admitted while the producer held its lease, one at a time, and is       *)
(* sealed once; recovery seals it only when the lease is free and nothing  *)
(* admitted is still to come (producers.ts, assertWritable and reconcile). *)
THEOREM Refinement == Spec => ImplementsLog
BY LogInit, LogNext, PTL DEF Spec, ImplementsLog, Log!Spec

-----------------------------------------------------------------------------
(* The producer's delivery.  A generation its producer sealed holds every  *)
(* delta it counted, and what a run reports is durable: what follows keeps *)
(* track of the one answer each activity waits for, of the batches under   *)
(* way, and of the loop's position against both.                           *)

(* An activity waits for one answer at a time, to what its commit() asked  *)
(* last or to the row it registers or releases; a yes to a write or to a   *)
(* status is given for a batch that is committed.                          *)
Awaits(a) == ~Idle(a) \/ (a = "loop" /\ pc \in {"registering", "releasing"})
Asked(a) ==
  CASE Idle(a) -> IF pc = "registering" THEN "register" ELSE "release"
    [] call[a].step \in {"stage", "write"} -> call[a].step
    [] OTHER -> "status"
Batch(a) == call[a].lo .. call[a].hi

Callers == Idle("loop") <=> pc \notin {"creating", "checkpoint"}

WireInv ==
  \A i \in DOMAIN wire : wire[i].who # "nobody" =>
    LET a == wire[i].who
    IN /\ Awaits(a) /\ wire[i].kind \in {Asked(a), "lost"}
       /\ ~Idle(a) => wire[i].lo = call[a].lo /\ wire[i].hi = call[a].hi

ReplyInv ==
  \A i \in DOMAIN replies :
    LET a == replies[i].who
    IN /\ Awaits(a)
       /\ replies[i].answer = "yes" /\ ~Idle(a) /\ call[a].step # "stage"
            => Batch(a) \subseteq receipts

OneAnswer ==
  /\ \A i, j \in DOMAIN wire : wire[i].who = wire[j].who => i = j \/ wire[i].who = "nobody"
  /\ \A i, j \in DOMAIN replies : replies[i].who = replies[j].who => i = j
  /\ \A i \in DOMAIN wire, j \in DOMAIN replies : wire[i].who # replies[j].who

(* Nobody waits for an answer that nobody owes: the request is under way,  *)
(* or its answer is.                                                       *)
Owed ==
  \A a \in Activity : Awaits(a) =>
    \/ \E i \in DOMAIN wire : wire[i].who = a
    \/ \E i \in DOMAIN replies : replies[i].who = a

(* What the loop has taken is committed or in a batch under way, until a   *)
(* flush fails or the run ends.                                            *)
Underway ==
  /\ pc \in {"start", "registering", "creating"} => sequence = 0 /\ taken = 0
  /\ pc \notin Late \cup {"start", "registering"} /\ ~flushFailed =>
       \A n \in 0 .. taken : n \in receipts \/ \E a \in Activity : ~Idle(a) /\ n \in Batch(a)

(* The newest mutation the run has made, and may have made.  The final     *)
(* batch is made last, and carries the newest.                             *)
Newest == IF pc = "checkpoint" /\ op # "inline" THEN sequence + 1 ELSE sequence
Limit == IF pc \in Late THEN sequence + 1 ELSE Newest
Sealing == pc = "checkpoint" /\ op = "final"
Ending == pc \in Late \/ Sealing

Within ==
  /\ last <= Limit
  /\ \A a \in Activity : ~Idle(a) => call[a].hi <= Limit
  /\ \A i \in DOMAIN wire : wire[i].hi <= Limit

Finals ==
  /\ \A a \in Activity : call[a].final => a = "loop" /\ Sealing
  /\ \A i \in DOMAIN wire : wire[i].final => Ending /\ wire[i].hi >= Newest
  /\ seal = "complete" => Ending /\ last >= Newest
  /\ Sealing =>
       /\ call["loop"].final /\ call["loop"].hi = Newest
       /\ \A f \in Flusher : ~Idle(f) => call[f].hi < Newest
       /\ \A i \in DOMAIN wire : ~wire[i].final => wire[i].hi < Newest
       /\ last >= Newest => seal = "complete"
  /\ pc \in {"start", "registering", "creating", "streaming"} => op # "final"
  /\ outcome = "persisted" => seal = "complete"

SealInv ==
  /\ Callers /\ WireInv /\ ReplyInv /\ OneAnswer /\ Owed
  /\ Underway /\ Within /\ Finals

-----------------------------------------------------------------------------
(* The types the steps below rest on.                                      *)
LEMMA Shapes ==
  ASSUME TypeInv
  PROVE  /\ wire \in Seq(Entry) /\ replies \in Seq(Answer) /\ call \in [Activity -> Call]
         /\ \A i \in DOMAIN wire : wire[i] \in Entry
         /\ \A i \in DOMAIN replies : replies[i] \in Answer
         /\ \A a \in Activity : /\ call[a] \in Call
                                /\ call[a].lo \in Int /\ call[a].hi \in Int
         /\ sequence \in Nat /\ taken \in Nat /\ last \in Int
         /\ MaxSequence \in Nat
<1>1. wire \in Seq(Entry) /\ replies \in Seq(Answer) /\ call \in [Activity -> Call]
      /\ sequence \in Nat /\ taken \in Nat /\ last \in Int /\ MaxSequence \in Nat
  BY BoundsAssumption DEF TypeInv, TypeOK, Answer, Sequence
<1>2. \A a \in Activity : call[a] \in Call /\ call[a].lo \in Int /\ call[a].hi \in Int
  BY <1>1 DEF Call, Sequence
<1>. QED
  BY <1>1, <1>2

(* The loop, nobody and the flushes are different activities.              *)
LEMMA Names == "loop" \in Activity /\ "nobody" \notin Activity /\ "loop" \notin Flusher
BY FlusherAssumption DEF Activity

(* An activity whose answer has come has no request under way and no other *)
(* answer; one that waits for nothing has neither.                         *)
LEMMA Answering ==
  ASSUME TypeInv, SealInv, NEW a \in Activity,
         Reply(a) # "none" \/ ~Awaits(a)
  PROVE  /\ \A i \in DOMAIN wire : wire[i].who # a
         /\ Reply(a) # "none" =>
              /\ replies # <<>> /\ 1 \in DOMAIN replies /\ replies[1].who = a
              /\ replies[1].answer = Reply(a)
              /\ \A i \in DOMAIN replies : replies[i].who = a => i = 1
              /\ Awaits(a)
         /\ ~Awaits(a) => \A i \in DOMAIN replies : replies[i].who # a
<1>1. CASE Reply(a) # "none"
  <2>1. replies # <<>> /\ Head(replies).who = a /\ Head(replies) = replies[1]
        /\ 1 \in DOMAIN replies /\ replies[1].answer = Reply(a)
    BY <1>1, Shapes, HeadTail DEF Reply
  <2>2. Awaits(a) /\ \A i \in DOMAIN replies : replies[i].who = a => i = 1
    BY <2>1 DEF SealInv, ReplyInv, OneAnswer
  <2>3. \A i \in DOMAIN wire : wire[i].who # a
    BY <2>1 DEF SealInv, OneAnswer
  <2>. QED
    BY <2>1, <2>2, <2>3
<1>2. CASE ~Awaits(a)
  <2>1. \A i \in DOMAIN replies : replies[i].who # a
    BY <1>2 DEF SealInv, ReplyInv
  <2>2. \A i \in DOMAIN wire : wire[i].who # a
    BY <1>2, Names DEF SealInv, WireInv
  <2>3. Reply(a) = "none"
    <3>1. replies # <<>> => 1 \in DOMAIN replies /\ Head(replies) = replies[1]
      BY Shapes, HeadTail
    <3>. QED
      BY <2>1, <3>1 DEF Reply
  <2>. QED
    BY <1>2, <2>1, <2>2, <2>3
<1>. QED
  BY <1>1, <1>2

(* One activity takes its answer, if it waited for one, and may send its   *)
(* next request.                                                           *)
LEMMA Exchange ==
  ASSUME TypeInv, SealInv, TypeInv', NEW a \in Activity,
         a = "loop" \/ pc' = pc,
         \A b \in Activity : b # a => call'[b] = call[b],
         receipts' = receipts,
         \/ Reply(a) # "none" /\ replies' = Tail(replies)
         \/ ~Awaits(a) /\ replies' = replies,
         \/ wire' = wire /\ ~Awaits(a)'
         \/ \E kind \in {"register", "stage", "write", "status", "release"}, c \in Call :
              /\ wire' = Append(wire, Request(a, kind, c))
              /\ Awaits(a)' /\ kind = Asked(a)'
              /\ ~Idle(a)' => c.lo = call'[a].lo /\ c.hi = call'[a].hi
  PROVE  WireInv' /\ ReplyInv' /\ OneAnswer' /\ Owed'
<1>1. \A i \in DOMAIN wire : wire[i].who # a
  BY Answering
<1>2. \A i \in DOMAIN replies' :
        /\ replies'[i].who # a
        /\ \E j \in DOMAIN replies : replies'[i] = replies[j]
  <2>1. CASE Reply(a) # "none" /\ replies' = Tail(replies)
    <3>1. \A i \in DOMAIN replies' : i \in Nat /\ i >= 1 /\ i + 1 \in DOMAIN replies
            /\ replies'[i] = replies[i + 1]
      BY <2>1, Answering, Shapes
    <3>2. \A i \in DOMAIN replies : replies[i].who = a => i = 1
      BY <2>1, Answering
    <3>3. \A i \in DOMAIN replies' : i + 1 # 1
      BY <3>1
    <3>. QED
      BY <3>1, <3>2, <3>3
  <2>2. CASE ~Awaits(a) /\ replies' = replies
    <3>1. \A i \in DOMAIN replies : replies[i].who # a
      BY <2>2, Answering
    <3>. QED
      BY <2>2, <3>1
  <2>. QED
    BY <2>1, <2>2
<1>3. \A i, j \in DOMAIN replies' : replies'[i].who = replies'[j].who => i = j
  <2>1. CASE replies' = Tail(replies) /\ replies # <<>>
    <3>1. \A i \in DOMAIN replies' : i \in Nat /\ i + 1 \in DOMAIN replies
            /\ replies'[i] = replies[i + 1]
      BY <2>1, Shapes
    <3>. QED
      BY <3>1 DEF SealInv, OneAnswer
  <2>2. CASE replies' = replies
    BY <2>2 DEF SealInv, OneAnswer
  <2>. QED
    BY <2>1, <2>2, Answering
<1>4. ASSUME NEW b \in Activity, b # a
      PROVE  /\ call'[b] = call[b] /\ (Idle(b)' <=> Idle(b)) /\ (Awaits(b)' <=> Awaits(b))
             /\ Awaits(b) => Asked(b)' = Asked(b)
  BY <1>4 DEF Awaits, Asked, Idle
<1>5. ReplyInv'
  <2>1. ASSUME NEW i \in DOMAIN replies', NEW b, b = replies'[i].who
        PROVE  /\ Awaits(b)'
               /\ replies'[i].answer = "yes" /\ ~Idle(b)' /\ call'[b].step # "stage"
                    => call'[b].lo .. call'[b].hi \subseteq receipts'
    <3>1. PICK j \in DOMAIN replies : replies'[i] = replies[j]
      BY <1>2
    <3>2. b = replies[j].who /\ b \in Activity /\ b # a
      BY <1>2, <2>1, <3>1, Shapes DEF Answer
    <3>3. /\ Awaits(b)
          /\ replies[j].answer = "yes" /\ ~Idle(b) /\ call[b].step # "stage"
               => call[b].lo .. call[b].hi \subseteq receipts
      BY <3>2 DEF SealInv, ReplyInv, Batch
    <3>. QED
      BY <1>4, <3>1, <3>2, <3>3
  <2>. QED
    BY <2>1 DEF ReplyInv, Batch
<1>6. ASSUME NEW i \in DOMAIN wire, NEW b, b = wire[i].who, b # "nobody"
      PROVE  /\ Awaits(b)' /\ wire[i].kind \in {Asked(b)', "lost"}
             /\ ~Idle(b)' => wire[i].lo = call'[b].lo /\ wire[i].hi = call'[b].hi
  <2>1. b \in Activity /\ b # a
    BY <1>1, <1>6, Shapes DEF Entry
  <2>. QED
    BY <1>4, <1>6, <2>1 DEF SealInv, WireInv
<1>9. ASSUME NEW b \in Activity, b # a, Awaits(b)'
      PROVE  \/ \E i \in DOMAIN wire : wire[i].who = b
             \/ \E i \in DOMAIN replies' : replies'[i].who = b
  <2>1. CASE \E i \in DOMAIN replies : replies[i].who = b
    <3>1. PICK i \in DOMAIN replies : replies[i].who = b
      BY <2>1
    <3>2. CASE Reply(a) # "none" /\ replies' = Tail(replies)
      <4>1. i # 1
        BY <1>9, <3>1, <3>2, Answering
      <4>2. i - 1 \in DOMAIN replies' /\ replies'[i - 1] = replies[i]
        <5>1. i \in 1 .. Len(replies) /\ Len(replies) \in Nat /\ replies # <<>>
          BY <3>1, Shapes
        <5>. QED
          BY <3>2, <4>1, <5>1, Shapes
      <4>. QED
        BY <3>1, <4>2
    <3>. QED
      BY <3>1, <3>2
  <2>. QED
    BY <1>4, <1>9, <2>1 DEF SealInv, Owed
<1>7. CASE wire' = wire /\ ~Awaits(a)'
  <2>1. Owed'
    BY <1>7, <1>9 DEF Owed
  <2>. QED
    BY <1>1, <1>2, <1>3, <1>5, <1>6, <1>7, <2>1 DEF WireInv, OneAnswer, SealInv
<1>8. CASE ~(wire' = wire /\ ~Awaits(a)')
  <2>1. PICK kind \in {"register", "stage", "write", "status", "release"}, c \in Call :
              /\ wire' = Append(wire, Request(a, kind, c))
              /\ Awaits(a)' /\ kind = Asked(a)'
              /\ ~Idle(a)' => c.lo = call'[a].lo /\ c.hi = call'[a].hi
    BY <1>8
  <2>2. Request(a, kind, c) \in Entry
    BY ShapeTypes
  <2>3. \A i \in DOMAIN wire' :
          \/ i \in DOMAIN wire /\ wire'[i] = wire[i]
          \/ i = Len(wire) + 1 /\ wire'[i] = Request(a, kind, c)
    BY <2>1, <2>2, Shapes
  <2>4. /\ Request(a, kind, c).who = a /\ Request(a, kind, c).kind = kind
        /\ Request(a, kind, c).lo = c.lo /\ Request(a, kind, c).hi = c.hi
    BY DEF Request
  <2>5. WireInv'
    BY <1>6, <2>1, <2>3, <2>4 DEF WireInv
  <2>6. OneAnswer'
    <3>1. \A i, j \in DOMAIN wire' : wire'[i].who = wire'[j].who
                                       => i = j \/ wire'[i].who = "nobody"
      BY <1>1, <2>3, <2>4 DEF SealInv, OneAnswer
    <3>2. \A i \in DOMAIN wire', j \in DOMAIN replies' : wire'[i].who # replies'[j].who
      BY <1>2, <2>3, <2>4 DEF SealInv, OneAnswer
    <3>. QED
      BY <1>3, <3>1, <3>2 DEF OneAnswer
  <2>7. Owed'
    <3>1. Len(wire) + 1 \in DOMAIN wire' /\ wire'[Len(wire) + 1].who = a
          /\ \A i \in DOMAIN wire : i \in DOMAIN wire' /\ wire'[i] = wire[i]
      BY <2>1, <2>2, <2>4, Shapes
    <3>. QED
      BY <1>9, <3>1 DEF Owed
  <2>. QED
    BY <1>5, <2>5, <2>6, <2>7
<1>. QED
  BY <1>7, <1>8

(* The archive, or the loss of an answer, takes one request off an         *)
(* activity and answers it: a yes to a batch says that it is committed.    *)
LEMMA AnswersOne ==
  ASSUME TypeInv, SealInv, NEW k \in DOMAIN wire, NEW answer, UNCHANGED <<pc, call>>,
         receipts \subseteq receipts', replies' = Answered(wire[k], answer),
         answer \in {"yes", "no", "conflict", "unknown"},
         answer = "yes" => \/ wire[k].kind \notin {"write", "status", "lost"}
                           \/ /\ wire[k].kind # "lost"
                              /\ wire[k].lo .. wire[k].hi \subseteq receipts',
         \A i \in DOMAIN wire' : wire'[i].who # "nobody" =>
           \E j \in DOMAIN wire :
             /\ j # k /\ wire[j].who = wire'[i].who /\ wire'[i].kind \in {wire[j].kind, "lost"}
             /\ wire'[i].lo = wire[j].lo /\ wire'[i].hi = wire[j].hi,
         \A i, j \in DOMAIN wire' : wire'[i].who = wire'[j].who => i = j \/ wire'[i].who = "nobody",
         \A j \in DOMAIN wire : j # k => \E i \in DOMAIN wire' : wire'[i].who = wire[j].who
  PROVE  WireInv' /\ ReplyInv' /\ OneAnswer' /\ Owed'
<1>1. \A a : (Idle(a)' <=> Idle(a)) /\ (Awaits(a)' <=> Awaits(a)) /\ Asked(a)' = Asked(a)
             /\ call'[a] = call[a]
  BY DEF Idle, Awaits, Asked
<1>2. WireInv'
  <2>1. ASSUME NEW i \in DOMAIN wire', NEW b, b = wire'[i].who, b # "nobody"
        PROVE  /\ Awaits(b)' /\ wire'[i].kind \in {Asked(b)', "lost"}
               /\ ~Idle(b)' => wire'[i].lo = call'[b].lo /\ wire'[i].hi = call'[b].hi
    <3>1. PICK j \in DOMAIN wire :
             /\ j # k /\ wire[j].who = b /\ wire'[i].kind \in {wire[j].kind, "lost"}
             /\ wire'[i].lo = wire[j].lo /\ wire'[i].hi = wire[j].hi
      BY <2>1
    <3>. QED
      BY <1>1, <2>1, <3>1 DEF SealInv, WireInv
  <2>. QED
    BY <2>1 DEF WireInv
<1>3. CASE wire[k].who \in Activity
  <2>. DEFINE a == wire[k].who
              r == [who |-> a, answer |-> answer]
  <2>1. r \in Answer /\ r.who = a /\ r.answer = answer
    BY <1>3 DEF Answer
  <2>2. replies' = Append(replies, r)
    BY <1>3 DEF Answered
  <2>3. \A i \in DOMAIN replies' :
          \/ i \in DOMAIN replies /\ replies'[i] = replies[i]
          \/ i = Len(replies) + 1 /\ replies'[i] = r
    BY <2>1, <2>2, Shapes
  <2>4. /\ \A i \in DOMAIN replies : replies[i].who # a
        /\ \A i \in DOMAIN wire' : wire'[i].who # a
    BY <1>3, Names DEF SealInv, OneAnswer
  <2>5. OneAnswer'
    <3>1. \A i, j \in DOMAIN replies' : replies'[i].who = replies'[j].who => i = j
      BY <2>1, <2>3, <2>4 DEF SealInv, OneAnswer
    <3>2. \A i \in DOMAIN wire', j \in DOMAIN replies :
            wire'[i].who = "nobody" \/ wire'[i].who # replies[j].who
      BY DEF SealInv, OneAnswer
    <3>3. \A j \in DOMAIN replies : replies[j].who # "nobody"
      BY Shapes, Names DEF Answer
    <3>4. \A i \in DOMAIN wire', j \in DOMAIN replies' : wire'[i].who # replies'[j].who
      BY <2>1, <2>3, <2>4, <3>2, <3>3
    <3>. QED
      BY <3>1, <3>4 DEF OneAnswer
  <2>6. /\ Awaits(a) /\ wire[k].kind \in {Asked(a), "lost"}
        /\ ~Idle(a) => wire[k].lo = call[a].lo /\ wire[k].hi = call[a].hi
    BY <1>3, Names DEF SealInv, WireInv
  <2>7. answer = "yes" /\ ~Idle(a) /\ call[a].step # "stage"
          => call[a].lo .. call[a].hi \subseteq receipts'
    <3>1. SUFFICES ASSUME answer = "yes", ~Idle(a), call[a].step # "stage"
                   PROVE  call[a].lo .. call[a].hi \subseteq receipts'
      OBVIOUS
    <3>2. call[a].step \in {"write", "probe", "recheck"}
      BY <1>3, <3>1, Shapes DEF Call, Steps, Idle
    <3>3. Asked(a) \in {"write", "status"}
      BY <3>1, <3>2 DEF Asked
    <3>. QED
      BY <2>6, <3>1, <3>3
  <2>8. ASSUME NEW i \in DOMAIN replies', NEW b, b = replies'[i].who
        PROVE  /\ Awaits(b)'
               /\ replies'[i].answer = "yes" /\ ~Idle(b)' /\ call'[b].step # "stage"
                    => call'[b].lo .. call'[b].hi \subseteq receipts'
    <3>1. CASE i \in DOMAIN replies /\ replies'[i] = replies[i]
      BY <1>1, <2>8, <3>1 DEF SealInv, ReplyInv, Batch
    <3>2. CASE replies'[i] = r
      BY <1>1, <2>1, <2>6, <2>7, <2>8, <3>2
    <3>. QED
      BY <2>3, <3>1, <3>2
  <2>9. Owed'
    <3>1. /\ \A i \in DOMAIN replies : i \in DOMAIN replies' /\ replies'[i] = replies[i]
          /\ Len(replies) + 1 \in DOMAIN replies' /\ replies'[Len(replies) + 1].who = a
      BY <2>1, <2>2, Shapes
    <3>2. ASSUME NEW b \in Activity, Awaits(b)'
          PROVE  \/ \E i \in DOMAIN wire' : wire'[i].who = b
                 \/ \E i \in DOMAIN replies' : replies'[i].who = b
      <4>1. Awaits(b)
        BY <1>1, <3>2
      <4>2. CASE \E i \in DOMAIN wire : i # k /\ wire[i].who = b
        BY <4>2
      <4>. QED
        BY <3>1, <4>1, <4>2 DEF SealInv, Owed
    <3>. QED
      BY <3>2 DEF Owed
  <2>. QED
    BY <1>2, <2>5, <2>8, <2>9 DEF ReplyInv, Batch
<1>4. CASE wire[k].who \notin Activity
  <2>1. replies' = replies
    BY <1>4 DEF Answered
  <2>2. OneAnswer'
    <3>1. \A i \in DOMAIN wire', j \in DOMAIN replies' :
            wire'[i].who = "nobody" \/ wire'[i].who # replies'[j].who
      BY <2>1 DEF SealInv, OneAnswer
    <3>2. \A j \in DOMAIN replies' : replies'[j].who # "nobody"
      BY <2>1, Shapes, Names DEF Answer
    <3>. QED
      BY <2>1, <3>1, <3>2 DEF SealInv, OneAnswer
  <2>3. ASSUME NEW i \in DOMAIN replies', NEW b, b = replies'[i].who
        PROVE  /\ Awaits(b)'
               /\ replies'[i].answer = "yes" /\ ~Idle(b)' /\ call'[b].step # "stage"
                    => call'[b].lo .. call'[b].hi \subseteq receipts'
    BY <1>1, <2>1, <2>3 DEF SealInv, ReplyInv, Batch
  <2>4. ASSUME NEW b \in Activity, Awaits(b)'
        PROVE  \/ \E i \in DOMAIN wire' : wire'[i].who = b
               \/ \E i \in DOMAIN replies' : replies'[i].who = b
    <3>1. Awaits(b)
      BY <1>1, <2>4
    <3>2. CASE \E i \in DOMAIN wire : i # k /\ wire[i].who = b
      BY <3>2
    <3>. QED
      BY <1>4, <2>1, <3>1, <3>2 DEF SealInv, Owed
  <2>. QED
    BY <1>2, <2>2, <2>3, <2>4 DEF ReplyInv, Batch, Owed
<1>. QED
  BY <1>3, <1>4

(* The answer that the owner gives to the request it serves.               *)
LEMMA ServeAnswer ==
  ASSUME TypeInv, Serve
  PROVE  \E answer \in {"yes", "no", "conflict", "unknown"} :
           /\ replies' = Answered(Head(wire), answer)
           /\ answer = "yes" => \/ Head(wire).kind \notin {"write", "status", "lost"}
                                \/ /\ Head(wire).kind # "lost"
                                   /\ Head(wire).lo .. Head(wire).hi \subseteq receipts'
<1>. DEFINE e == Head(wire)
<1>1. CASE ServeWrite(e)
  BY <1>1 DEF ServeWrite, Committed, archiveVars
<1>2. CASE ServeStatus(e)
  BY <1>2 DEF ServeStatus, Committed, archiveVars
<1>3. CASE ServeStage(e) \/ ServeRegister(e) \/ ServeRelease(e)
  BY <1>3 DEF ServeStage, ServeRegister, ServeRelease
<1>4. CASE ServeLost(e)
  BY <1>4 DEF ServeLost
<1>. QED
  BY <1>1, <1>2, <1>3, <1>4 DEF Serve

(* What the owner answers, and what is lost on the way, keeps one request  *)
(* or answer per activity.                                                 *)
LEMMA ArchiveExchange ==
  ASSUME TypeInv, SealInv, Serve \/ Losses
  PROVE  WireInv' /\ ReplyInv' /\ OneAnswer' /\ Owed'
<1>1. CASE Serve
  <2>1. /\ wire # <<>> /\ wire' = Tail(wire) /\ UNCHANGED <<pc, call>>
        /\ 1 \in DOMAIN wire /\ Head(wire) = wire[1]
    BY <1>1, Shapes, HeadTail DEF Serve, producerVars
  <2>2. receipts \subseteq receipts'
    BY <1>1, ServeEffect
  <2>3. \A i \in DOMAIN wire' : i \in Nat /\ i >= 1 /\ i + 1 \in DOMAIN wire
                                /\ wire'[i] = wire[i + 1] /\ i + 1 # 1
    BY <2>1, Shapes
  <2>4. \A i, j \in DOMAIN wire' : wire'[i].who = wire'[j].who
                                     => i = j \/ wire'[i].who = "nobody"
    BY <2>3 DEF SealInv, OneAnswer
  <2>5. PICK answer \in {"yes", "no", "conflict", "unknown"} :
           /\ replies' = Answered(wire[1], answer)
           /\ answer = "yes" => \/ wire[1].kind \notin {"write", "status", "lost"}
                                \/ /\ wire[1].kind # "lost"
                                   /\ wire[1].lo .. wire[1].hi \subseteq receipts'
    BY <1>1, <2>1, ServeAnswer
  <2>6. ASSUME NEW j \in DOMAIN wire, j # 1
        PROVE  \E i \in DOMAIN wire' : wire'[i].who = wire[j].who
    <3>1. j - 1 \in DOMAIN wire' /\ wire'[j - 1] = wire[j]
      <4>1. j \in 1 .. Len(wire) /\ Len(wire) \in Nat
        BY Shapes
      <4>. QED
        BY <2>1, <2>6, <4>1, Shapes
    <3>. QED
      BY <3>1
  <2>. QED
    BY <2>1, <2>2, <2>3, <2>4, <2>5, <2>6, AnswersOne
<1>2. CASE OwnerLost
  <2>1. /\ UNCHANGED <<pc, call, replies, receipts>> /\ DOMAIN wire' = DOMAIN wire
        /\ \A i \in DOMAIN wire : wire'[i] = [wire[i] EXCEPT !.kind = "lost"]
    BY <1>2 DEF OwnerLost, producerVars, archiveVars
  <2>2. \A i \in DOMAIN wire : /\ wire'[i].who = wire[i].who /\ wire'[i].kind = "lost"
                               /\ wire'[i].lo = wire[i].lo /\ wire'[i].hi = wire[i].hi
    BY <2>1, Shapes DEF Entry
  <2>3. WireInv' /\ ReplyInv'
    BY <2>1, <2>2 DEF SealInv, WireInv, ReplyInv, Awaits, Asked, Idle, Batch
  <2>4. OneAnswer'
    BY <2>1, <2>2 DEF SealInv, OneAnswer
  <2>5. Owed'
    BY <2>1, <2>2 DEF SealInv, Owed, Awaits, Idle
  <2>. QED
    BY <2>3, <2>4, <2>5
<1>3. ASSUME NEW k \in DOMAIN wire, ReplyLost(k)
      PROVE  WireInv' /\ ReplyInv' /\ OneAnswer' /\ Owed'
  <2>1. PICK kind \in {wire[k].kind, "lost"} :
            wire' = [wire EXCEPT ![k] = [wire[k] EXCEPT !.who = "nobody", !.kind = kind]]
    BY <1>3 DEF ReplyLost
  <2>2. /\ UNCHANGED <<pc, call, receipts>> /\ replies' = Answered(wire[k], "unknown")
    BY <1>3 DEF ReplyLost, producerVars, archiveVars
  <2>3. /\ DOMAIN wire' = DOMAIN wire /\ wire'[k].who = "nobody"
        /\ \A i \in DOMAIN wire : i # k => wire'[i] = wire[i]
    BY <2>1, Shapes DEF Entry
  <2>4. \A i, j \in DOMAIN wire' : wire'[i].who = wire'[j].who
                                     => i = j \/ wire'[i].who = "nobody"
    BY <2>3 DEF SealInv, OneAnswer
  <2>. QED
    BY <2>2, <2>3, <2>4, AnswersOne
<1>. QED
  BY <1>1, <1>2, <1>3 DEF Losses

-----------------------------------------------------------------------------
(* Sending a new batch.                                                    *)
LEMMA Starts ==
  ASSUME TypeInv, NEW a \in Activity, NEW first \in {"stage", "write"},
         NEW lo \in 0 .. MaxSequence, NEW hi \in 0 .. MaxSequence, NEW final \in BOOLEAN,
         StartCommit(a, first, lo, hi, final)
  PROVE  /\ \A b \in Activity : b # a => call'[b] = call[b]
         /\ call'[a].step = first /\ call'[a].lo = lo /\ call'[a].hi = hi
         /\ call'[a].final = final
         /\ ~Idle(a)' /\ Awaits(a)' /\ Asked(a)' = first
         /\ call'[a] \in Call /\ Request(a, first, call'[a]) \in Entry
         /\ wire' = Append(wire, Request(a, first, call'[a]))
<1>. DEFINE c == [step |-> first, first |-> first, lo |-> lo, hi |-> hi, final |-> final,
                  attempt |-> 0]
<1>1. call' = [call EXCEPT ![a] = c] /\ wire' = Append(wire, Request(a, first, c))
  BY DEF StartCommit
<1>2. call'[a] = c /\ \A b \in Activity : b # a => call'[b] = call[b]
  BY <1>1, Shapes
<1>3. c \in Call
  BY BoundsAssumption DEF Call, Steps, Sequence
<1>4. Request(a, first, c) \in Entry
  BY <1>3, ShapeTypes
<1>. QED
  BY <1>1, <1>2, <1>3, <1>4 DEF Idle, Awaits, Asked

(* The batch of a checkpoint or of an inline flush.                        *)
LEMMA StartsCheckpoint ==
  ASSUME TypeInv, StartCheckpoint, taken <= sequence, sequence <= MaxSequence - 1
  PROVE  \E first \in {"stage", "write"} :
           /\ \A b \in Activity : b # "loop" => call'[b] = call[b]
           /\ call'["loop"].lo = taken + 1 /\ call'["loop"].hi = sequence + 1
           /\ call'["loop"].final <=> op = "final"
           /\ ~Idle("loop")' /\ Awaits("loop")' /\ Asked("loop")' = first
           /\ call'["loop"] \in Call /\ Request("loop", first, call'["loop"]) \in Entry
           /\ wire' = Append(wire, Request("loop", first, call'["loop"]))
<1>1. taken + 1 \in 0 .. MaxSequence /\ sequence + 1 \in 0 .. MaxSequence
  BY Shapes
<1>2. CASE op = "final"
  <2>1. StartCommit("loop", "stage", taken + 1, sequence + 1, TRUE)
    BY <1>2 DEF StartCheckpoint
  <2>. QED
    BY <1>1, <1>2, <2>1, Starts, Names
<1>3. CASE op = "raw"
  <2>1. StartCommit("loop", "stage", taken + 1, sequence + 1, FALSE)
    BY <1>3 DEF StartCheckpoint
  <2>. QED
    BY <1>1, <1>3, <2>1, Starts, Names
<1>4. CASE op \notin {"raw", "final"}
  <2>1. StartCommit("loop", "write", taken + 1, sequence + 1, FALSE)
    BY <1>4 DEF StartCheckpoint
  <2>. QED
    BY <1>1, <1>4, <2>1, Starts, Names
<1>. QED
  BY <1>2, <1>3, <1>4

(* commit() of an activity ends on an answer to it; on a yes its batch is  *)
(* committed.                                                              *)
LEMMA Ends ==
  ASSUME TypeInv, SealInv, NEW a \in Activity, NEW ok, Returns(a, ok)
  PROVE  /\ \A b \in Activity : b # a => call'[b] = call[b]
         /\ Idle(a)' /\ ~Idle(a) /\ ~call'[a].final
         /\ Reply(a) # "none" /\ replies' = Tail(replies)
         /\ ok => Batch(a) \subseteq receipts
<1>1. /\ ~Idle(a) /\ call' = [call EXCEPT ![a] = NoCall] /\ replies' = Tail(replies)
      /\ Reply(a) # "none" /\ (ok => Reply(a) = "yes" /\ call[a].step # "stage")
  BY DEF Returns, Done
<1>2. call'[a] = NoCall /\ \A b \in Activity : b # a => call'[b] = call[b]
  BY <1>1, Shapes
<1>3. 1 \in DOMAIN replies /\ replies[1].who = a /\ replies[1].answer = Reply(a)
  BY <1>1, Answering
<1>4. ok => Batch(a) \subseteq receipts
  BY <1>1, <1>3 DEF SealInv, ReplyInv
<1>. QED
  BY <1>1, <1>2, <1>4 DEF Idle, NoCall

(* commit() sends its next request for the same batch.                     *)
LEMMA Resends ==
  ASSUME TypeInv, SealInv, NEW a \in Activity, Retry(a)
  PROVE  /\ \A b \in Activity : b # a => call'[b] = call[b]
         /\ ~Idle(a) /\ ~Idle(a)' /\ Reply(a) # "none" /\ replies' = Tail(replies)
         /\ call'[a].lo = call[a].lo /\ call'[a].hi = call[a].hi
         /\ call'[a].final = call[a].final /\ call'[a] \in Call
         /\ \E kind \in {"stage", "write", "status"} :
              /\ wire' = Append(wire, Request(a, kind, call'[a]))
              /\ kind = Asked(a)' /\ Request(a, kind, call'[a]) \in Entry
         /\ UNCHANGED <<producerVars, lease, archiveVars, admitted, faults>>
<1>. DEFINE next == NextStep(call[a], Reply(a))
            kind == IF next.step \in {"probe", "recheck"} THEN "status" ELSE next.step
<1>1. /\ ~Idle(a) /\ call' = [call EXCEPT ![a] = next] /\ replies' = Tail(replies)
      /\ Reply(a) # "none" /\ wire' = Append(wire, Request(a, kind, next))
      /\ UNCHANGED <<producerVars, lease, archiveVars, admitted, faults>>
  BY DEF Retry, Continues
<1>2. call[a] \in Call /\ call[a].step # "idle"
      /\ (call[a].step = "probe" => call[a].attempt + 1 < MaxAttempts)
  BY BoundsAssumption, Shapes DEF Call, Retry, Continues, GaveUp, Done, Idle
<1>3. /\ next \in Call /\ next.step \in Steps \ {"idle"}
      /\ next.lo = call[a].lo /\ next.hi = call[a].hi
  BY <1>2, NextStepType
<1>4. next.final = call[a].final
  BY <1>2 DEF NextStep, Call
<1>5. call'[a] = next /\ \A b \in Activity : b # a => call'[b] = call[b]
  BY <1>1, Shapes
<1>6. kind \in {"stage", "write", "status"} /\ Request(a, kind, next) \in Entry
  BY <1>3, ShapeTypes DEF Steps
<1>7. ~Idle(a)' /\ kind = Asked(a)'
  BY <1>3, <1>5 DEF Idle, Asked, Steps
<1>. QED
  BY <1>1, <1>3, <1>4, <1>5, <1>6, <1>7

(* Every step of the producer leaves one request or answer per activity.   *)
LEMMA ProducerExchange ==
  ASSUME TypeInv, SealInv, TypeInv',
         Loop \/ Provider \/ TimerFires \/ FlushEnds \/ Retries
  PROVE  Callers' /\ WireInv' /\ ReplyInv' /\ OneAnswer' /\ Owed'
<1>0. "loop" \in Activity /\ NoCall \in Call
  BY Names, NoCallType
<1>1. CASE AcquireLease
  <2>1. Idle("loop") /\ ~Awaits("loop") /\ UNCHANGED <<call, replies, receipts>>
        /\ pc' = "registering" /\ wire' = Append(wire, Request("loop", "register", NoCall))
    BY <1>1 DEF AcquireLease, SealInv, Callers, Awaits, archiveVars
  <2>2. Idle("loop")' /\ Awaits("loop")' /\ Asked("loop")' = "register"
    BY <2>1 DEF Idle, Awaits, Asked
  <2>. QED
    BY <1>0, <2>1, <2>2, Exchange DEF Callers
<1>2. CASE Registered
  <2>1. Reply("loop") # "none" /\ replies' = Tail(replies) /\ receipts' = receipts
        /\ pc = "registering" /\ Idle("loop")
    BY <1>2 DEF Registered, SealInv, Callers, archiveVars
  <2>2. CASE pc' = "creating"
    <3>1. StartCommit("loop", "write", 0, 0, FALSE)
      BY <1>2, <2>2 DEF Registered
    <3>2. 0 \in 0 .. MaxSequence
      BY BoundsAssumption
    <3>. QED
      BY <1>0, <2>1, <2>2, <3>1, <3>2, Starts, Exchange DEF Callers
  <2>3. CASE pc' # "creating"
    <3>1. pc' = "settling" /\ UNCHANGED <<call, wire>>
      BY <1>2, <2>3 DEF Registered
    <3>2. Idle("loop")' /\ ~Awaits("loop")'
      BY <2>1, <3>1 DEF Idle, Awaits
    <3>. QED
      BY <1>0, <2>1, <3>1, <3>2, Exchange DEF Callers
  <2>. QED
    BY <2>2, <2>3
<1>3. CASE Created \/ Checkpointed \/ RunFails
  <2>1. \E ok \in BOOLEAN : Returns("loop", ok)
    BY <1>3 DEF Created, Checkpointed, RunFails
  <2>2. pc' \in {"streaming", "settling"} /\ UNCHANGED <<wire, receipts>>
    BY <1>3 DEF Created, Checkpointed, RunFails, archiveVars
  <2>3. Idle("loop")'
    BY <1>0, <2>1, Ends
  <2>4. ~Awaits("loop")'
    BY <2>2, <2>3 DEF Awaits
  <2>. QED
    BY <1>0, <2>1, <2>2, <2>3, <2>4, Ends, Exchange DEF Callers
<1>4. CASE Settled \/ Hashed \/ Provider
  <2>1. /\ pc \in {"draining", "hashing", "streaming"} /\ UNCHANGED <<replies, receipts>>
        /\ pc' \in {"draining", "hashing", "streaming", "settling", "checkpoint"}
        /\ pc' = "checkpoint" => StartCheckpoint
        /\ pc' # "checkpoint" => UNCHANGED <<call, wire>>
    BY <1>4 DEF Settled, Hashed, SendCheckpoint, Provider, Text, Checkpoint, archiveVars
  <2>2. Idle("loop") /\ ~Awaits("loop")
    BY <2>1 DEF SealInv, Callers, Awaits
  <2>3. CASE pc' = "checkpoint"
    <3>1. taken <= sequence /\ sequence <= MaxSequence - 1
      BY <2>1 DEF TypeInv, Counted, Late
    <3>2. PICK first \in {"stage", "write"} :
            /\ \A b \in Activity : b # "loop" => call'[b] = call[b]
            /\ ~Idle("loop")' /\ Awaits("loop")' /\ Asked("loop")' = first
            /\ call'["loop"] \in Call
            /\ wire' = Append(wire, Request("loop", first, call'["loop"]))
      BY <2>1, <2>3, <3>1, StartsCheckpoint
    <3>. QED
      BY <1>0, <2>1, <2>2, <2>3, <3>2, Exchange DEF Callers
  <2>4. CASE pc' # "checkpoint"
    <3>1. Idle("loop")' /\ ~Awaits("loop")' /\ UNCHANGED <<call, wire>>
      BY <2>1, <2>2, <2>4 DEF Idle, Awaits
    <3>. QED
      BY <1>0, <2>1, <2>2, <2>4, <3>1, Exchange DEF Callers
  <2>. QED
    BY <2>3, <2>4
<1>5. CASE Settle
  <2>1. Idle("loop") /\ ~Awaits("loop") /\ UNCHANGED <<call, replies, receipts>>
        /\ pc' = "releasing" /\ wire' = Append(wire, Request("loop", "release", NoCall))
    BY <1>5 DEF Settle, SealInv, Callers, Awaits, archiveVars
  <2>2. Idle("loop")' /\ Awaits("loop")' /\ Asked("loop")' = "release"
    BY <2>1 DEF Idle, Awaits, Asked
  <2>. QED
    BY <1>0, <2>1, <2>2, Exchange DEF Callers
<1>6. CASE ReleaseLease
  <2>1. Reply("loop") # "none" /\ replies' = Tail(replies) /\ UNCHANGED <<call, wire, receipts>>
        /\ pc' = "done" /\ Idle("loop")
    BY <1>6 DEF ReleaseLease, SealInv, Callers, archiveVars
  <2>2. Idle("loop")' /\ ~Awaits("loop")'
    BY <2>1 DEF Idle, Awaits
  <2>. QED
    BY <1>0, <2>1, <2>2, Exchange DEF Callers
<1>7. CASE TimerFires
  <2>1. UNCHANGED <<pc, replies, receipts>>
    BY <1>7 DEF TimerFires, archiveVars
  <2>2. CASE UNCHANGED <<call, wire>>
    BY <2>1, <2>2
    DEF SealInv, Callers, WireInv, ReplyInv, OneAnswer, Owed, Awaits, Asked, Idle, Batch
  <2>3. CASE ~UNCHANGED <<call, wire>>
    <3>1. PICK f \in Flusher : Idle(f) /\ StartCommit(f, "write", taken + 1, sequence, FALSE)
      BY <1>7, <2>3 DEF TimerFires
    <3>2. taken + 1 \in 0 .. MaxSequence /\ sequence \in 0 .. MaxSequence
      <4>1. taken + 1 .. sequence # {}
        BY <1>7, <2>3 DEF TimerFires, Pending
      <4>. QED
        BY <4>1, BoundsAssumption DEF TypeInv, TypeOK
    <3>3. f \in Activity /\ f # "loop" /\ ~Awaits(f)
      BY <3>1, Names DEF Activity, Awaits
    <3>4. Idle("loop")' <=> Idle("loop")
      BY <1>0, <3>1, <3>2, <3>3, Starts DEF Idle
    <3>. QED
      BY <2>1, <3>1, <3>2, <3>3, <3>4, Starts, Exchange DEF Callers, SealInv
  <2>. QED
    BY <2>2, <2>3
<1>8. ASSUME NEW f \in Flusher, Flushed(f) \/ FlushFails(f)
      PROVE  Callers' /\ WireInv' /\ ReplyInv' /\ OneAnswer' /\ Owed'
  <2>1. UNCHANGED <<pc, wire, receipts>> /\ \E ok \in BOOLEAN : Returns(f, ok)
    BY <1>8 DEF Flushed, FlushFails, archiveVars
  <2>2. f \in Activity /\ f # "loop"
    BY Names DEF Activity
  <2>3. Idle("loop")' <=> Idle("loop")
    BY <1>0, <2>1, <2>2, Ends DEF Idle
  <2>4. ~Awaits(f)'
    BY <2>1, <2>2, Ends DEF Awaits
  <2>. QED
    BY <2>1, <2>2, <2>3, <2>4, Ends, Exchange DEF Callers, SealInv
<1>9. ASSUME NEW a \in Activity, Retry(a)
      PROVE  Callers' /\ WireInv' /\ ReplyInv' /\ OneAnswer' /\ Owed'
  <2>1. Idle("loop")' <=> Idle("loop")
    BY <1>0, <1>9, Resends DEF Idle
  <2>2. UNCHANGED <<pc, receipts>>
    BY <1>9, Resends DEF producerVars, archiveVars
  <2>3. Awaits(a)'
    BY <1>9, Resends DEF Awaits
  <2>. QED
    BY <1>9, <2>1, <2>2, <2>3, Resends, Exchange DEF Callers, SealInv
<1>. QED
  BY <1>1, <1>2, <1>3, <1>4, <1>5, <1>6, <1>7, <1>8, <1>9 DEF Loop, FlushEnds, Retries

(* A lost context leaves requests that nobody waits for.                   *)
LEMMA LostExchange ==
  ASSUME TypeInv, ContextLost
  PROVE  Callers' /\ WireInv' /\ ReplyInv' /\ OneAnswer' /\ Owed'
<1>1. /\ pc' = "crashed" /\ replies' = <<>> /\ \A a \in Activity : call'[a] = NoCall
      /\ wire' = [i \in DOMAIN wire |-> [wire[i] EXCEPT !.who = "nobody"]]
  BY DEF ContextLost
<1>2. \A i \in DOMAIN wire' : wire'[i].who = "nobody"
  BY <1>1, Shapes DEF Entry
<1>3. Idle("loop")'
  BY <1>1, Names DEF Idle, NoCall
<1>. QED
  BY <1>1, <1>2, <1>3 DEF Callers, WireInv, ReplyInv, OneAnswer, Owed, Awaits, Idle, NoCall

-----------------------------------------------------------------------------
(* The producer's steps leave the archive alone; the archive's leave the   *)
(* producer alone, lose nothing committed and never undo a seal.           *)
LEMMA ProducerOnly ==
  ASSUME Loop \/ Provider \/ TimerFires \/ FlushEnds \/ ContextLost \/ Retries
  PROVE  UNCHANGED <<row, last, receipts, seal>>
BY DEF Loop, AcquireLease, Registered, Created, Settled, Hashed, Checkpointed, RunFails,
   Settle, ReleaseLease, Provider, Text, Checkpoint, TimerFires, FlushEnds, Flushed,
   FlushFails, ContextLost, Retries, Retry, archiveVars

(* The archive's steps leave the producer and its calls alone, and lose no *)
(* receipt.                                                                *)
LEMMA ArchiveOnly ==
  ASSUME TypeInv, Admit \/ Serve \/ Reconcile \/ Losses
  PROVE  /\ UNCHANGED <<producerVars, call>> /\ receipts \subseteq receipts'
         /\ seal = "complete" => seal' = "complete" /\ UNCHANGED last
<1>1. CASE Serve
  <2>1. UNCHANGED <<producerVars, call>>
    BY <1>1 DEF Serve
  <2>2. receipts \subseteq receipts' /\ (seal = "complete" => seal' = "complete" /\ UNCHANGED last)
    BY <1>1, ServeEffect
  <2>. QED
    BY <2>1, <2>2
<1>2. CASE Reconcile
  BY <1>2 DEF Reconcile, Finished
<1>3. CASE Losses
  BY <1>3 DEF Losses, OwnerLost, ReplyLost, archiveVars
<1>4. CASE Admit
  BY <1>4 DEF Admit, archiveVars
<1>. QED
  BY <1>1, <1>2, <1>3, <1>4

(* What the loop has taken stays committed or under way.                   *)
LEMMA UnderwayArchive ==
  ASSUME TypeInv, SealInv, Admit \/ Serve \/ Reconcile \/ Losses
  PROVE  Underway'
<1>1. UNCHANGED <<producerVars, call>> /\ receipts \subseteq receipts'
  BY ArchiveOnly
<1>. QED
  BY <1>1 DEF SealInv, Underway, producerVars, Idle, Batch

(* The producer's steps keep what was taken committed or under way.        *)
LEMMA UnderwayProducer ==
  ASSUME TypeInv, SealInv, Loop \/ Provider \/ TimerFires \/ FlushEnds \/ ContextLost \/ Retries
  PROVE  Underway'
<1>0. receipts' = receipts /\ "loop" \in Activity
  BY ProducerOnly, Names
<1>1. ASSUME NEW a \in Activity,
             \A b \in Activity : b # a => call'[b] = call[b],
             \/ Idle(a)
             \/ Batch(a) \subseteq receipts
             \/ ~Idle(a)' /\ call'[a].lo = call[a].lo /\ call'[a].hi = call[a].hi
      PROVE  \A n : (\E b \in Activity : ~Idle(b) /\ n \in Batch(b))
               => n \in receipts' \/ \E b \in Activity : ~Idle(b)' /\ n \in Batch(b)'
  <2>1. ASSUME NEW n, NEW b \in Activity, ~Idle(b), n \in Batch(b)
        PROVE  n \in receipts' \/ \E g \in Activity : ~Idle(g)' /\ n \in Batch(g)'
    <3>1. CASE b = a
      BY <1>0, <1>1, <2>1, <3>1 DEF Batch, Idle
    <3>2. CASE b # a
      BY <1>1, <2>1, <3>2 DEF Batch, Idle
    <3>. QED
      BY <3>1, <3>2
  <2>. QED
    BY <2>1
<1>2. CASE AcquireLease \/ Settle \/ ReleaseLease
  BY <1>0, <1>2 DEF AcquireLease, Settle, ReleaseLease, SealInv, Underway, Late
<1>3. CASE ContextLost \/ RunFails
  BY <1>3 DEF ContextLost, RunFails, Underway, Late
<1>4. CASE Registered
  <2>1. CASE pc' = "creating"
    <3>1. StartCommit("loop", "write", 0, 0, FALSE) /\ UNCHANGED <<sequence, taken>>
      BY <1>4, <2>1 DEF Registered
    <3>2. 0 \in 0 .. MaxSequence
      BY BoundsAssumption
    <3>3. ~Idle("loop")' /\ call'["loop"].lo = 0 /\ call'["loop"].hi = 0
      BY <1>0, <3>1, <3>2, Starts
    <3>4. pc = "registering" /\ sequence = 0 /\ taken = 0
      BY <1>4 DEF Registered, SealInv, Underway
    <3>5. \A n \in 0 .. 0 : n \in Batch("loop")'
      BY <3>3 DEF Batch
    <3>. QED
      BY <1>0, <2>1, <3>1, <3>3, <3>4, <3>5 DEF Underway
  <2>2. CASE pc' # "creating"
    BY <1>4, <2>2 DEF Registered, Underway, Late
  <2>. QED
    BY <2>1, <2>2
<1>5. CASE Created \/ Checkpointed
  <2>1. Returns("loop", TRUE) /\ UNCHANGED <<taken, flushFailed>>
        /\ pc \in {"creating", "checkpoint"} /\ pc' \in {"streaming", "settling"}
    BY <1>5 DEF Created, Checkpointed
  <2>2. /\ \A b \in Activity : b # "loop" => call'[b] = call[b]
        /\ Batch("loop") \subseteq receipts
    BY <1>0, <2>1, Ends
  <2>3. \A n : (\E b \in Activity : ~Idle(b) /\ n \in Batch(b))
          => n \in receipts' \/ \E b \in Activity : ~Idle(b)' /\ n \in Batch(b)'
    BY <1>0, <1>1, <2>2
  <2>. QED
    BY <1>0, <2>1, <2>3 DEF SealInv, Underway, Late
<1>6. CASE Settled \/ Hashed \/ Provider
  <2>1. /\ pc \in {"draining", "hashing", "streaming"} /\ UNCHANGED flushFailed
        /\ pc' \in {"draining", "hashing", "streaming", "settling", "checkpoint"}
        /\ pc' = "checkpoint" => StartCheckpoint /\ taken' = sequence + 1
        /\ pc' # "checkpoint" => UNCHANGED <<call, taken>>
    BY <1>6 DEF Settled, Hashed, SendCheckpoint, Provider, Text, Checkpoint
  <2>2. CASE pc' = "checkpoint"
    <3>1. Idle("loop")
      BY <2>1 DEF SealInv, Callers
    <3>2. taken <= sequence /\ sequence <= MaxSequence - 1
      BY <2>1 DEF TypeInv, Counted, Late
    <3>3. /\ \A b \in Activity : b # "loop" => call'[b] = call[b]
          /\ call'["loop"].lo = taken + 1 /\ call'["loop"].hi = sequence + 1
          /\ ~Idle("loop")'
      BY <2>1, <2>2, <3>2, StartsCheckpoint
    <3>4. \A n : (\E b \in Activity : ~Idle(b) /\ n \in Batch(b))
            => n \in receipts' \/ \E b \in Activity : ~Idle(b)' /\ n \in Batch(b)'
      BY <1>0, <1>1, <3>1, <3>3
    <3>5. \A n \in 0 .. sequence + 1 : n \in 0 .. taken \/ n \in Batch("loop")'
      BY <3>3, Shapes DEF Batch
    <3>6. ~flushFailed => \A n \in 0 .. taken :
            n \in receipts \/ \E a \in Activity : ~Idle(a) /\ n \in Batch(a)
      BY <2>1 DEF SealInv, Underway, Late
    <3>. QED
      BY <1>0, <2>1, <2>2, <3>3, <3>4, <3>5, <3>6 DEF Underway
  <2>3. CASE pc' # "checkpoint"
    BY <1>0, <2>1, <2>3 DEF SealInv, Underway, Late, Idle, Batch
  <2>. QED
    BY <2>2, <2>3
<1>7. CASE TimerFires
  <2>1. UNCHANGED <<pc, sequence, flushFailed>>
    BY <1>7 DEF TimerFires
  <2>2. CASE UNCHANGED <<taken, call>>
    BY <1>0, <2>1, <2>2 DEF SealInv, Underway, Idle, Batch
  <2>3. CASE ~UNCHANGED <<taken, call>>
    <3>1. PICK f \in Flusher : Idle(f) /\ StartCommit(f, "write", taken + 1, sequence, FALSE)
      BY <1>7, <2>3 DEF TimerFires
    <3>2. taken' = sequence /\ timer /\ taken + 1 .. sequence # {}
      BY <1>7, <2>3 DEF TimerFires, Pending
    <3>3. taken + 1 \in 0 .. MaxSequence /\ sequence \in 0 .. MaxSequence
      BY <3>2, BoundsAssumption DEF TypeInv, TypeOK
    <3>4. f \in Activity
      BY DEF Activity
    <3>5. /\ \A b \in Activity : b # f => call'[b] = call[b]
          /\ call'[f].lo = taken + 1 /\ call'[f].hi = sequence /\ ~Idle(f)'
      BY <3>1, <3>3, <3>4, Starts
    <3>6. \A n : (\E b \in Activity : ~Idle(b) /\ n \in Batch(b))
            => n \in receipts' \/ \E b \in Activity : ~Idle(b)' /\ n \in Batch(b)'
      BY <1>1, <3>1, <3>4, <3>5
    <3>7. \A n \in 0 .. sequence : n \in 0 .. taken \/ n \in Batch(f)'
      BY <3>5, Shapes DEF Batch
    <3>8. pc \notin {"start", "registering", "creating"}
      BY <3>2 DEF TypeInv, Counted
    <3>9. pc \notin Late /\ ~flushFailed => \A n \in 0 .. taken :
            n \in receipts \/ \E a \in Activity : ~Idle(a) /\ n \in Batch(a)
      BY <3>8 DEF SealInv, Underway
    <3>. QED
      BY <1>0, <2>1, <3>2, <3>4, <3>5, <3>6, <3>7, <3>8, <3>9 DEF Underway
  <2>. QED
    BY <2>2, <2>3
<1>8. ASSUME NEW f \in Flusher, Flushed(f)
      PROVE  Underway'
  <2>1. Returns(f, TRUE) /\ f \in Activity /\ UNCHANGED <<pc, sequence, taken, flushFailed>>
    BY <1>8 DEF Flushed, Activity
  <2>2. \A b \in Activity : b # f => call'[b] = call[b]
    BY <2>1, Ends
  <2>3. Batch(f) \subseteq receipts
    BY <2>1, Ends
  <2>4. \A n : (\E b \in Activity : ~Idle(b) /\ n \in Batch(b))
          => n \in receipts' \/ \E b \in Activity : ~Idle(b)' /\ n \in Batch(b)'
    BY <1>1, <2>1, <2>2, <2>3
  <2>. QED
    BY <1>0, <2>1, <2>4 DEF SealInv, Underway
<1>9. ASSUME NEW f \in Flusher, FlushFails(f)
      PROVE  Underway'
  BY <1>9 DEF FlushFails, SealInv, Underway
<1>10. ASSUME NEW a \in Activity, Retry(a)
       PROVE  Underway'
  <2>1. /\ \A b \in Activity : b # a => call'[b] = call[b]
        /\ ~Idle(a)' /\ call'[a].lo = call[a].lo /\ call'[a].hi = call[a].hi
        /\ UNCHANGED <<pc, sequence, taken, flushFailed>>
    BY <1>10, Resends DEF producerVars
  <2>2. \A n : (\E b \in Activity : ~Idle(b) /\ n \in Batch(b))
          => n \in receipts' \/ \E b \in Activity : ~Idle(b)' /\ n \in Batch(b)'
    BY <1>1, <2>1
  <2>. QED
    BY <1>0, <2>1, <2>2 DEF SealInv, Underway
<1>. QED
  BY <1>2, <1>3, <1>4, <1>5, <1>6, <1>7, <1>8, <1>9, <1>10 DEF Loop, FlushEnds, Retries

-----------------------------------------------------------------------------
(* How far a step takes the count of mutations: the run never makes one    *)
(* after its final batch.                                                  *)
LEMMA Course ==
  ASSUME TypeInv, SealInv, Next
  PROVE  /\ Limit <= Limit' /\ Newest \in Nat /\ Limit \in Nat /\ Limit' \in Int
         /\ Ending => Ending' /\ Newest' <= Newest
         /\ Sealing => UNCHANGED <<pc, op, sequence>> \/ pc' \in Late
         /\ ~Sealing /\ Sealing' => pc = "hashing" /\ Newest' = sequence + 1
         /\ pc' = "streaming" => op' # "final"
<1>. USE DEF Limit, Newest, Ending, Sealing, Late
<1>0. sequence \in Nat
  BY Shapes
<1>1. CASE Admit \/ Serve \/ Reconcile \/ Losses \/ Retries
  <2>1. UNCHANGED <<pc, op, sequence>>
    BY <1>1, ArchiveOnly DEF Retries, Retry, producerVars
  <2>. QED
    BY <1>0, <2>1 DEF SealInv, Finals
<1>2. CASE TimerFires \/ FlushEnds
  <2>1. UNCHANGED <<pc, op, sequence>>
    BY <1>2 DEF TimerFires, FlushEnds, Flushed, FlushFails
  <2>. QED
    BY <1>0, <2>1 DEF SealInv, Finals
<1>3. CASE AcquireLease \/ Registered \/ Created \/ Settle \/ ReleaseLease \/ ContextLost
  <2>1. /\ sequence' = sequence /\ op' = op
        /\ \/ pc = "start" /\ pc' = "registering"
           \/ pc = "registering" /\ pc' \in {"creating", "settling"}
           \/ pc = "creating" /\ pc' = "streaming"
           \/ pc = "settling" /\ pc' = "releasing"
           \/ pc = "releasing" /\ pc' = "done"
           \/ pc' = "crashed"
    BY <1>3 DEF AcquireLease, Registered, Created, Settle, ReleaseLease, ContextLost
  <2>2. pc = "creating" => op # "final"
    BY DEF SealInv, Finals
  <2>. QED
    BY <1>0, <2>1, <2>2
<1>4. CASE Settled \/ Hashed
  BY <1>0, <1>4 DEF Settled, Hashed, SendCheckpoint, TypeInv, Counted
<1>5. CASE Checkpointed
  <2>1. /\ pc = "checkpoint" /\ op' = "none"
        /\ sequence' = IF op = "inline" THEN sequence ELSE sequence + 1
        /\ pc' = IF op = "final" THEN "settling" ELSE "streaming"
    BY <1>5 DEF Checkpointed
  <2>. QED
    BY <1>0, <2>1
<1>7. CASE RunFails
  <2>1. pc \in {"creating", "checkpoint"} /\ pc' = "settling" /\ sequence' = sequence
        /\ op' = "none"
    BY <1>7 DEF RunFails
  <2>. QED
    BY <1>0, <2>1
<1>6. CASE Provider
  BY <1>0, <1>6 DEF Provider, Text, Checkpoint, SealInv, Finals
<1>. QED
  BY <1>1, <1>2, <1>3, <1>4, <1>5, <1>6, <1>7 DEF Next, Loop

(* Where the batches of a step's calls come from.                          *)
LEMMA Calls ==
  ASSUME TypeInv, SealInv, TypeInv', Next, NEW a \in Activity
  PROVE  \/ call'[a] = call[a]
         \/ Idle(a)' /\ ~call'[a].final
         \/ /\ ~Idle(a) /\ ~Idle(a)'
            /\ call'[a].hi = call[a].hi /\ call'[a].final = call[a].final
         \/ /\ a = "loop" /\ pc' = "creating" /\ call'[a].hi = 0 /\ ~call'[a].final
         \/ /\ a = "loop" /\ pc # "checkpoint" /\ pc' = "checkpoint"
            /\ call'[a].hi = sequence + 1 /\ Newest' = sequence + 1
            /\ call'[a].final => Sealing'
            /\ Sealing' => call'[a].final
         \/ /\ a # "loop" /\ UNCHANGED pc /\ call'[a].hi = sequence /\ ~call'[a].final
<1>0. "loop" \in Activity /\ sequence \in Nat
  BY Names, Shapes
<1>1. CASE Admit \/ Serve \/ Reconcile \/ Losses
  BY <1>1, ArchiveOnly
<1>2. CASE AcquireLease \/ Settle \/ ReleaseLease
  BY <1>2 DEF AcquireLease, Settle, ReleaseLease
<1>3. CASE ContextLost
  BY <1>3 DEF ContextLost, Idle, NoCall
<1>4. CASE Registered
  <2>1. CASE pc' = "creating"
    <3>1. StartCommit("loop", "write", 0, 0, FALSE)
      BY <1>4, <2>1 DEF Registered
    <3>2. 0 \in 0 .. MaxSequence
      BY BoundsAssumption
    <3>3. /\ \A b \in Activity : b # "loop" => call'[b] = call[b]
          /\ call'["loop"].hi = 0 /\ call'["loop"].final = FALSE
      BY <1>0, <3>1, <3>2, Starts
    <3>. QED
      BY <2>1, <3>3
  <2>2. CASE pc' # "creating"
    BY <1>4, <2>2 DEF Registered
  <2>. QED
    BY <2>1, <2>2
<1>5. CASE Created \/ Checkpointed \/ RunFails
  <2>1. \E ok \in BOOLEAN : Returns("loop", ok)
    BY <1>5 DEF Created, Checkpointed, RunFails
  <2>. QED
    BY <1>0, <2>1, Ends
<1>6. CASE Settled \/ Hashed \/ Provider
  <2>1. /\ pc \in {"draining", "hashing", "streaming"}
        /\ pc' = "checkpoint" => /\ StartCheckpoint
                                 /\ \/ op' = op /\ op # "inline" /\ sequence' = sequence
                                    \/ op # "final" /\ op' = "inline" /\ sequence' = sequence + 1
        /\ pc' # "checkpoint" => UNCHANGED call
    BY <1>6 DEF Settled, Hashed, SendCheckpoint, Provider, Text, Checkpoint, TypeInv, Counted,
       SealInv, Finals
  <2>2. CASE pc' = "checkpoint"
    <3>1. taken <= sequence /\ sequence <= MaxSequence - 1
      BY <2>1 DEF TypeInv, Counted, Late
    <3>2. /\ \A b \in Activity : b # "loop" => call'[b] = call[b]
          /\ call'["loop"].hi = sequence + 1
          /\ call'["loop"].final <=> op = "final"
      BY <2>1, <2>2, <3>1, StartsCheckpoint
    <3>3. Newest' = sequence + 1 /\ (Sealing' <=> op = "final")
      BY <2>1, <2>2 DEF Newest, Sealing
    <3>. QED
      BY <2>1, <2>2, <3>2, <3>3
  <2>3. CASE pc' # "checkpoint"
    BY <2>1, <2>3
  <2>. QED
    BY <2>2, <2>3
<1>7. CASE TimerFires
  <2>1. CASE UNCHANGED call
    BY <2>1
  <2>2. CASE ~UNCHANGED call
    <3>1. PICK f \in Flusher : StartCommit(f, "write", taken + 1, sequence, FALSE)
      BY <1>7, <2>2 DEF TimerFires
    <3>2. taken + 1 .. sequence # {} /\ pc' = pc
      BY <1>7, <2>2 DEF TimerFires, Pending
    <3>3. taken + 1 \in 0 .. MaxSequence /\ sequence \in 0 .. MaxSequence
      BY <3>2, BoundsAssumption DEF TypeInv, TypeOK
    <3>4. f \in Activity /\ f # "loop"
      BY Names DEF Activity
    <3>5. /\ \A b \in Activity : b # f => call'[b] = call[b]
          /\ call'[f].hi = sequence /\ call'[f].final = FALSE
      BY <3>1, <3>3, <3>4, Starts
    <3>. QED
      BY <3>2, <3>4, <3>5
  <2>. QED
    BY <2>1, <2>2
<1>8. ASSUME NEW f \in Flusher, Flushed(f) \/ FlushFails(f)
      PROVE  call'[a] = call[a] \/ (Idle(a)' /\ ~call'[a].final)
  <2>1. f \in Activity /\ \E ok \in BOOLEAN : Returns(f, ok)
    BY <1>8 DEF Flushed, FlushFails, Activity
  <2>. QED
    BY <2>1, Ends
<1>9. ASSUME NEW b \in Activity, Retry(b)
      PROVE  \/ call'[a] = call[a]
             \/ /\ ~Idle(a) /\ ~Idle(a)'
                /\ call'[a].hi = call[a].hi /\ call'[a].final = call[a].final
  BY <1>9, Resends
<1>. QED
  BY <1>1, <1>2, <1>3, <1>4, <1>5, <1>6, <1>7, <1>8, <1>9 DEF Next, Loop, FlushEnds, Retries

(* Where a step's requests come from.                                      *)
LEMMA Requests ==
  ASSUME TypeInv, SealInv, TypeInv', Next, NEW i \in DOMAIN wire'
  PROVE  \/ \E j \in DOMAIN wire : wire'[i].hi = wire[j].hi /\ wire'[i].final = wire[j].final
         \/ \E a \in Activity : /\ ~Idle(a)' /\ wire'[i].hi = call'[a].hi
                                /\ wire'[i].final = call'[a].final
         \/ wire'[i].hi = -1 /\ wire'[i].final = FALSE
<1>0. "loop" \in Activity /\ NoCall \in Call
  BY Names, NoCallType
<1>1. ASSUME NEW a \in Activity, NEW kind, NEW c, Request(a, kind, c) \in Entry,
             wire' = Append(wire, Request(a, kind, c))
      PROVE  \/ i \in DOMAIN wire /\ wire'[i] = wire[i]
             \/ wire'[i].hi = c.hi /\ wire'[i].final = c.final
  <2>1. (i \in DOMAIN wire /\ wire'[i] = wire[i]) \/ wire'[i] = Request(a, kind, c)
    BY <1>1, Shapes, AppendElements
  <2>. QED
    BY <2>1 DEF Request
<1>2. CASE wire' = wire
  BY <1>2
<1>3. CASE Serve
  <2>1. wire # <<>> /\ wire' = Tail(wire)
    BY <1>3 DEF Serve
  <2>. QED
    BY <2>1, Shapes, HeadTail
<1>4. CASE OwnerLost
  <2>1. i \in DOMAIN wire /\ wire'[i] = [wire[i] EXCEPT !.kind = "lost"]
    BY <1>4 DEF OwnerLost
  <2>. QED
    BY <2>1, Shapes DEF Entry
<1>5. ASSUME NEW k \in DOMAIN wire, ReplyLost(k)
      PROVE  \E j \in DOMAIN wire : wire'[i].hi = wire[j].hi /\ wire'[i].final = wire[j].final
  <2>1. PICK kind :
            wire' = [wire EXCEPT ![k] = [wire[k] EXCEPT !.who = "nobody", !.kind = kind]]
    BY <1>5 DEF ReplyLost
  <2>2. [wire[k] EXCEPT !.who = "nobody", !.kind = kind].hi = wire[k].hi
        /\ [wire[k] EXCEPT !.who = "nobody", !.kind = kind].final = wire[k].final
    BY Shapes DEF Entry
  <2>3. i \in DOMAIN wire
    BY <2>1
  <2>4. CASE i = k
    BY <2>1, <2>2, <2>3, <2>4
  <2>5. CASE i # k
    BY <2>1, <2>3, <2>5
  <2>. QED
    BY <2>4, <2>5
<1>6. CASE ContextLost
  <2>1. i \in DOMAIN wire /\ wire'[i] = [wire[i] EXCEPT !.who = "nobody"]
    BY <1>6 DEF ContextLost
  <2>. QED
    BY <2>1, Shapes DEF Entry
<1>7. CASE AcquireLease \/ Settle
  <2>1. PICK kind \in {"register", "release"} : wire' = Append(wire, Request("loop", kind, NoCall))
    BY <1>7 DEF AcquireLease, Settle
  <2>2. Request("loop", kind, NoCall) \in Entry
    BY <1>0, ShapeTypes
  <2>3. NoCall.hi = -1 /\ NoCall.final = FALSE
    BY DEF NoCall
  <2>. QED
    BY <1>0, <1>1, <2>1, <2>2, <2>3
<1>8. CASE Registered /\ wire' # wire
  <2>1. StartCommit("loop", "write", 0, 0, FALSE)
    BY <1>8 DEF Registered
  <2>2. 0 \in 0 .. MaxSequence
    BY BoundsAssumption
  <2>3. ~Idle("loop")' /\ Request("loop", "write", call'["loop"]) \in Entry
        /\ wire' = Append(wire, Request("loop", "write", call'["loop"]))
    BY <1>0, <2>1, <2>2, Starts
  <2>. QED
    BY <1>0, <1>1, <2>3
<1>9. CASE (Settled \/ Hashed \/ Provider) /\ wire' # wire
  <2>1. pc \in {"draining", "hashing", "streaming"} /\ StartCheckpoint
    BY <1>9 DEF Settled, Hashed, SendCheckpoint, Provider, Text, Checkpoint
  <2>2. taken <= sequence /\ sequence <= MaxSequence - 1
    BY <2>1 DEF TypeInv, Counted, Late
  <2>3. PICK first \in {"stage", "write"} :
          /\ ~Idle("loop")' /\ Request("loop", first, call'["loop"]) \in Entry
          /\ wire' = Append(wire, Request("loop", first, call'["loop"]))
    BY <2>1, <2>2, StartsCheckpoint
  <2>. QED
    BY <1>0, <1>1, <2>3
<1>10. CASE TimerFires /\ wire' # wire
  <2>1. PICK f \in Flusher : StartCommit(f, "write", taken + 1, sequence, FALSE)
    BY <1>10 DEF TimerFires
  <2>2. taken + 1 .. sequence # {}
    BY <1>10 DEF TimerFires, Pending
  <2>3. taken + 1 \in 0 .. MaxSequence /\ sequence \in 0 .. MaxSequence /\ f \in Activity
    BY <2>2, BoundsAssumption DEF TypeInv, TypeOK, Activity
  <2>4. ~Idle(f)' /\ Request(f, "write", call'[f]) \in Entry
        /\ wire' = Append(wire, Request(f, "write", call'[f]))
    BY <2>1, <2>3, Starts
  <2>. QED
    BY <1>1, <2>3, <2>4
<1>11. ASSUME NEW a \in Activity, Retry(a)
       PROVE  \/ i \in DOMAIN wire /\ wire'[i] = wire[i]
              \/ ~Idle(a)' /\ wire'[i].hi = call'[a].hi /\ wire'[i].final = call'[a].final
  <2>1. PICK kind \in {"stage", "write", "status"} :
          /\ wire' = Append(wire, Request(a, kind, call'[a]))
          /\ Request(a, kind, call'[a]) \in Entry /\ ~Idle(a)'
    BY <1>11, Resends
  <2>. QED
    BY <1>1, <2>1
<1>12. Admit \/ Reconcile \/ Created \/ Checkpointed \/ RunFails \/ ReleaseLease
         \/ FlushEnds => wire' = wire
  BY DEF Admit, Reconcile, Created, Checkpointed, RunFails, ReleaseLease, FlushEnds, Flushed, FlushFails
<1>. QED
  BY <1>2, <1>3, <1>4, <1>5, <1>6, <1>7, <1>8, <1>9, <1>10, <1>11, <1>12
  DEF Next, Loop, Losses, Retries

(* What a step appends to the log is the batch it serves.                  *)
LEMMA Appended ==
  ASSUME TypeInv, Serve, ~UNCHANGED <<last, seal>>
  PROVE  /\ seal = "open" /\ 1 \in DOMAIN wire /\ last' = wire[1].hi
         /\ wire[1].final = TRUE => seal' = "complete"
         /\ wire[1].final = FALSE => seal' = "open"
         /\ wire' = Tail(wire)
<1>1. wire # <<>> /\ 1 \in DOMAIN wire /\ Head(wire) = wire[1] /\ wire' = Tail(wire)
  BY Shapes, HeadTail DEF Serve
<1>2. ServeWrite(wire[1])
  BY <1>1
  DEF Serve, ServeStage, ServeStatus, ServeRegister, ServeRelease, ServeLost, archiveVars
<1>3. /\ seal = "open" /\ last' = wire[1].hi
      /\ seal' = IF wire[1].final THEN "complete" ELSE seal
  BY <1>2 DEF ServeWrite, Appends, archiveVars
<1>. QED
  BY <1>1, <1>3

(* Only a request that the owner serves appends or completes the seal.     *)
LEMMA Sealed ==
  ASSUME Next, ~Serve
  PROVE  last' = last /\ (seal' = seal \/ (seal = "open" /\ seal' = "partial"))
<1>1. CASE Reconcile
  BY <1>1 DEF Reconcile, Finished
<1>2. CASE Losses
  BY <1>2 DEF Losses, OwnerLost, ReplyLost, archiveVars
<1>3. CASE Admit
  BY <1>3 DEF Admit, archiveVars
<1>. QED
  BY <1>1, <1>2, <1>3, ProducerOnly DEF Next

(* No batch runs ahead of what the producer has numbered.                  *)
LEMMA WithinKeeps ==
  ASSUME TypeInv, SealInv, TypeInv', Next
  PROVE  Within'
<1>1. Limit <= Limit' /\ Limit \in Nat /\ Limit' \in Int
  BY Course
<1>2. last' <= Limit'
  <2>1. last \in Int /\ last <= Limit /\ \A i \in DOMAIN wire : wire[i].hi <= Limit
    BY Shapes DEF SealInv, Within
  <2>2. \A i \in DOMAIN wire : wire[i].hi \in Int
    BY Shapes DEF Entry, Sequence
  <2>3. last' = last \/ (1 \in DOMAIN wire /\ last' = wire[1].hi)
    BY Appended, Sealed
  <2>. QED
    BY <1>1, <2>1, <2>2, <2>3
<1>3. ASSUME NEW a \in Activity, ~Idle(a)'
      PROVE  call'[a].hi <= Limit' /\ call'[a].hi \in Int
  <2>1. ~Idle(a) => call[a].hi <= Limit /\ call[a].hi \in Int
    BY Shapes DEF SealInv, Within
  <2>2. sequence \in Nat /\ sequence <= Limit
    BY Shapes DEF Limit, Newest
  <2>3. pc' = "checkpoint" => Limit' = Newest'
    BY DEF Limit, Late
  <2>. QED
    BY <1>1, <1>3, <2>1, <2>2, <2>3, Calls DEF Idle
<1>4. ASSUME NEW i \in DOMAIN wire'
      PROVE  wire'[i].hi <= Limit'
  <2>1. \A j \in DOMAIN wire : wire[j].hi <= Limit /\ wire[j].hi \in Int
    BY Shapes DEF SealInv, Within, Entry, Sequence
  <2>2. \/ \E j \in DOMAIN wire : wire'[i].hi = wire[j].hi
        \/ \E a \in Activity : ~Idle(a)' /\ wire'[i].hi = call'[a].hi
        \/ wire'[i].hi = -1
    BY Requests
  <2>. QED
    BY <1>1, <1>3, <2>1, <2>2
<1>. QED
  BY <1>2, <1>3, <1>4 DEF Within

(* The final batch stays the newest, and it is what seals.                 *)
LEMMA FinalsKeeps ==
  ASSUME TypeInv, SealInv, TypeInv', Callers', PrefixHasNoHoles, Next
  PROVE  Finals'
<1>1. /\ Ending => Ending' /\ Newest' <= Newest
      /\ Sealing => UNCHANGED <<pc, op, sequence>> \/ pc' \in Late
      /\ ~Sealing /\ Sealing' => pc = "hashing" /\ Newest' = sequence + 1
      /\ pc' = "streaming" => op' # "final"
      /\ Newest \in Nat
  BY Course
<1>2. "loop" \in Activity /\ sequence \in Nat /\ last \in Int
      /\ (\A i \in DOMAIN wire : wire[i].hi \in Int /\ wire[i].final \in BOOLEAN)
      /\ (\A a \in Activity : call[a].hi \in Int /\ call[a].final \in BOOLEAN)
  BY SMTT(60), Names, Shapes DEF Entry, Sequence, Call
<1>3. Newest' \in Int
  <2>1. sequence' \in Nat
    BY DEF TypeInv, TypeOK
  <2>. QED
    BY <2>1 DEF Newest
<1>4. Sealing /\ Sealing' => Newest' = Newest
  BY <1>1 DEF Sealing, Newest, Late
<1>5. Sealing /\ ~Idle("loop")' => Sealing'
  <2>1. pc' \in Late => Idle("loop")'
    BY DEF Callers, Late
  <2>. QED
    BY <1>1, <2>1 DEF Sealing
<1>6. ~Sealing /\ Sealing' =>
        /\ \A a \in Activity : ~Idle(a) => call[a].hi < Newest' /\ call[a].final = FALSE
        /\ \A i \in DOMAIN wire : wire[i].hi < Newest' /\ wire[i].final = FALSE
        /\ last < Newest'
  <2>1. SUFFICES ASSUME ~Sealing, Sealing'
                 PROVE  /\ \A a \in Activity :
                             ~Idle(a) => call[a].hi < Newest' /\ call[a].final = FALSE
                        /\ \A i \in DOMAIN wire : wire[i].hi < Newest' /\ wire[i].final = FALSE
                        /\ last < Newest'
    OBVIOUS
  <2>2. pc = "hashing" /\ Newest' = sequence + 1 /\ Limit = sequence /\ ~Ending
    BY <1>1, <2>1 DEF Limit, Newest, Late, Ending
  <2>3. /\ last <= Limit
        /\ \A a \in Activity : ~Idle(a) => call[a].hi <= Limit
        /\ \A i \in DOMAIN wire : wire[i].hi <= Limit
    BY DEF SealInv, Within
  <2>4. /\ \A a \in Activity : call[a].final => Sealing
        /\ \A i \in DOMAIN wire : wire[i].final => Ending
    BY DEF SealInv, Finals
  <2>. QED
    BY <1>2, <2>1, <2>2, <2>3, <2>4
(* The calls.                                                              *)
<1>7. ASSUME NEW a \in Activity, call'[a].final
      PROVE  a = "loop" /\ Sealing'
  <2>1. call[a].final => a = "loop" /\ Sealing
    BY DEF SealInv, Finals
  <2>2. call[a].final => ~Idle(a)
    BY <2>1 DEF SealInv, Callers, Sealing
  <2>3. CASE call'[a].final = call[a].final
    <3>1. call[a].final /\ a = "loop" /\ Sealing /\ ~Idle(a)
      BY <1>7, <2>1, <2>2, <2>3
    <3>2. CASE Idle(a)'
      <4>1. call'[a] # call[a]
        BY <3>1, <3>2 DEF Idle
      <4>. QED
        BY <1>7, <3>1, <3>2, <4>1, Calls DEF Sealing
    <3>. QED
      BY <1>5, <3>1, <3>2
  <2>4. CASE call'[a].final # call[a].final
    BY <1>7, <2>4, Calls
  <2>. QED
    BY <2>3, <2>4
<1>8. Sealing' => /\ call'["loop"].final /\ call'["loop"].hi = Newest'
                  /\ \A f \in Flusher : ~Idle(f)' => call'[f].hi < Newest'
  <2>1. SUFFICES ASSUME Sealing'
                 PROVE  /\ call'["loop"].final /\ call'["loop"].hi = Newest'
                        /\ \A f \in Flusher : ~Idle(f)' => call'[f].hi < Newest'
    OBVIOUS
  <2>2. ~Idle("loop")' /\ pc' = "checkpoint"
    BY <2>1 DEF Callers, Sealing
  <2>3. ASSUME NEW f \in Flusher, ~Idle(f)'
        PROVE  call'[f].hi < Newest'
    <3>1. f \in Activity /\ f # "loop"
      BY Names DEF Activity
    <3>2. ~Idle(f) => call[f].hi < Newest'
      BY <1>4, <1>6, <2>1, <3>1 DEF SealInv, Finals
    <3>3. sequence < Newest'
      BY <1>1, <1>2, <1>4, <2>1 DEF Sealing, Newest
    <3>. QED
      BY <2>3, <3>1, <3>2, <3>3, Calls DEF Idle
  <2>4. CASE Sealing
    <3>1. call["loop"].final /\ call["loop"].hi = Newest /\ pc = "checkpoint"
      BY <2>4 DEF SealInv, Finals, Sealing
    <3>. QED
      BY <1>2, <1>4, <2>1, <2>2, <2>3, <2>4, <3>1, Calls
  <2>5. CASE ~Sealing
    <3>1. pc = "hashing" /\ Idle("loop")
      BY <1>1, <2>1, <2>5 DEF SealInv, Callers
    <3>. QED
      BY <1>2, <2>1, <2>2, <2>3, <3>1, Calls DEF Idle
  <2>. QED
    BY <2>4, <2>5
(* The requests.                                                           *)
<1>9. ASSUME NEW i \in DOMAIN wire'
      PROVE  /\ wire'[i].final => Ending' /\ wire'[i].hi >= Newest'
             /\ Sealing' /\ wire'[i].final = FALSE => wire'[i].hi < Newest'
  <2>1. ASSUME NEW j \in DOMAIN wire, wire'[i].hi = wire[j].hi, wire'[i].final = wire[j].final
        PROVE  /\ wire'[i].final => Ending' /\ wire'[i].hi >= Newest'
               /\ Sealing' /\ wire'[i].final = FALSE => wire'[i].hi < Newest'
    <3>1. /\ wire[j].final => Ending /\ wire[j].hi >= Newest
          /\ Sealing /\ wire[j].final = FALSE => wire[j].hi < Newest
      BY DEF SealInv, Finals
    <3>. QED
      BY <1>1, <1>2, <1>3, <1>4, <1>6, <2>1, <3>1
  <2>2. ASSUME NEW a \in Activity, ~Idle(a)', wire'[i].hi = call'[a].hi,
               wire'[i].final = call'[a].final
        PROVE  /\ wire'[i].final => Ending' /\ wire'[i].hi >= Newest'
               /\ Sealing' /\ wire'[i].final = FALSE => wire'[i].hi < Newest'
    <3>1. Sealing' => Ending'
      BY DEF Ending
    <3>2. a # "loop" => a \in Flusher
      BY DEF Activity
    <3>. QED
      BY <1>3, <1>7, <1>8, <2>2, <3>1, <3>2
  <2>3. Sealing' => Newest' > -1
    BY <1>1, <1>2, <1>4 DEF Sealing, Newest
  <2>. QED
    BY <2>1, <2>2, <2>3, Requests
(* The seal.                                                               *)
<1>10. seal' = "complete" => Ending' /\ last' >= Newest'
  <2>1. CASE ~Serve \/ UNCHANGED <<last, seal>>
    BY <1>1, <1>2, <1>3, <2>1, Sealed DEF SealInv, Finals
  <2>2. CASE Serve /\ ~UNCHANGED <<last, seal>>
    <3>1. /\ 1 \in DOMAIN wire /\ last' = wire[1].hi
          /\ wire[1].final = FALSE => seal' = "open"
      BY <2>2, Appended
    <3>2. wire[1].final => Ending /\ wire[1].hi >= Newest
      BY <3>1 DEF SealInv, Finals
    <3>. QED
      BY <1>1, <1>2, <1>3, <3>1, <3>2
  <2>. QED
    BY <2>1, <2>2
<1>11. Sealing' /\ last' >= Newest' => seal' = "complete"
  <2>1. SUFFICES ASSUME Sealing', last' >= Newest' PROVE seal' = "complete"
    OBVIOUS
  <2>2. CASE ~Serve \/ UNCHANGED <<last, seal>>
    <3>1. last' = last /\ (seal = "complete" => seal' = "complete")
      BY <2>2, Sealed
    <3>2. Sealing
      BY <1>2, <1>3, <1>6, <2>1, <3>1
    <3>. QED
      BY <1>4, <2>1, <3>1, <3>2 DEF SealInv, Finals
  <2>3. CASE Serve /\ ~UNCHANGED <<last, seal>>
    <3>1. /\ 1 \in DOMAIN wire /\ last' = wire[1].hi
          /\ wire[1].final = TRUE => seal' = "complete"
      BY <2>3, Appended
    <3>2. UNCHANGED <<pc, op, sequence>>
      BY <2>3 DEF Serve, producerVars
    <3>3. Sealing /\ Newest' = Newest
      BY <2>1, <3>2 DEF Sealing, Newest
    <3>4. ~wire[1].final => wire[1].hi < Newest
      BY <3>1, <3>3 DEF SealInv, Finals
    <3>. QED
      BY <1>1, <1>2, <2>1, <3>1, <3>3, <3>4
  <2>. QED
    BY <2>2, <2>3
(* What the run reports.                                                   *)
<1>12. outcome' = "persisted" => seal' = "complete"
  <2>1. seal = "complete" => seal' = "complete"
    BY Sealed, Appended
  <2>2. CASE outcome' \in {outcome, "failed"}
    BY <2>1, <2>2 DEF SealInv, Finals
  <2>3. CASE Checkpointed /\ op = "final"
    <3>1. Sealing /\ Returns("loop", TRUE)
      BY <2>3 DEF Checkpointed, Sealing
    <3>2. Batch("loop") \subseteq receipts /\ ~Idle("loop")
      BY <1>2, <3>1, Ends
    <3>3. call["loop"].lo <= call["loop"].hi /\ call["loop"].hi = Newest
      BY <1>2, <3>1, <3>2 DEF TypeInv, Batches, SealInv, Finals
    <3>4. call["loop"].lo \in Int
      BY <1>2, Shapes
    <3>5. Newest \in 0 .. last
      BY <1>1, <3>2, <3>3, <3>4 DEF Batch, PrefixHasNoHoles
    <3>6. seal = "complete"
      BY <1>2, <3>1, <3>5 DEF SealInv, Finals
    <3>. QED
      BY <2>1, <3>6
  <2>4. outcome' \in {outcome, "failed"} \/ (Checkpointed /\ op = "final")
    <3>1. CASE Admit \/ Serve \/ Reconcile \/ Losses
      BY <3>1, ArchiveOnly DEF producerVars
    <3>2. CASE Loop
      BY <3>2 DEF Loop, AcquireLease, Registered, Created, Settled, Hashed, SendCheckpoint,
         Checkpointed, RunFails, Settle, ReleaseLease
    <3>3. CASE Provider \/ TimerFires \/ FlushEnds \/ ContextLost \/ Retries
      BY <3>3 DEF Provider, Text, Checkpoint, TimerFires, FlushEnds, Flushed, FlushFails,
         ContextLost, Retries, Retry, producerVars
    <3>. QED
      BY <3>1, <3>2, <3>3 DEF Next
  <2>. QED
    BY <2>2, <2>3, <2>4
<1>13. pc' \in {"start", "registering", "creating", "streaming"} => op' # "final"
  <2>1. (pc' = pc /\ op' = op) \/ pc' = "streaming" \/ pc' \notin {"start", "registering", "creating"}
        \/ AcquireLease \/ Registered
    BY ArchiveOnly
    DEF Next, Loop, Created, Settled, Hashed, SendCheckpoint, Checkpointed, RunFails, Settle,
        ReleaseLease, Provider, Text, Checkpoint, TimerFires, FlushEnds, Flushed, FlushFails,
        ContextLost, Retries, Retry, producerVars
  <2>2. AcquireLease \/ Registered => op' = op /\ pc \in {"start", "registering"}
    BY DEF AcquireLease, Registered
  <2>. QED
    BY <1>1, <2>1, <2>2 DEF SealInv, Finals
<1>14. \A i \in DOMAIN wire' : wire'[i].final \in BOOLEAN
  <2>1. wire' \in Seq(Entry)
    BY DEF TypeInv, TypeOK
  <2>2. \A i \in DOMAIN wire' : wire'[i] \in Entry
    BY <2>1
  <2>. QED
    BY <2>2 DEF Entry
<1>. QED
  BY <1>7, <1>8, <1>9, <1>10, <1>11, <1>12, <1>13, <1>14 DEF Finals

-----------------------------------------------------------------------------
(* The strengthened invariant holds at the start.                          *)
LEMMA SealInit == Init => SealInv
<1>. SUFFICES ASSUME Init PROVE SealInv
  OBVIOUS
<1>1. \A a \in Activity : Idle(a) /\ call[a].final = FALSE
  BY DEF Init, Idle, NoCall
<1>2. Callers /\ WireInv /\ ReplyInv /\ OneAnswer /\ Owed
  BY <1>1, Names DEF Init, Callers, WireInv, ReplyInv, OneAnswer, Owed, Awaits
<1>3. Underway /\ Within /\ Finals
  BY <1>1 DEF Init, Underway, Within, Finals, Limit, Newest, Sealing, Ending, Late
<1>. QED
  BY <1>2, <1>3 DEF SealInv

(* Every step keeps the strengthened invariant.                            *)
LEMMA SealNext ==
  ASSUME LogInv, LogInv', SealInv, [Next]_vars
  PROVE  SealInv'
<1>. USE DEF LogInv
<1>1. CASE UNCHANGED vars
  BY <1>1 DEF vars, producerVars, archiveVars, SealInv, Callers, WireInv, ReplyInv, OneAnswer, Owed,
     Underway, Within, Finals, Limit, Newest, Sealing, Ending, Awaits, Asked, Batch, Idle
<1>2. CASE Next
  <2>1. Callers' /\ WireInv' /\ ReplyInv' /\ OneAnswer' /\ Owed'
    <3>1. CASE Serve \/ Losses
      <4>1. UNCHANGED <<pc, call>>
        BY <3>1, ArchiveOnly DEF producerVars
      <4>2. Callers'
        BY <4>1 DEF SealInv, Callers, Idle
      <4>. QED
        BY <3>1, <4>2, ArchiveExchange
    <3>2. CASE Admit \/ Reconcile
      BY <3>2 DEF Admit, Reconcile, archiveVars, producerVars, SealInv, Callers, WireInv, ReplyInv, OneAnswer, Owed,
         Awaits, Asked, Idle, Batch
    <3>. QED
      BY <1>2, <3>1, <3>2, ProducerExchange, LostExchange DEF Next
  <2>2. Underway'
    BY <1>2, UnderwayArchive, UnderwayProducer DEF Next
  <2>3. Within' /\ Finals'
    BY <1>2, <2>1, WithinKeeps, FinalsKeeps
  <2>. QED
    BY <2>1, <2>2, <2>3 DEF SealInv
<1>. QED
  BY <1>1, <1>2

(* "keeps every delivered delta in the committed prefix": an output that   *)
(* its producer sealed holds every mutation the run counted (generation.ts, *)
(* settled and final checkpoint).                                          *)
THEOREM Delivered == Spec => []SealKeepsDelivered
<1>1. LogInv /\ SealInv => SealKeepsDelivered
  <2>. SUFFICES ASSUME LogInv, SealInv, seal = "complete" PROVE 0 .. sequence \subseteq receipts
    BY DEF SealKeepsDelivered
  <2>1. last >= Newest /\ last \in Int /\ sequence \in Nat
    BY Shapes DEF SealInv, Finals, LogInv
  <2>2. last >= sequence
    BY <2>1 DEF Newest
  <2>. QED
    BY <2>1, <2>2 DEF LogInv, PrefixHasNoHoles
<1>. QED
  BY <1>1, LogInit, LogNext, SealInit, SealNext, PTL DEF Spec

(* A run that reports success has sealed its attempt, and what it has      *)
(* flushed with nothing in flight is durable (generation.ts, commit).      *)
THEOREM Reported == Spec => []ReportedIsDurable
<1>1. LogInv /\ SealInv => ReportedIsDurable
  <2>. SUFFICES ASSUME LogInv, SealInv PROVE ReportedIsDurable
    OBVIOUS
  <2>1. outcome = "persisted" => seal = "complete"
    BY DEF SealInv, Finals
  <2>2. ASSUME pc = "streaming", ~flushFailed, Pending = {}, \A a \in Activity : Idle(a)
        PROVE  0 .. sequence \subseteq receipts
    <3>1. sequence <= taken /\ sequence \in Nat /\ taken \in Nat
      BY <2>2, Shapes DEF Pending, LogInv
    <3>2. \A n \in 0 .. taken : n \in receipts
      BY <2>2 DEF SealInv, Underway, Late
    <3>. QED
      BY <3>1, <3>2
  <2>. QED
    BY <2>1, <2>2 DEF ReportedIsDurable
<1>. QED
  BY <1>1, LogInit, LogNext, SealInit, SealNext, PTL DEF Spec


-----------------------------------------------------------------------------
(* The end of the run.  TLC checks that a run ends once its stream has     *)
(* (RunEnds); what the fairness adds nothing to is that no state of a      *)
(* running loop is without its next step.                                  *)

(* The flag of a flush in flight is raised only while one is.              *)
FlagInv ==
  Alive /\ committing =>
    \/ \E f \in Flusher : ~Idle(f)
    \/ pc = "checkpoint" /\ op = "inline"

(* A step of the loop itself, of the owner, or of a commit() with its      *)
(* answer in hand can be taken: their guards, spelled out.                 *)
Moves ==
  \/ pc \in {"start", "hashing", "settling"}
  \/ pc = "draining" /\ ~committing
  \/ wire # <<>>
  \/ \E a \in Activity : Reply(a) # "none" /\ Awaits(a)

(* Away from the provider, the run is never without its next step.         *)
NeverStalls == pc \notin {"streaming", "done", "crashed"} => Moves

(* The loop leaves the commits of the flushes alone.                       *)
LEMMA FlushesKept ==
  ASSUME TypeInv, Loop \/ Provider
  PROVE  \A f \in Flusher : Idle(f)' <=> Idle(f)
<1>1. (\E c : call' = [call EXCEPT !["loop"] = c]) \/ call' = call
  <2>1. CASE Text
    BY <2>1 DEF Text, StartCheckpoint, StartCommit
  <2>2. CASE Settled
    BY <2>2 DEF Settled, SendCheckpoint, StartCheckpoint, StartCommit
  <2>3. CASE Hashed
    BY <2>3 DEF Hashed, SendCheckpoint, StartCheckpoint, StartCommit
  <2>4. CASE Registered
    BY <2>4 DEF Registered, StartCommit
  <2>5. CASE Created \/ Checkpointed \/ RunFails
    BY <2>5 DEF Created, Checkpointed, RunFails, Returns
  <2>6. CASE AcquireLease \/ Settle \/ ReleaseLease \/ \E kind \in {"raw", "append", "final"} : Checkpoint(kind)
    BY <2>6 DEF AcquireLease, Settle, ReleaseLease, Checkpoint
  <2>. QED
    BY <2>1, <2>2, <2>3, <2>4, <2>5, <2>6 DEF Loop, Provider
<1>2. \A f \in Flusher : f # "loop" /\ f \in Activity
  BY Names DEF Activity
<1>. QED
  BY <1>1, <1>2, Shapes DEF Idle

(* Every step keeps the flag true to the flushes.                          *)
LEMMA FlagNext ==
  ASSUME TypeInv, TypeInv', SealInv, FlagInv, [Next]_vars
  PROVE  FlagInv'
<1>1. CASE UNCHANGED vars
  BY <1>1 DEF vars, producerVars, FlagInv, Alive, Idle
<1>2. CASE Admit \/ Serve \/ Losses \/ Reconcile
  <2>1. UNCHANGED <<producerVars, call>>
    BY <1>2, ArchiveOnly
  <2>. QED
    BY <2>1 DEF producerVars, FlagInv, Alive, Idle
<1>3. CASE ContextLost
  BY <1>3 DEF ContextLost, FlagInv, Alive
<1>4. CASE Loop
  <2>1. \A f \in Flusher : Idle(f)' <=> Idle(f)
    BY <1>4, FlushesKept
  <2>2. CASE Checkpointed \/ RunFails
    <3>1. CASE op = "inline"
      BY <2>2, <3>1 DEF Checkpointed, RunFails, FlagInv
    <3>2. CASE op # "inline"
      <4>1. Alive /\ committing' = committing
        BY <2>2, <3>2 DEF Checkpointed, RunFails, Alive
      <4>. QED
        BY <2>1, <3>2, <4>1 DEF FlagInv
    <3>. QED
      BY <3>1, <3>2
  <2>3. CASE ~(Checkpointed \/ RunFails)
    <3>1. Alive /\ pc # "checkpoint" /\ committing' = committing
      BY <1>4, <2>3 DEF Loop, AcquireLease, Registered, Created, Settled, Hashed, Settle,
         ReleaseLease, Alive
    <3>. QED
      BY <2>1, <3>1 DEF FlagInv
  <2>. QED
    BY <2>2, <2>3
<1>5. CASE Provider
  <2>1. \A f \in Flusher : Idle(f)' <=> Idle(f)
    BY <1>5, FlushesKept
  <2>2. Alive /\ pc # "checkpoint"
        /\ (committing' = committing \/ (pc' = "checkpoint" /\ op' = "inline"))
    BY <1>5 DEF Provider, Text, Checkpoint, Alive
  <2>. QED
    BY <2>1, <2>2 DEF FlagInv
<1>6. CASE TimerFires
  <2>1. CASE committing \/ Pending = {}
    BY <1>6, <2>1 DEF TimerFires, FlagInv, Alive, Idle
  <2>2. CASE ~(committing \/ Pending = {})
    <3>1. PICK f \in Flusher : StartCommit(f, "write", taken + 1, sequence, FALSE)
      BY <1>6, <2>2 DEF TimerFires
    <3>2. call'[f].step = "write"
      <4>1. f \in Activity
        BY DEF Activity
      <4>. QED
        BY <3>1, <4>1, Shapes DEF StartCommit
    <3>. QED
      BY <3>2 DEF FlagInv, Idle
  <2>. QED
    BY <2>1, <2>2
<1>7. CASE FlushEnds
  BY <1>7 DEF FlushEnds, Flushed, FlushFails, FlagInv
<1>8. CASE Retries
  <2>1. PICK a \in Activity : Retry(a)
    BY <1>8 DEF Retries
  <2>2. /\ UNCHANGED producerVars /\ ~Idle(a)'
        /\ \A b \in Activity : b # a => call'[b] = call[b]
    BY <2>1, Resends
  <2>3. \A f \in Flusher : ~Idle(f) => ~Idle(f)'
    BY <2>2 DEF Idle, Activity
  <2>. QED
    BY <2>2, <2>3 DEF FlagInv, Alive, producerVars
<1>. QED
  BY <1>1, <1>2, <1>3, <1>4, <1>5, <1>6, <1>7, <1>8 DEF Next

(* An activity that waits, waits for a request under way or has an answer  *)
(* of its own or of another at the head of the queue.                      *)
LEMMA AwaitedComes ==
  ASSUME TypeInv, SealInv, NEW a \in Activity, Awaits(a)
  PROVE  wire # <<>> \/ \E b \in Activity : Reply(b) # "none" /\ Awaits(b)
<1>1. CASE \E i \in DOMAIN wire : wire[i].who = a
  BY <1>1
<1>2. CASE \E i \in DOMAIN replies : replies[i].who = a
  <2>1. replies # <<>> /\ 1 \in DOMAIN replies /\ Head(replies) = replies[1]
    BY <1>2, Shapes
  <2>2. replies[1] \in Answer
    BY <2>1, Shapes
  <2>3. replies[1].who \in Activity /\ Reply(replies[1].who) # "none"
    BY <2>1, <2>2 DEF Reply, Answer
  <2>4. Awaits(replies[1].who)
    BY <2>1 DEF SealInv, ReplyInv
  <2>. QED
    BY <2>3, <2>4
<1>. QED
  BY <1>1, <1>2 DEF SealInv, Owed

(* A run that is not waiting for its provider is never stuck: whatever     *)
(* flushes, retries and losses came before, the loop, the owner or a       *)
(* commit() with its answer has a step, so "settled" is reached as long as *)
(* they take theirs (generation.ts, commit and the draining loop).         *)
THEOREM Unstuck == Spec => []NeverStalls
<1>1. TypeInv /\ SealInv /\ FlagInv => NeverStalls
  <2>. SUFFICES ASSUME TypeInv, SealInv, FlagInv, pc \notin {"streaming", "done", "crashed"}
                PROVE  Moves
    BY DEF NeverStalls
  <2>1. CASE pc \in {"start", "hashing", "settling"} \/ (pc = "draining" /\ ~committing)
    BY <2>1 DEF Moves
  <2>2. CASE pc = "draining" /\ committing
    <3>1. PICK f \in Flusher : ~Idle(f)
      BY <2>2 DEF FlagInv, Alive
    <3>. QED
      BY <3>1, AwaitedComes DEF Moves, Awaits, Activity
  <2>3. CASE pc \in {"registering", "releasing", "creating", "checkpoint"}
    <3>1. Awaits("loop")
      BY <2>3 DEF SealInv, Callers, Awaits
    <3>. QED
      BY <3>1, Names, AwaitedComes DEF Moves
  <2>. QED
    BY <2>1, <2>2, <2>3 DEF TypeInv, TypeOK
<1>2. Init => FlagInv
  BY DEF Init, FlagInv
<1>3. LogInv /\ LogInv' /\ SealInv /\ FlagInv /\ [Next]_vars => FlagInv'
  BY FlagNext DEF LogInv
<1>4. LogInv => TypeInv
  BY DEF LogInv
<1>. QED
  BY <1>1, <1>2, <1>3, <1>4, LogInit, LogNext, SealInit, SealNext, PTL DEF Spec


-----------------------------------------------------------------------------
(* What the log promises its readers, drawn from Refinement.               *)

(* An output that was sealed is the same for good: no retried, delayed or  *)
(* duplicated batch and no later recovery changes it.                      *)
SealedForGood == [][seal # "open" => UNCHANGED <<seal, last, receipts>>]_vars

(* Recovery never seals an attempt over the head of its producer.          *)
LeaseRespected == seal = "partial" => ~lease /\ pc # "start"

(* A sealed output never changes (repository.ts, append and seal).         *)
THEOREM Sealedness == Spec => SealedForGood
<1>1. LogInv /\ LogInv' /\ [Log!Next]_(Log!vars) =>
        [seal # "open" => UNCHANGED <<seal, last, receipts>>]_vars
  <2>. SUFFICES ASSUME LogInv, LogInv', [Log!Next]_(Log!vars), seal # "open"
                PROVE  UNCHANGED <<seal, last, receipts>>
    OBVIOUS
  <2>1. UNCHANGED <<seal, last>>
    BY DEF Log!Next, Log!vars, Log!Grant, Log!Extend, Log!Refuse, Log!Recover, Log!Stop
  <2>2. receipts = 0 .. last /\ receipts' = 0 .. last'
    BY DEF LogInv, PrefixHasNoHoles
  <2>. QED
    BY <2>1, <2>2
<1>. QED
  BY <1>1, LogInit, LogNext, PTL DEF Spec, SealedForGood

(* An attempt is sealed as partial only once its producer's lease is gone, *)
(* and nobody takes that lease again (producers.ts, reconcile).            *)
THEOREM Leases == Spec => []LeaseRespected
<1>1. Log!Init => LeaseRespected
  BY DEF Log!Init, LeaseRespected
<1>2. LeaseRespected /\ [Log!Next]_(Log!vars) => LeaseRespected'
  <2>. SUFFICES ASSUME LeaseRespected, [Log!Next]_(Log!vars), seal' = "partial"
                PROVE  ~(lease \/ pc = "start")'
    BY DEF LeaseRespected
  <2>1. CASE Log!Next
    BY <2>1 DEF Log!Next, Log!Grant, Log!Extend, Log!Refuse, Log!Recover, Log!Stop, LeaseRespected
  <2>2. CASE UNCHANGED Log!vars
    BY <2>2 DEF Log!vars, LeaseRespected
  <2>. QED
    BY <2>1, <2>2
<1>. QED
  BY <1>1, <1>2, LogInit, LogNext, PTL DEF Spec
=============================================================================
